-------------------------- MODULE AppendLog_proofs --------------------------
(***************************************************************************)
(* Proofs about the append-log store, for any number of tasks, records,    *)
(* generations, rewrites and faults.                                       *)
(***************************************************************************)
EXTENDS AppendLog, SequenceTheorems, WellFoundedInduction, TLAPS

(***************************************************************************)
(* The inductive invariant.  It is about any sequence ls of generations    *)
(* and any tasks and calls ops, so that a lemma can speak of one change of *)
(* them whichever action makes it.                                         *)
(***************************************************************************)
LogType ==
    [pending : Seq(Records), scheduled : {"no", "yes"}, failure : {"no", "yes"}, epoch : Nat,
     refs : Nat, held : Nat, retired : {"no", "yes"}, settled : {"no", "yes"}, lockq : Seq(LogOps)]
OpType ==
    [kind : {"none", "flush", "release", "call", "rewrite"}, gen : Nat,
     pc : {"idle", "spawned", "lock", "drain", "writing", "replacing"},
     batch : Seq(Records), epoch : Nat, upto : 0 .. MaxRecords, tail : SUBSET Records, next : {"no", "yes"}]
Lines == Records \cup {Base, Torn, Bad}
Gens(ls) == 1 .. Len(ls)
Places(ls, g) == 1 .. Len(ls[g].lockq)
Batched(ls, g) == 1 .. Len(ls[g].pending)

\* What a task or a call may be doing.
OpOK(ls, op) ==
    /\ op.pc = "idle" => op = NoOp
    /\ op.pc # "idle" => op.gen \in Gens(ls) /\ op.kind # "none"
    /\ op.pc = "spawned" => op.kind \in {"flush", "release"}
    /\ op.pc = "replacing" => op.kind = "rewrite"
    /\ op.pc # "writing" <=> op.batch = <<>>
    /\ op.next = "yes" => op.kind = "rewrite"

OpsOK(ls, ops) == \A o \in LogOps : OpOK(ls, ops[o])

\* The queue of the operation mutex has whoever holds it or waits for it, once.
Active == {"drain", "writing", "replacing"}
Queued == {"lock", "drain", "writing", "replacing"}
Queues(ls, ops) ==
    /\ \A g \in Gens(ls) : \A i, j \in Places(ls, g) : ls[g].lockq[i] = ls[g].lockq[j] => i = j
    /\ \A g \in Gens(ls) : \A i \in Places(ls, g) :
          LET op == ops[ls[g].lockq[i]]
          IN  op.gen = g /\ op.pc \in Queued /\ (op.pc \in Active => i = 1)
    /\ \A o \in LogOps : ops[o].pc \in Queued =>
          \E i \in Places(ls, ops[o].gen) : ls[ops[o].gen].lockq[i] = o

\* What is written is the front of what is pending; a rewrite that was called
\* meanwhile waits for the mutex.
WriteOK(ls, ops, o) ==
    LET op == ops[o]
        log == ls[op.gen]
    IN  /\ log.failure = "no"
        /\ Len(op.batch) <= Len(log.pending)
        /\ \A i \in 1 .. Len(op.batch) : op.batch[i] = log.pending[i]
        /\ op.epoch <= log.epoch
        /\ op.epoch < log.epoch =>
              \E p \in LogOps : ops[p].kind = "rewrite" /\ ops[p].gen = op.gen /\ ops[p].pc = "lock"
Writes(ls, ops) == \A o \in LogOps : ops[o].pc = "writing" => WriteOK(ls, ops, o)

\* A record that is pending will be written, or the failure is known.
Flushes(ls, ops) ==
    \A g \in Gens(ls) :
        /\ ls[g].scheduled = "yes" =>
              \E o \in LogOps : ops[o].gen = g /\ ops[o].pc = "spawned" /\ ops[o].kind = "flush"
        /\ ls[g].pending # <<>> /\ ls[g].failure = "no" /\ ls[g].scheduled = "no" =>
              \E o \in LogOps : ops[o].gen = g /\ ops[o].pc \in Queued

\* A generation is retired, then settled by its release, which no rewrite is
\* behind; it works only when those before it have settled.
Releases(ls, ops) ==
    /\ \A g \in Gens(ls) : g < Len(ls) => ls[g].retired = "yes"
    /\ \A g \in Gens(ls) : ls[g].settled = "yes" =>
          /\ ls[g].retired = "yes"
          /\ \A h \in Gens(ls) : h < g => ls[h].settled = "yes"
          /\ \A i \in Places(ls, g) : ops[ls[g].lockq[i]].kind \notin {"release", "rewrite"}
    /\ \A g \in Gens(ls) : \A i \in Places(ls, g) : ops[ls[g].lockq[i]].kind = "release" =>
          /\ ls[g].retired = "yes"
          /\ \A j \in Places(ls, g) : j > i => ops[ls[g].lockq[j]].kind \notin {"release", "rewrite"}
    /\ \A o \in LogOps : ops[o].pc \in Active =>
          \A h \in Gens(ls) : h < ops[o].gen => ls[h].settled = "yes"

StoreOK(ls, ops) ==
    /\ ls \in Seq(LogType) /\ ops \in [LogOps -> OpType]
    /\ OpsOK(ls, ops) /\ Queues(ls, ops) /\ Writes(ls, ops) /\ Flushes(ls, ops) /\ Releases(ls, ops)

(***************************************************************************)
(* The second part holds as long as no record was pushed to a generation   *)
(* that had been retired.  f is the file, acc and gn the records that were *)
(* accepted and given up; cut tells of a cut-over.                         *)
(***************************************************************************)
InFile(f, r) == \E i \in 1 .. Len(f) : f[i] = r
InGen(ls, g, r) == \E i \in Batched(ls, g) : ls[g].pending[i] = r
Whole(f) == \A i \in 1 .. Len(f) : f[i] # Bad
Clean(f) == \A i \in 1 .. Len(f) : f[i] # Bad /\ f[i] # Torn
Rising(f) == \A i, j \in 1 .. Len(f) : i < j /\ f[i] > 0 /\ f[j] > 0 => f[i] < f[j]

\* A settled generation has nothing left to write.
SettledIsDone(ls) ==
    \A g \in Gens(ls) : ls[g].settled = "yes" => ls[g].failure = "yes" \/ ls[g].pending = <<>>

\* Records are pending in the order in which they were accepted.
PendingInOrder(ls, acc) ==
    /\ \A g \in Gens(ls) : \A i \in Batched(ls, g) : ls[g].pending[i] <= acc
    /\ \A g \in Gens(ls) : \A i, j \in Batched(ls, g) : i < j => ls[g].pending[i] < ls[g].pending[j]
    /\ \A g, h \in Gens(ls) : g < h =>
          \A i \in Batched(ls, g), j \in Batched(ls, h) : ls[g].pending[i] < ls[h].pending[j]

\* What is in the file was accepted before what is still to be written.
LinesFirst(f, ls, acc, cut) ==
    /\ \A i \in 1 .. Len(f) : f[i] <= acc
    /\ ~cut => /\ Rising(f)
               /\ \A g \in Gens(ls) : ls[g].failure = "no" =>
                     \A i \in 1 .. Len(f), j \in Batched(ls, g) : f[i] < ls[g].pending[j]

\* Every record is somewhere.
NothingLost(f, ls, acc, gn) ==
    Whole(f) =>
        \A r \in 1 .. acc : r \in gn \/ InFile(f, r) \/ \E g \in Gens(ls) : InGen(ls, g, r)

\* What a call vouches for was pushed to its generation or to one before, and
\* is in the batch that it writes.
CallOK(ls, op, acc) ==
    /\ op.upto <= acc
    /\ \A g \in Gens(ls) : \A i \in Batched(ls, g) : ls[g].pending[i] <= op.upto =>
          g <= op.gen /\ (op.pc = "writing" /\ g = op.gen => i <= Len(op.batch))
CallsCover(ls, ops, acc) == \A o \in LogOps : ops[o].kind = "call" => CallOK(ls, ops[o], acc)

\* A rewrite that is next in line has the tail before it, and nothing but the
\* append that is writing it ahead of it.
TailIn(f, ls, op) ==
    \A r \in op.tail : InGen(ls, op.gen, r) \/ (op.pc \notin {"lock", "replacing"} /\ InFile(f, r))
NextInLine(ls, ops, o) ==
    LET q == ls[ops[o].gen].lockq
    IN  \/ q[1] = o
        \/ /\ Len(q) >= 2 /\ q[2] = o
           /\ ops[q[1]].pc = "writing" /\ ops[q[1]].epoch < ls[ops[o].gen].epoch
TailOK(f, ls, ops, o) ==
    TailIn(f, ls, ops[o]) /\ (ops[o].pc = "lock" /\ ops[o].tail # {} => NextInLine(ls, ops, o))
TailsKept(f, ls, ops) == \A o \in LogOps : ops[o].next = "yes" => TailOK(f, ls, ops, o)

\* A rewrite has replaced a torn line.
RewriteIsClean(f, ops) ==
    \A o \in LogOps : ops[o].kind = "rewrite" /\ ops[o].pc \in {"drain", "writing"} => Clean(f)

DataOK(f, ls, ops, acc, gn, cut) ==
    /\ SettledIsDone(ls) /\ PendingInOrder(ls, acc) /\ LinesFirst(f, ls, acc, cut)
    /\ NothingLost(f, ls, acc, gn) /\ CallsCover(ls, ops, acc)
    /\ TailsKept(f, ls, ops) /\ RewriteIsClean(f, ops)

HistoryOK ==
    /\ lines \in Seq(Lines)
    /\ accepted \in 0 .. MaxRecords /\ acked \subseteq Records /\ gone \subseteq Records
    /\ disturbed \subseteq {"latePush", "cutover"}

\* append_value and acquire hold a generation.
AdmissionOK(adm, ls) ==
    /\ adm \in [kind : {"none", "append", "acquire"}, gen : Nat]
    /\ adm.kind # "none" => adm.gen \in Gens(ls)

(***************************************************************************)
(* The third part is about the records ack that a flush has vouched for.   *)
(* Such a record is in the file, or pending in a generation that has       *)
(* failed, or pending for a rewrite that has replaced the file.  The last  *)
(* can be told only if those before its generation have settled, and if    *)
(* whoever writes its generation is writing it.                            *)
(***************************************************************************)
Rewrites(op) == op.kind = "rewrite" /\ op.pc \in {"drain", "writing"}
Kept(f, ls, ops, gn, r) ==
    \/ r \in gn \/ InFile(f, r)
    \/ \E g \in Gens(ls) : ls[g].failure = "yes" /\ InGen(ls, g, r)
    \/ \E o \in LogOps : Rewrites(ops[o]) /\ InGen(ls, ops[o].gen, r)
WrittenNext(ls, ops, r) ==
    \A g \in Gens(ls) : InGen(ls, g, r) =>
        /\ \A h \in Gens(ls) : h < g => ls[h].settled = "yes"
        /\ \A o \in LogOps : ops[o].pc = "writing" /\ ops[o].gen = g => InFile(ops[o].batch, r)
VouchedOK(f, ls, ops, acc, ack, gn) ==
    /\ ack \subseteq 1 .. acc
    /\ \A r \in ack : WrittenNext(ls, ops, r)
    /\ Whole(f) => \A r \in ack : Kept(f, ls, ops, gn, r)

VouchInv == "latePush" \notin disturbed => VouchedOK(lines, logs, logOps, accepted, acked, gone)

LogInv ==
    /\ StoreOK(logs, logOps) /\ HistoryOK /\ AdmissionOK(admission, logs)
    /\ "latePush" \notin disturbed =>
          DataOK(lines, logs, logOps, accepted, gone, "cutover" \in disturbed)

-----------------------------------------------------------------------------
(***************************************************************************)
(* Sequences.                                                              *)
(***************************************************************************)
\* The first n elements, and what is left without them.
LEMMA FrontAndRest ==
    ASSUME NEW S, NEW s \in Seq(S), NEW n \in 0 .. Len(s)
    PROVE  /\ SubSeq(s, 1, n) \in Seq(S) /\ Len(SubSeq(s, 1, n)) = n
           /\ \A i \in 1 .. n : SubSeq(s, 1, n)[i] = s[i]
           /\ SubSeq(s, n + 1, Len(s)) \in Seq(S) /\ Len(SubSeq(s, n + 1, Len(s))) = Len(s) - n
           /\ \A i \in 1 .. Len(s) - n : SubSeq(s, n + 1, Len(s))[i] = s[n + i]
  <1>1. n \in Int /\ n + 1 \in Int /\ Len(s) \in Int /\ Len(s) \in Nat
    OBVIOUS
  <1>2. \A i \in 1 .. Len(s) : s[i] \in S
    OBVIOUS
  <1>3. (\A i \in 1 .. n : s[i] \in S) /\ \A i \in n + 1 .. Len(s) : s[i] \in S
    BY <1>1, <1>2
  <1>4. PICK m \in Int, l \in Int : m = n + 1 /\ l = Len(s)
    BY <1>1
  <1>5. /\ SubSeq(s, 1, n) \in Seq(S)
        /\ Len(SubSeq(s, 1, n)) = IF 1 <= n THEN n - 1 + 1 ELSE 0
        /\ \A i \in 1 .. n - 1 + 1 : SubSeq(s, 1, n)[i] = s[1 + i - 1]
    BY <1>1, <1>3, SubSeqProperties
  <1>6. /\ SubSeq(s, m, l) \in Seq(S)
        /\ Len(SubSeq(s, m, l)) = IF m <= l THEN l - m + 1 ELSE 0
        /\ \A i \in 1 .. l - m + 1 : SubSeq(s, m, l)[i] = s[m + i - 1]
    BY <1>3, <1>4, SubSeqProperties
  <1>7. \A i \in 1 .. n : SubSeq(s, 1, n)[i] = s[i]
    BY <1>1, <1>5
  <1>8. \A i \in 1 .. Len(s) - n : SubSeq(s, m, l)[i] = s[n + i]
    <2>1. \A i \in Int : m + i - 1 = n + i
      BY <1>1, <1>4
    <2>2. l - m + 1 = Len(s) - n
      BY <1>1, <1>4
    <2> QED BY <2>1, <2>2, <1>6
  <1>9. Len(SubSeq(s, 1, n)) = n /\ Len(SubSeq(s, m, l)) = Len(s) - n
    BY <1>1, <1>4, <1>5, <1>6
  <1> QED BY <1>4, <1>5, <1>6, <1>7, <1>8, <1>9, Zenon

\* The queue without its head.
LEMMA TailOf ==
    ASSUME NEW S, NEW s \in Seq(S), s # <<>>
    PROVE  /\ Len(s) \in Nat \ {0} /\ Head(s) = s[1]
           /\ Tail(s) \in Seq(S) /\ Len(Tail(s)) = Len(s) - 1
           /\ \A i \in 1 .. Len(s) - 1 : Tail(s)[i] = s[i + 1]
  <1>1. Len(s) \in Nat \ {0} /\ Head(s) = s[1]
    OBVIOUS
  <1>2. Tail(s) \in Seq(S) /\ Len(Tail(s)) = Len(s) - 1 /\ \A i \in 1 .. Len(Tail(s)) : Tail(s)[i] = s[i + 1]
    BY HeadTailProperties, Zenon
  <1> QED BY <1>1, <1>2

-----------------------------------------------------------------------------
(***************************************************************************)
(* What an append does to the file.                                        *)
(***************************************************************************)
LEMMA LineKinds ==
    /\ \A x \in Lines : x \in Int
    /\ \A r \in Records : r \in Nat /\ r > 0 /\ r # Torn /\ r # Bad /\ r # Base
    /\ ~(Torn > 0) /\ ~(Bad > 0) /\ ~(Base > 0) /\ Torn # Bad /\ Base \in Lines /\ Base # Torn /\ Base # Bad
  BY LogAssumption DEF Lines, Records, Base, Torn, Bad

\* w is f with b written behind it, where the first line of b may have been
\* glued to a torn one.
Spliced(f, b, w, k) ==
    /\ k \in 0 .. Len(f) /\ Len(w) = k + Len(b)
    /\ \A i \in 1 .. k : w[i] = f[i]
    /\ \A i \in 1 .. Len(f) : i > k => f[i] = Torn
    /\ \A i \in 1 .. Len(b) : w[k + i] = b[i] \/ w[k + i] = Bad
    /\ k = Len(f) => \A i \in 1 .. Len(b) : w[k + i] = b[i]

\* What append_lines leaves is the file with the batch spliced to it.
LEMMA WrittenIsSpliced ==
    ASSUME NEW f \in Seq(Lines), NEW b \in Seq(Lines)
    PROVE  Written(f, b) \in Seq(Lines) /\ \E k \in Nat : Spliced(f, b, Written(f, b), k)
  <1>1. CASE f # <<>> /\ Last(f) = Torn /\ b # <<>>
    <2>1. /\ Len(f) \in Nat \ {0} /\ f[Len(f)] = Torn /\ Len(b) \in Nat \ {0} /\ Head(b) = b[1]
          /\ b[1] \in Lines
      BY <1>1 DEF Last
    <2>2. PICK k \in Nat : k = Len(f) - 1 /\ k \in 0 .. Len(f)
      <3>1. Len(f) - 1 \in Nat /\ Len(f) - 1 \in 0 .. Len(f)
        BY <2>1
      <3> QED BY <3>1
    <2>3. PICK x : x = IF Head(b) = Torn THEN Torn ELSE Bad
      OBVIOUS
    <2>4. x \in Lines /\ (x = b[1] \/ x = Bad)
      BY <2>1, <2>3 DEF Lines
    <2>5. PICK p : p = SubSeq(f, 1, k)
      OBVIOUS
    <2>6. p \in Seq(Lines) /\ Len(p) = k /\ \A i \in 1 .. k : p[i] = f[i]
      BY <2>2, <2>5, FrontAndRest
    <2>7. PICK t : t = Tail(b)
      OBVIOUS
    <2>8. t \in Seq(Lines) /\ Len(t) = Len(b) - 1 /\ \A i \in 1 .. Len(b) - 1 : t[i] = b[i + 1]
      BY <1>1, <2>7, TailOf
    <2>9. PICK y : y = p \o <<x>>
      OBVIOUS
    <2>10. y \in Seq(Lines) /\ Len(y) = k + 1 /\ (\A i \in 1 .. k : y[i] = f[i]) /\ y[k + 1] = x
      <3>1. y \in Seq(Lines) /\ Len(y) = k + 1
        BY <2>2, <2>4, <2>6, <2>9
      <3>2. \A i \in 1 .. k : y[i] = p[i]
        BY <2>2, <2>4, <2>6, <2>9
      <3>3. y[k + 1] = x
        BY <2>2, <2>4, <2>6, <2>9
      <3> QED BY <3>1, <3>2, <3>3, <2>6
    <2>11. PICK w : w = y \o t
      OBVIOUS
    <2>12. Written(f, b) = w
      BY <1>1, <2>2, <2>3, <2>5, <2>7, <2>9, <2>11 DEF Written, Front
    <2>13. w \in Seq(Lines) /\ Len(w) = k + Len(b)
      <3>1. w \in Seq(Lines) /\ Len(w) = Len(y) + Len(t)
        BY <2>8, <2>10, <2>11, ConcatProperties
      <3> QED BY <3>1, <2>1, <2>2, <2>8, <2>10
    <2>14. (\A i \in 1 .. k + 1 : w[i] = y[i]) /\ \A i \in 1 .. Len(b) - 1 : w[k + 1 + i] = t[i]
      <3>1. \A i \in 1 .. k + 1 : w[i] = y[i]
        BY <2>1, <2>2, <2>8, <2>10, <2>11
      <3>2. \A i \in 1 .. Len(b) - 1 : w[k + 1 + i] = t[i]
        BY <2>1, <2>2, <2>8, <2>10, <2>11
      <3> QED BY <3>1, <3>2
    <2>15. ASSUME NEW i \in 1 .. Len(b) PROVE w[k + i] = b[i] \/ w[k + i] = Bad
      <3>1. CASE i = 1
        BY <3>1, <2>2, <2>4, <2>10, <2>14
      <3>2. CASE i # 1
        <4>1. PICK j \in 1 .. Len(b) - 1 : i = j + 1
          BY <3>2, <2>1
        <4>2. w[k + 1 + j] = b[j + 1]
          BY <4>1, <2>8, <2>14
        <4>3. k + 1 + j = k + i
          BY <4>1, <2>2
        <4> QED BY <4>1, <4>2, <4>3
      <3> QED BY <3>1, <3>2
    <2>16. (\A i \in 1 .. k : w[i] = f[i]) /\ (\A i \in 1 .. Len(f) : i > k => f[i] = Torn) /\ k # Len(f)
      BY <2>1, <2>2, <2>10, <2>14
    <2>17. Spliced(f, b, w, k)
      BY <2>2, <2>13, <2>15, <2>16 DEF Spliced
    <2> QED BY <2>12, <2>13, <2>17
  <1>2. CASE ~(f # <<>> /\ Last(f) = Torn /\ b # <<>>)
    <2>1. Written(f, b) = f \o b
      BY <1>2 DEF Written
    <2>2. Spliced(f, b, f \o b, Len(f))
      BY DEF Spliced
    <2> QED BY <2>1, <2>2
  <1> QED BY <1>1, <1>2

\* Whatever part of a batch was written, nothing that was in the file is lost,
\* and what is new comes from the batch, in its order.
Grown(f, w, b) ==
    /\ w \in Seq(Lines)
    /\ \A r \in Records : InFile(f, r) => InFile(w, r)
    /\ Whole(w) => Whole(f)
    /\ \A i \in 1 .. Len(w) : w[i] > 0 => InFile(f, w[i]) \/ InFile(b, w[i])
    /\ (Rising(f) /\ Rising(b) /\ \A i \in 1 .. Len(f), j \in 1 .. Len(b) : f[i] < b[j]) => Rising(w)

\* A splice of what reached the disk of a batch, whole or cut short, adds lines
\* of the batch only, and keeps the order of the file.
LEMMA SplicedGrows ==
    ASSUME NEW f \in Seq(Lines), NEW b \in Seq(Records), NEW d \in Seq(Lines), NEW w \in Seq(Lines), NEW k \in Nat,
           Spliced(f, d, w, k), Len(d) <= Len(b), \A i \in 1 .. Len(d) : d[i] = b[i] \/ d[i] = Torn
    PROVE  Grown(f, w, b)
  <1>1. /\ Len(f) \in Nat /\ Len(b) \in Nat /\ Len(d) \in Nat /\ k <= Len(f) /\ Len(w) = k + Len(d)
        /\ \A i \in 1 .. k : w[i] = f[i]
        /\ \A i \in 1 .. Len(f) : i > k => f[i] = Torn
    BY DEF Spliced
  <1>2. \A i \in 1 .. Len(d) : w[k + i] = b[i] \/ w[k + i] = Torn \/ w[k + i] = Bad
    BY DEF Spliced
  <1>3. /\ \A i \in 1 .. Len(f) : f[i] \in Int
        /\ \A i \in 1 .. Len(b) : b[i] \in Records
        /\ \A r \in Records : r \in Nat /\ r > 0 /\ r # Torn /\ r # Bad
        /\ ~(Torn > 0) /\ ~(Bad > 0) /\ Torn # Bad
    BY LineKinds
  <1>4. \A i \in 1 .. Len(w) : i \in 1 .. k \/ \E j \in 1 .. Len(d) : i = k + j
    <2> SUFFICES ASSUME NEW i \in 1 .. Len(w), i \notin 1 .. k PROVE \E j \in 1 .. Len(d) : i = k + j
      OBVIOUS
    <2>1. i - k \in 1 .. Len(d) /\ i = k + (i - k)
      BY <1>1
    <2> QED BY <2>1
  <1>5. \A r \in Records : InFile(f, r) => InFile(w, r)
    BY <1>1, <1>3 DEF InFile
  <1>6. Whole(w) => Whole(f)
    BY <1>1, <1>3 DEF Whole
  <1>7. \A i \in 1 .. Len(w) : w[i] > 0 => \/ i \in 1 .. k /\ w[i] = f[i]
                                           \/ \E j \in 1 .. Len(d) : i = k + j /\ w[i] = b[j]
    <2> SUFFICES ASSUME NEW i \in 1 .. Len(w), w[i] > 0, i \notin 1 .. k
                 PROVE  \E j \in 1 .. Len(d) : i = k + j /\ w[i] = b[j]
      BY <1>1
    <2>1. PICK j \in 1 .. Len(d) : i = k + j
      BY <1>4
    <2>2. w[i] = b[j] \/ w[i] = Torn \/ w[i] = Bad
      BY <2>1, <1>2
    <2> QED BY <2>1, <2>2, <1>3
  <1>8. \A i \in 1 .. Len(w) : w[i] > 0 => InFile(f, w[i]) \/ InFile(b, w[i])
    <2> SUFFICES ASSUME NEW i \in 1 .. Len(w), w[i] > 0 PROVE InFile(f, w[i]) \/ InFile(b, w[i])
      OBVIOUS
    <2>1. \/ i \in 1 .. k /\ w[i] = f[i]
          \/ \E j \in 1 .. Len(d) : w[i] = b[j]
      BY <1>7
    <2>2. 1 .. k \subseteq 1 .. Len(f) /\ 1 .. Len(d) \subseteq 1 .. Len(b)
      BY <1>1
    <2> QED BY <2>1, <2>2 DEF InFile
  <1>9. ASSUME Rising(f), Rising(b), \A i \in 1 .. Len(f), j \in 1 .. Len(b) : f[i] < b[j]
        PROVE  Rising(w)
    <2> SUFFICES ASSUME NEW i \in 1 .. Len(w), NEW j \in 1 .. Len(w), i < j, w[i] > 0, w[j] > 0
                 PROVE  w[i] < w[j]
      BY DEF Rising
    <2>1. CASE j \in 1 .. k
      <3>1. i \in 1 .. k /\ i \in 1 .. Len(f) /\ j \in 1 .. Len(f) /\ w[i] = f[i] /\ w[j] = f[j]
        BY <2>1, <1>1
      <3> QED BY <3>1, <1>9 DEF Rising
    <2>2. CASE j \notin 1 .. k
      <3>1. PICK y \in 1 .. Len(d) : j = k + y /\ w[j] = b[y]
        BY <2>2, <1>7
      <3>2. CASE i \in 1 .. k
        BY <3>1, <3>2, <1>1, <1>9
      <3>3. CASE i \notin 1 .. k
        <4>1. PICK x \in 1 .. Len(d) : i = k + x /\ w[i] = b[x]
          BY <3>3, <1>7
        <4>2. x < y /\ x \in 1 .. Len(b) /\ y \in 1 .. Len(b)
          BY <4>1, <3>1, <1>1
        <4>3. b[x] > 0 /\ b[y] > 0
          BY <4>2, <1>3
        <4> QED BY <3>1, <4>1, <4>2, <4>3, <1>9 DEF Rising
      <3> QED BY <3>2, <3>3
    <2> QED BY <2>1, <2>2
  <1> QED BY <1>5, <1>6, <1>8, <1>9 DEF Grown

\* The append that succeeded.
LEMMA WrittenGrows ==
    ASSUME NEW f \in Seq(Lines), NEW b \in Seq(Records)
    PROVE  /\ Grown(f, Written(f, b), b)
           /\ Whole(Written(f, b)) => \A i \in 1 .. Len(b) : InFile(Written(f, b), b[i])
           /\ Clean(f) => Clean(Written(f, b)) /\ \A i \in 1 .. Len(b) : InFile(Written(f, b), b[i])
  <1>1. b \in Seq(Lines)
    BY DEF Lines
  <1>2. PICK w : w = Written(f, b)
    OBVIOUS
  <1>3. PICK k \in Nat : w \in Seq(Lines) /\ Spliced(f, b, w, k)
    BY <1>1, <1>2, WrittenIsSpliced
  <1>4. Grown(f, w, b)
    BY <1>1, <1>3, SplicedGrows
  <1>5. \A i \in 1 .. Len(b) : k + i \in 1 .. Len(w) /\ (w[k + i] = b[i] \/ w[k + i] = Bad)
    BY <1>3 DEF Spliced
  <1>6. Whole(w) => \A i \in 1 .. Len(b) : InFile(w, b[i])
    BY <1>5 DEF Whole, InFile
  <1>7. ASSUME Clean(f) PROVE Clean(w) /\ Whole(w)
    <2>1. k = Len(f)
      BY <1>3, <1>7 DEF Spliced, Clean
    <2>2. /\ Len(w) = Len(f) + Len(b) /\ \A i \in 1 .. Len(f) : w[i] = f[i]
          /\ \A i \in 1 .. Len(b) : w[Len(f) + i] = b[i]
      BY <2>1, <1>3 DEF Spliced
    <2>3. \A i \in 1 .. Len(b) : b[i] # Bad /\ b[i] # Torn
      BY LineKinds
    <2>4. \A i \in 1 .. Len(w) : i \in 1 .. Len(f) \/ (i - Len(f) \in 1 .. Len(b) /\ i = Len(f) + (i - Len(f)))
      BY <2>2
    <2>5. Clean(w)
      BY <2>2, <2>3, <2>4, <1>7 DEF Clean
    <2> QED BY <2>5 DEF Clean, Whole
  <1> QED BY <1>2, <1>4, <1>6, <1>7

\* The append that failed, or was cut off by a crash.
LEMMA CutShortGrows ==
    ASSUME NEW f \in Seq(Lines), NEW b \in Seq(Records), NEW w \in CutShort(f, b)
    PROVE  Grown(f, w, b)
  <1> DEFINE prefixes == {SubSeq(b, 1, n) : n \in 0 .. Len(b)}
  <1>1. \/ \E p \in prefixes : w = Written(f, p)
        \/ \E p \in prefixes \ {b} : w = Written(f, Append(p, Torn))
    BY DEF CutShort
  <1>2. \A p \in prefixes : \E n \in 0 .. Len(b) : p = SubSeq(b, 1, n)
    OBVIOUS
  <1>3. Torn \in Lines /\ b \in Seq(Lines) /\ Len(b) \in Nat
    BY DEF Lines
  <1> HIDE DEF prefixes
  <1>4. ASSUME NEW p \in prefixes
        PROVE  /\ p \in Seq(Lines) /\ Len(p) \in 0 .. Len(b) /\ (\A i \in 1 .. Len(p) : p[i] = b[i])
               /\ p # b => Len(p) < Len(b)
    <2>1. PICK n \in 0 .. Len(b) : p = SubSeq(b, 1, n)
      BY <1>2
    <2>2. p \in Seq(Lines) /\ Len(p) = n /\ \A i \in 1 .. n : p[i] = b[i]
      BY <2>1, <1>3, FrontAndRest
    <2>3. n = Len(b) => p = b
      BY <2>2, <1>3
    <2> QED BY <2>2, <2>3
  <1>5. ASSUME NEW p \in prefixes, w = Written(f, p) PROVE Grown(f, w, b)
    <2>1. PICK k \in Nat : w \in Seq(Lines) /\ Spliced(f, p, w, k)
      BY <1>4, <1>5, WrittenIsSpliced
    <2> QED BY <2>1, <1>4, SplicedGrows
  <1>6. ASSUME NEW p \in prefixes, p # b, w = Written(f, Append(p, Torn)) PROVE Grown(f, w, b)
    <2>1. PICK d : d = Append(p, Torn)
      OBVIOUS
    <2>2. p \in Seq(Lines) /\ Len(p) \in Nat /\ Len(p) < Len(b) /\ \A i \in 1 .. Len(p) : p[i] = b[i]
      BY <1>4, <1>6
    <2>3. d \in Seq(Lines) /\ Len(d) = Len(p) + 1 /\ (\A i \in 1 .. Len(p) : d[i] = p[i]) /\ d[Len(p) + 1] = Torn
      BY <2>1, <2>2, <1>3
    <2>4. Len(d) <= Len(b) /\ \A i \in 1 .. Len(d) : d[i] = b[i] \/ d[i] = Torn
      BY <2>2, <2>3, <1>3
    <2>5. PICK k \in Nat : w \in Seq(Lines) /\ Spliced(f, d, w, k)
      BY <2>1, <2>3, <1>6, WrittenIsSpliced
    <2> QED BY <2>3, <2>4, <2>5, SplicedGrows
  <1> QED BY <1>1, <1>5, <1>6

-----------------------------------------------------------------------------
(***************************************************************************)
(* The store.  Every action changes one generation and one task or call,   *)
(* in one of five ways.                                                    *)
(***************************************************************************)
OneLog(ls, ms, g) == ms \in Seq(LogType) /\ Len(ms) = Len(ls) /\ \A h \in Gens(ls) : h # g => ms[h] = ls[h]
OneOp(ops, ps, o) == ps \in [LogOps -> OpType] /\ \A p \in LogOps : p # o => ps[p] = ops[p]

\* What the types say of a store.
LEMMA StoreTypes ==
    ASSUME NEW ls, NEW ops, StoreOK(ls, ops)
    PROVE  /\ ls \in Seq(LogType) /\ Len(ls) \in Nat
           /\ \A g \in Gens(ls) : /\ ls[g] \in LogType /\ g \in Nat /\ g >= 1 /\ g <= Len(ls)
                                  /\ ls[g].lockq \in Seq(LogOps) /\ Len(ls[g].lockq) \in Nat
                                  /\ ls[g].pending \in Seq(Records) /\ Len(ls[g].pending) \in Nat
                                  /\ ls[g].epoch \in Nat
                                  /\ \A i \in Places(ls, g) : ls[g].lockq[i] \in LogOps
                                  /\ \A i \in Batched(ls, g) : ls[g].pending[i] \in Records
           /\ \A o \in LogOps : /\ ops[o] \in OpType /\ ops[o].batch \in Seq(Records) /\ Len(ops[o].batch) \in Nat
                                /\ ops[o].gen \in Nat /\ ops[o].epoch \in Nat
  <1>1. ls \in Seq(LogType) /\ ops \in [LogOps -> OpType]
    BY DEF StoreOK
  <1>2. Len(ls) \in Nat /\ \A g \in Gens(ls) : ls[g] \in LogType /\ g \in Nat /\ g >= 1 /\ g <= Len(ls)
    BY <1>1 DEF Gens
  <1>3. \A l \in LogType : /\ l.lockq \in Seq(LogOps) /\ l.pending \in Seq(Records) /\ l.epoch \in Nat
    BY DEF LogType
  <1>4. \A op \in OpType : op.batch \in Seq(Records) /\ op.gen \in Nat /\ op.epoch \in Nat
    BY DEF OpType
  <1> QED BY <1>1, <1>2, <1>3, <1>4 DEF Places, Batched

\* Whoever is at work on a generation is first in its queue.
LEMMA HeadIsUnique ==
    ASSUME NEW ls, NEW ops, StoreOK(ls, ops), NEW o \in LogOps, ops[o].pc \in Active
    PROVE  /\ ops[o].gen \in Gens(ls) /\ Len(ls[ops[o].gen].lockq) >= 1 /\ ls[ops[o].gen].lockq[1] = o
           /\ \A p \in LogOps : ops[p].pc \in Active /\ ops[p].gen = ops[o].gen => p = o
  <1>1. \A p \in LogOps : ops[p].pc \in Active => ops[p].gen \in Gens(ls)
    BY DEF StoreOK, OpsOK, OpOK, Active
  <1>2. \A p \in LogOps : ops[p].pc \in Active =>
            Len(ls[ops[p].gen].lockq) >= 1 /\ ls[ops[p].gen].lockq[1] = p
    <2> SUFFICES ASSUME NEW p \in LogOps, ops[p].pc \in Active
                 PROVE  Len(ls[ops[p].gen].lockq) >= 1 /\ ls[ops[p].gen].lockq[1] = p
      OBVIOUS
    <2>1. PICK i \in Places(ls, ops[p].gen) : ls[ops[p].gen].lockq[i] = p
      BY DEF StoreOK, Queues, Active, Queued
    <2>2. i = 1
      BY <2>1, <1>1 DEF StoreOK, Queues
    <2> QED BY <2>1, <2>2, <1>1, StoreTypes DEF Places
  <1> QED BY <1>1, <1>2

\* A task or call joins the queue for the mutex.
LEMMA JoinStep ==
    ASSUME NEW ls, NEW ops, NEW ms, NEW ps, StoreOK(ls, ops), NEW o \in LogOps, NEW g \in Gens(ls),
           OneLog(ls, ms, g), OneOp(ops, ps, o),
           ops[o].pc \in {"idle", "spawned"}, ops[o].pc = "spawned" => ops[o].gen = g,
           ms[g].lockq = Append(ls[g].lockq, o),
           ms[g].pending = ls[g].pending, ms[g].failure = ls[g].failure, ms[g].settled = ls[g].settled,
           ls[g].retired = "yes" => ms[g].retired = "yes",
           ms[g].epoch >= ls[g].epoch, ms[g].epoch # ls[g].epoch => ps[o].kind = "rewrite",
           ms[g].scheduled = "no" \/ (ms[g].scheduled = ls[g].scheduled /\ ops[o].kind # "flush"),
           ps[o].pc = "lock", ps[o].gen = g, ps[o].kind # "none", ps[o].batch = <<>>,
           ps[o].next = "yes" => ps[o].kind = "rewrite",
           ps[o].kind \in {"release", "rewrite"} =>
              ls[g].settled = "no" /\ \A i \in Places(ls, g) : ops[ls[g].lockq[i]].kind # "release",
           ps[o].kind = "release" => ms[g].retired = "yes"
    PROVE  StoreOK(ms, ps)
  <1>1. Len(ls) \in Nat /\ Gens(ms) = Gens(ls) /\ ms \in Seq(LogType) /\ ps \in [LogOps -> OpType]
    BY StoreTypes DEF OneLog, OneOp, Gens
  <1>2. (\A h \in Gens(ls) : h # g => ms[h] = ls[h]) /\ \A p \in LogOps : p # o => ps[p] = ops[p]
    BY DEF OneLog, OneOp
  <1>3. \A h \in Gens(ls) : \A i \in Places(ls, h) : ls[h].lockq[i] # o
    BY DEF StoreOK, Queues, Queued
  <1>4. PICK n \in Nat : n = Len(ls[g].lockq)
    BY StoreTypes
  <1>5. /\ Places(ls, g) = 1 .. n /\ Places(ms, g) = 1 .. n + 1 /\ ms[g].lockq[n + 1] = o
        /\ \A i \in 1 .. n : ms[g].lockq[i] = ls[g].lockq[i] /\ ls[g].lockq[i] # o /\ ls[g].lockq[i] \in LogOps
    BY <1>3, <1>4, StoreTypes DEF Places
  <1>6. \A h \in Gens(ls) : h # g => Places(ms, h) = Places(ls, h)
    BY <1>2 DEF Places
  <1>7. \A h \in Gens(ls) : \A i \in Places(ls, h) : ls[h].lockq[i] \in LogOps /\ ps[ls[h].lockq[i]] = ops[ls[h].lockq[i]]
    BY <1>2, <1>3, StoreTypes
  <1>8. \A i \in Places(ms, g) : i \in 1 .. n \/ i = n + 1
    BY <1>5
  <1>9. n + 1 \in Places(ms, g) /\ \A i \in 1 .. n : i \in Places(ls, g) /\ ms[g].lockq[i] = ls[g].lockq[i]
                                                  /\ ps[ms[g].lockq[i]] = ops[ls[g].lockq[i]]
    <2>1. n + 1 \in 1 .. n + 1
      OBVIOUS
    <2>2. n + 1 \in Places(ms, g)
      BY <2>1, <1>5
    <2>3. ASSUME NEW i \in 1 .. n
          PROVE  /\ i \in Places(ls, g) /\ ms[g].lockq[i] = ls[g].lockq[i]
                 /\ ps[ms[g].lockq[i]] = ops[ls[g].lockq[i]]
      <3>1. i \in Places(ls, g) /\ ms[g].lockq[i] = ls[g].lockq[i]
        BY <1>5
      <3>2. ps[ls[g].lockq[i]] = ops[ls[g].lockq[i]]
        BY <3>1, <1>7
      <3> QED BY <3>1, <3>2
    <2> QED BY <2>2, <2>3
  <1>a. OpsOK(ms, ps)
    BY <1>1, <1>2 DEF StoreOK, OpsOK, OpOK
  <1>b. Queues(ms, ps)
    <2>1. ASSUME NEW h \in Gens(ls), NEW i \in Places(ms, h), NEW j \in Places(ms, h), ms[h].lockq[i] = ms[h].lockq[j]
          PROVE  i = j
      <3>1. CASE h # g
        BY <3>1, <2>1, <1>2, <1>6 DEF StoreOK, Queues
      <3>2. CASE h = g
        <4>1. (i \in 1 .. n \/ i = n + 1) /\ (j \in 1 .. n \/ j = n + 1)
          BY <3>2, <1>8
        <4>2. CASE i \in 1 .. n /\ j \in 1 .. n
          <5>1. i \in Places(ls, g) /\ j \in Places(ls, g) /\ ls[g].lockq[i] = ls[g].lockq[j]
            BY <4>2, <3>2, <2>1, <1>9
          <5> QED BY <5>1 DEF StoreOK, Queues
        <4>3. CASE i \in 1 .. n /\ j = n + 1
          <5>1. ms[g].lockq[i] # o /\ ms[g].lockq[j] = o
            BY <4>3, <1>5
          <5> QED BY <5>1, <3>2, <2>1
        <4>4. CASE j \in 1 .. n /\ i = n + 1
          <5>1. ms[g].lockq[j] # o /\ ms[g].lockq[i] = o
            BY <4>4, <1>5
          <5> QED BY <5>1, <3>2, <2>1
        <4> QED BY <4>1, <4>2, <4>3, <4>4
      <3> QED BY <3>1, <3>2
    <2>2. ASSUME NEW h \in Gens(ls), NEW i \in Places(ms, h)
          PROVE  LET op == ps[ms[h].lockq[i]] IN op.gen = h /\ op.pc \in Queued /\ (op.pc \in Active => i = 1)
      <3>1. CASE h # g
        BY <3>1, <1>2, <1>6, <1>7 DEF StoreOK, Queues
      <3>2. CASE h = g /\ i \in 1 .. n
        <4>1. i \in Places(ls, g) /\ ps[ms[h].lockq[i]] = ops[ls[g].lockq[i]]
          BY <3>2, <1>9
        <4>2. LET op == ops[ls[g].lockq[i]] IN op.gen = g /\ op.pc \in Queued /\ (op.pc \in Active => i = 1)
          BY <4>1 DEF StoreOK, Queues
        <4> QED BY <3>2, <4>1, <4>2
      <3>3. CASE h = g /\ i = n + 1
        BY <3>3, <1>5 DEF Queued, Active
      <3> QED BY <3>1, <3>2, <3>3, <1>8
    <2>3. ASSUME NEW p \in LogOps, ps[p].pc \in Queued
          PROVE  \E i \in Places(ms, ps[p].gen) : ms[ps[p].gen].lockq[i] = p
      <3>1. CASE p = o
        BY <3>1, <1>5, <1>9
      <3>2. CASE p # o
        <4>1. ps[p] = ops[p] /\ ops[p].gen \in Gens(ls)
          BY <3>2, <2>3, <1>2 DEF StoreOK, OpsOK, OpOK, Queued
        <4>2. PICK i \in Places(ls, ops[p].gen) : ls[ops[p].gen].lockq[i] = p
          BY <4>1, <2>3 DEF StoreOK, Queues
        <4>3. CASE ops[p].gen # g
          BY <4>1, <4>2, <4>3, <1>2, <1>6
        <4>4. CASE ops[p].gen = g
          <5>1. i \in 1 .. n /\ ls[g].lockq[i] = p
            BY <4>2, <4>4, <1>5
          <5>2. i \in 1 .. n + 1 /\ ms[g].lockq[i] = p
            BY <5>1, <1>5
          <5>3. i \in Places(ms, g)
            BY <5>2, <1>5
          <5> QED BY <5>2, <5>3, <4>1, <4>4
        <4> QED BY <4>3, <4>4
      <3> QED BY <3>1, <3>2
    <2> QED BY <1>1, <2>1, <2>2, <2>3 DEF Queues
  <1>c. Writes(ms, ps)
    <2> SUFFICES ASSUME NEW p \in LogOps, ps[p].pc = "writing"
                 PROVE  WriteOK(ms, ps, p)
      BY DEF Writes
    <2>1. p # o /\ ps[p] = ops[p] /\ ops[p].gen \in Gens(ls)
      BY <1>2 DEF StoreOK, OpsOK, OpOK
    <2>2. WriteOK(ls, ops, p)
      BY <2>1 DEF StoreOK, Writes
    <2>3. ASSUME NEW x \in LogOps, ops[x].kind = "rewrite", ops[x].gen = ops[p].gen, ops[x].pc = "lock"
          PROVE  ps[x].kind = "rewrite" /\ ps[x].gen = ps[p].gen /\ ps[x].pc = "lock"
      BY <2>1, <2>3, <1>2
    <2>4. CASE ops[p].gen # g
      BY <2>1, <2>2, <2>3, <2>4, <1>2 DEF WriteOK
    <2>5. CASE ops[p].gen = g
      <3>1. ops[p].epoch \in Nat /\ ls[g].epoch \in Nat /\ ms[g].epoch \in Nat
        <4>1. ops[p].epoch \in Nat /\ ls[g].epoch \in Nat
          BY StoreTypes
        <4>2. ms[g] \in LogType
          BY <1>1 DEF Gens
        <4> QED BY <4>1, <4>2 DEF LogType
      <3>2. ops[p].epoch <= ms[g].epoch
        BY <2>2, <2>5, <3>1 DEF WriteOK
      <3>3. CASE ms[g].epoch = ls[g].epoch
        BY <2>1, <2>2, <2>3, <2>5, <3>2, <3>3 DEF WriteOK
      <3>4. CASE ms[g].epoch # ls[g].epoch
        BY <2>1, <2>2, <2>5, <3>2, <3>4 DEF WriteOK
      <3> QED BY <3>3, <3>4
    <2> QED BY <2>4, <2>5
  <1>d. Flushes(ms, ps)
    <2> SUFFICES ASSUME NEW h \in Gens(ls)
                 PROVE  /\ ms[h].scheduled = "yes" =>
                              \E p \in LogOps : ps[p].gen = h /\ ps[p].pc = "spawned" /\ ps[p].kind = "flush"
                        /\ ms[h].pending # <<>> /\ ms[h].failure = "no" /\ ms[h].scheduled = "no" =>
                              \E p \in LogOps : ps[p].gen = h /\ ps[p].pc \in Queued
      BY <1>1 DEF Flushes
    <2>1. ASSUME ms[h].scheduled = "yes"
          PROVE  \E p \in LogOps : ps[p].gen = h /\ ps[p].pc = "spawned" /\ ps[p].kind = "flush"
      <3>1. ls[h].scheduled = "yes" /\ (h = g => ops[o].kind # "flush")
        BY <2>1, <1>2
      <3>2. PICK p \in LogOps : ops[p].gen = h /\ ops[p].pc = "spawned" /\ ops[p].kind = "flush"
        BY <3>1 DEF StoreOK, Flushes
      <3>3. p # o
        BY <3>1, <3>2
      <3> QED BY <3>2, <3>3, <1>2
    <2>2. ASSUME ms[h].pending # <<>>, ms[h].failure = "no", ms[h].scheduled = "no"
          PROVE  \E p \in LogOps : ps[p].gen = h /\ ps[p].pc \in Queued
      <3>1. CASE h = g
        BY <3>1 DEF Queued
      <3>2. CASE h # g
        <4>1. PICK p \in LogOps : ops[p].gen = h /\ ops[p].pc \in Queued
          BY <2>2, <3>2, <1>2 DEF StoreOK, Flushes
        <4>2. p # o
          BY <4>1 DEF Queued
        <4> QED BY <4>1, <4>2, <1>2
      <3> QED BY <3>1, <3>2
    <2> QED BY <2>1, <2>2
  <1>e. Releases(ms, ps)
    <2>1. \A h \in Gens(ls) : ms[h].settled = ls[h].settled /\ (ls[h].retired = "yes" => ms[h].retired = "yes")
      BY <1>2
    <2>2. ASSUME NEW h \in Gens(ls), ms[h].settled = "yes", NEW i \in Places(ms, h)
          PROVE  ps[ms[h].lockq[i]].kind \notin {"release", "rewrite"}
      <3>1. CASE h # g
        BY <3>1, <2>1, <2>2, <1>2, <1>6, <1>7 DEF StoreOK, Releases
      <3>2. CASE h = g /\ i \in 1 .. n
        <4>1. i \in Places(ls, g) /\ ps[ms[h].lockq[i]] = ops[ls[g].lockq[i]] /\ ls[g].settled = "yes"
          BY <3>2, <2>1, <2>2, <1>9
        <4> QED BY <4>1 DEF StoreOK, Releases
      <3>3. CASE h = g /\ i = n + 1
        BY <3>3, <2>1, <2>2, <1>5
      <3> QED BY <3>1, <3>2, <3>3, <1>8
    <2>3. ASSUME NEW h \in Gens(ls), NEW i \in Places(ms, h), ps[ms[h].lockq[i]].kind = "release"
          PROVE  /\ ms[h].retired = "yes"
                 /\ \A j \in Places(ms, h) : j > i => ps[ms[h].lockq[j]].kind \notin {"release", "rewrite"}
      <3>1. CASE h # g
        BY <3>1, <2>1, <2>3, <1>2, <1>6, <1>7 DEF StoreOK, Releases
      <3>2. CASE h = g /\ i \in 1 .. n
        <4>1. i \in Places(ls, g) /\ ops[ls[g].lockq[i]].kind = "release"
          BY <3>2, <2>3, <1>9
        <4>2. ls[g].retired = "yes" /\ \A j \in Places(ls, g) : j > i => ops[ls[g].lockq[j]].kind \notin {"release", "rewrite"}
          BY <4>1 DEF StoreOK, Releases
        <4>3. ps[o].kind \notin {"release", "rewrite"}
          BY <4>1
        <4>4. ASSUME NEW j \in Places(ms, g), j > i PROVE ps[ms[g].lockq[j]].kind \notin {"release", "rewrite"}
          <5>1. CASE j \in 1 .. n
            <6>1. j \in Places(ls, g) /\ ps[ms[g].lockq[j]] = ops[ls[g].lockq[j]]
              BY <5>1, <1>9
            <6> QED BY <6>1, <4>2, <4>4
          <5>2. CASE j = n + 1
            BY <5>2, <4>3, <1>5
          <5> QED BY <5>1, <5>2, <4>4, <1>8
        <4> QED BY <3>2, <4>2, <4>4, <2>1
      <3>3. CASE h = g /\ i = n + 1
        <4>1. ms[h].lockq[i] = o
          BY <3>3, <1>5
        <4>2. ps[o].kind = "release"
          BY <4>1, <2>3
        <4>3. ms[g].retired = "yes"
          BY <4>2
        <4>4. \A j \in Places(ms, g) : ~(j > n + 1)
          BY <1>5
        <4> QED BY <3>3, <4>3, <4>4
      <3> QED BY <3>1, <3>2, <3>3, <1>8
    <2>4. \A p \in LogOps : ps[p].pc \in Active => \A h \in Gens(ls) : h < ps[p].gen => ms[h].settled = "yes"
      BY <2>1, <1>2 DEF StoreOK, Releases, Active
    <2>5. \A h \in Gens(ls) : h < Len(ls) => ms[h].retired = "yes"
      BY <2>1 DEF StoreOK, Releases
    <2>6. \A h \in Gens(ls) : ms[h].settled = "yes" =>
              ms[h].retired = "yes" /\ \A k \in Gens(ls) : k < h => ms[k].settled = "yes"
      BY <2>1 DEF StoreOK, Releases
    <2> QED BY <1>1, <2>2, <2>3, <2>4, <2>5, <2>6 DEF Releases, OneLog
  <1> QED BY <1>1, <1>a, <1>b, <1>c, <1>d, <1>e DEF StoreOK

\* A task is spawned, or one ends that has not yet joined a queue; records may
\* be pushed.
LEMMA SlotStep ==
    ASSUME NEW ls, NEW ops, NEW ms, NEW ps, StoreOK(ls, ops), NEW o, NEW g \in Gens(ls),
           OneLog(ls, ms, g), OneOp(ops, ps, o),
           ms[g].lockq = ls[g].lockq, ms[g].failure = ls[g].failure, ms[g].settled = ls[g].settled,
           ms[g].retired = ls[g].retired, ms[g].epoch = ls[g].epoch,
           Len(ls[g].pending) <= Len(ms[g].pending),
           \A i \in Batched(ls, g) : ms[g].pending[i] = ls[g].pending[i],
           ms[g].scheduled = "yes" =>
              \E p \in LogOps : ps[p].gen = g /\ ps[p].pc = "spawned" /\ ps[p].kind = "flush",
           ms[g].scheduled = "no" => ls[g].scheduled = "no" /\ ms[g].pending = ls[g].pending,
           o \in LogOps => OpOK(ls, ps[o]),
           \/ ps[o] = ops[o]
           \/ ops[o].pc \in {"idle", "spawned"} /\ ops[o].kind # "flush" /\ ps[o].pc \in {"idle", "spawned"}
    PROVE  StoreOK(ms, ps)
  <1>1. Len(ls) \in Nat /\ Gens(ms) = Gens(ls) /\ ms \in Seq(LogType) /\ ps \in [LogOps -> OpType]
    BY StoreTypes DEF OneLog, OneOp, Gens
  <1>2. (\A h \in Gens(ls) : h # g => ms[h] = ls[h]) /\ \A p \in LogOps : p # o => ps[p] = ops[p]
    BY DEF OneLog, OneOp
  <1>3. \A h \in Gens(ls) : /\ ms[h].lockq = ls[h].lockq /\ ms[h].failure = ls[h].failure
                            /\ ms[h].settled = ls[h].settled /\ ms[h].retired = ls[h].retired
                            /\ ms[h].epoch = ls[h].epoch /\ Places(ms, h) = Places(ls, h)
    BY <1>2 DEF Places
  <1>4. \A p \in LogOps : ops[p].pc \in Queued \/ ps[p].pc \in Queued => ps[p] = ops[p]
    BY <1>2 DEF Queued
  <1>5. \A h \in Gens(ls) : \A i \in Places(ls, h) : ls[h].lockq[i] \in LogOps /\ ps[ls[h].lockq[i]] = ops[ls[h].lockq[i]]
    <2>1. \A h \in Gens(ls) : \A i \in Places(ls, h) : ops[ls[h].lockq[i]].pc \in Queued
      BY DEF StoreOK, Queues
    <2> QED BY <2>1, <1>4, StoreTypes
  <1>6. \A p \in LogOps : ps[p].pc \in Active => ps[p] = ops[p]
    BY <1>4 DEF Queued, Active
  <1>a. OpsOK(ms, ps)
    BY <1>1, <1>2 DEF StoreOK, OpsOK, OpOK
  <1>b. Queues(ms, ps)
    <2>1. \A h \in Gens(ms) : \A i, j \in Places(ms, h) : ms[h].lockq[i] = ms[h].lockq[j] => i = j
      BY <1>1, <1>3 DEF StoreOK, Queues
    <2>2. \A h \in Gens(ms) : \A i \in Places(ms, h) :
             LET op == ps[ms[h].lockq[i]] IN op.gen = h /\ op.pc \in Queued /\ (op.pc \in Active => i = 1)
      BY <1>1, <1>3, <1>5 DEF StoreOK, Queues
    <2>3. ASSUME NEW p \in LogOps, ps[p].pc \in Queued
          PROVE  \E i \in Places(ms, ps[p].gen) : ms[ps[p].gen].lockq[i] = p
      <3>1. ps[p] = ops[p] /\ ops[p].gen \in Gens(ls)
        BY <2>3, <1>4 DEF StoreOK, OpsOK, OpOK, Queued
      <3> QED BY <3>1, <2>3, <1>3 DEF StoreOK, Queues
    <2> QED BY <2>1, <2>2, <2>3 DEF Queues
  <1>c. Writes(ms, ps)
    <2> SUFFICES ASSUME NEW p \in LogOps, ps[p].pc = "writing"
                 PROVE  WriteOK(ms, ps, p)
      BY DEF Writes
    <2>1. ps[p] = ops[p] /\ ops[p].gen \in Gens(ls)
      BY <1>4 DEF StoreOK, OpsOK, OpOK, Queued
    <2>2. WriteOK(ls, ops, p)
      BY <2>1 DEF StoreOK, Writes
    <2>3. \A x \in LogOps : ops[x].pc = "lock" => ps[x] = ops[x]
      BY <1>4 DEF Queued
    <2>4. /\ Len(ls[ops[p].gen].pending) <= Len(ms[ops[p].gen].pending)
          /\ \A i \in Batched(ls, ops[p].gen) : ms[ops[p].gen].pending[i] = ls[ops[p].gen].pending[i]
      <3>1. Len(ls[ops[p].gen].pending) \in Nat
        BY <2>1, StoreTypes
      <3>2. CASE ops[p].gen = g
        BY <3>2
      <3>3. CASE ops[p].gen # g
        BY <3>1, <3>3, <2>1, <1>2
      <3> QED BY <3>2, <3>3
    <2>5. ms[ops[p].gen] \in LogType
      BY <2>1, <1>1 DEF Gens
    <2>6. /\ Len(ls[ops[p].gen].pending) \in Nat /\ Len(ms[ops[p].gen].pending) \in Nat
          /\ Len(ops[p].batch) \in Nat
      <3>1. ms[ops[p].gen].pending \in Seq(Records)
        BY <2>5 DEF LogType
      <3>2. Len(ms[ops[p].gen].pending) \in Nat
        BY <3>1
      <3> QED BY <3>2, <2>1, StoreTypes
    <2>7. \A i \in 1 .. Len(ops[p].batch) : i \in Batched(ls, ops[p].gen)
      BY <2>2, <2>6 DEF Batched, WriteOK
    <2>8. Len(ops[p].batch) <= Len(ms[ops[p].gen].pending)
      <3>1. Len(ops[p].batch) <= Len(ls[ops[p].gen].pending)
        BY <2>2 DEF WriteOK
      <3>2. Len(ls[ops[p].gen].pending) <= Len(ms[ops[p].gen].pending)
        BY ONLY <2>4
      <3>3. PICK a \in Nat, b \in Nat, c \in Nat :
               a = Len(ops[p].batch) /\ b = Len(ls[ops[p].gen].pending) /\ c = Len(ms[ops[p].gen].pending)
        BY ONLY <2>6
      <3>4. a <= b /\ b <= c
        BY ONLY <3>1, <3>2, <3>3
      <3>5. a <= c
        BY ONLY <3>4, a \in Nat, b \in Nat, c \in Nat
      <3> QED BY ONLY <3>3, <3>5
    <2> QED BY <2>1, <2>2, <2>3, <2>4, <2>7, <2>8, <1>3 DEF WriteOK
  <1>d. Flushes(ms, ps)
    <2> SUFFICES ASSUME NEW h \in Gens(ls)
                 PROVE  /\ ms[h].scheduled = "yes" =>
                              \E p \in LogOps : ps[p].gen = h /\ ps[p].pc = "spawned" /\ ps[p].kind = "flush"
                        /\ ms[h].pending # <<>> /\ ms[h].failure = "no" /\ ms[h].scheduled = "no" =>
                              \E p \in LogOps : ps[p].gen = h /\ ps[p].pc \in Queued
      BY <1>1 DEF Flushes
    <2>1. ASSUME ms[h].scheduled = "yes", h # g
          PROVE  \E p \in LogOps : ps[p].gen = h /\ ps[p].pc = "spawned" /\ ps[p].kind = "flush"
      <3>1. PICK p \in LogOps : ops[p].gen = h /\ ops[p].pc = "spawned" /\ ops[p].kind = "flush"
        BY <2>1, <1>2 DEF StoreOK, Flushes
      <3>2. ps[p] = ops[p]
        BY <3>1, <1>2
      <3> QED BY <3>1, <3>2
    <2>2. ASSUME ms[h].pending # <<>>, ms[h].failure = "no", ms[h].scheduled = "no"
          PROVE  \E p \in LogOps : ps[p].gen = h /\ ps[p].pc \in Queued
      <3>1. ls[h].pending # <<>> /\ ls[h].failure = "no" /\ ls[h].scheduled = "no"
        BY <2>2, <1>2
      <3>2. PICK p \in LogOps : ops[p].gen = h /\ ops[p].pc \in Queued
        BY <3>1 DEF StoreOK, Flushes
      <3> QED BY <3>2, <1>4
    <2> QED BY <2>1, <2>2
  <1>e. Releases(ms, ps)
    <2>1. \A h \in Gens(ms) : ms[h].settled = "yes" =>
              \A i \in Places(ms, h) : ps[ms[h].lockq[i]].kind \notin {"release", "rewrite"}
      BY <1>1, <1>3, <1>5 DEF StoreOK, Releases
    <2>2. \A h \in Gens(ms) : \A i \in Places(ms, h) : ps[ms[h].lockq[i]].kind = "release" =>
              /\ ms[h].retired = "yes"
              /\ \A j \in Places(ms, h) : j > i => ps[ms[h].lockq[j]].kind \notin {"release", "rewrite"}
      <3>1. \A h \in Gens(ls) : \A i \in Places(ls, h) : ops[ls[h].lockq[i]].kind = "release" =>
              /\ ls[h].retired = "yes"
              /\ \A j \in Places(ls, h) : j > i => ops[ls[h].lockq[j]].kind \notin {"release", "rewrite"}
        BY DEF StoreOK, Releases
      <3>2. \A h \in Gens(ls) : \A i \in Places(ls, h) : ps[ms[h].lockq[i]] = ops[ls[h].lockq[i]]
        BY <1>3, <1>5
      <3>3. \A h \in Gens(ls) : ms[h].retired = ls[h].retired /\ Places(ms, h) = Places(ls, h)
        BY <1>3
      <3> QED BY ONLY <3>1, <3>2, <3>3, <1>1
    <2>3. \A p \in LogOps : ps[p].pc \in Active => \A h \in Gens(ms) : h < ps[p].gen => ms[h].settled = "yes"
      BY <1>1, <1>3, <1>6 DEF StoreOK, Releases
    <2>4. \A h \in Gens(ms) : h < Len(ms) => ms[h].retired = "yes"
      BY <1>1, <1>3 DEF StoreOK, Releases, OneLog
    <2>5. \A h \in Gens(ms) : ms[h].settled = "yes" =>
              ms[h].retired = "yes" /\ \A k \in Gens(ms) : k < h => ms[k].settled = "yes"
      <3>1. \A h \in Gens(ls) : ls[h].settled = "yes" =>
                ls[h].retired = "yes" /\ \A k \in Gens(ls) : k < h => ls[k].settled = "yes"
        BY DEF StoreOK, Releases
      <3>2. \A h \in Gens(ls) : ms[h].settled = ls[h].settled /\ ms[h].retired = ls[h].retired
        BY <1>3
      <3> QED BY ONLY <3>1, <3>2, <1>1
    <2> QED BY <2>1, <2>2, <2>3, <2>4, <2>5 DEF Releases
  <1> QED BY <1>1, <1>a, <1>b, <1>c, <1>d, <1>e DEF StoreOK

\* Whoever holds the mutex goes on.
LEMMA AdvanceStep ==
    ASSUME NEW ls, NEW ops, NEW ms, NEW ps, StoreOK(ls, ops), NEW o \in LogOps, NEW g \in Gens(ls),
           OneLog(ls, ms, g), OneOp(ops, ps, o),
           ops[o].gen = g, ops[o].pc \in Queued, Len(ls[g].lockq) >= 1, ls[g].lockq[1] = o,
           ms[g].lockq = ls[g].lockq, ms[g].settled = ls[g].settled, ms[g].retired = ls[g].retired,
           ms[g].scheduled = ls[g].scheduled,
           \A h \in Gens(ls) : h < g => ls[h].settled = "yes",
           ps[o].gen = g, ps[o].kind = ops[o].kind, ps[o].pc \in Active, OpOK(ls, ps[o]),
           ps[o].pc = "writing" => /\ ms[g].failure = "no" /\ ps[o].batch = ms[g].pending
                                   /\ ps[o].epoch = ms[g].epoch
    PROVE  StoreOK(ms, ps)
  <1>1. Len(ls) \in Nat /\ Gens(ms) = Gens(ls) /\ ms \in Seq(LogType) /\ ps \in [LogOps -> OpType]
    BY StoreTypes DEF OneLog, OneOp, Gens
  <1>2. (\A h \in Gens(ls) : h # g => ms[h] = ls[h]) /\ \A p \in LogOps : p # o => ps[p] = ops[p]
    BY DEF OneLog, OneOp
  <1>3. \A h \in Gens(ls) : /\ ms[h].lockq = ls[h].lockq /\ ms[h].settled = ls[h].settled
                            /\ ms[h].retired = ls[h].retired /\ ms[h].scheduled = ls[h].scheduled
                            /\ Places(ms, h) = Places(ls, h)
    BY <1>2 DEF Places
  <1>4. \A p \in LogOps : ps[p].gen = ops[p].gen /\ ps[p].kind = ops[p].kind
    BY <1>2
  <1>5. \A h \in Gens(ls) : \A i \in Places(ls, h) : ls[h].lockq[i] \in LogOps
    BY StoreTypes
  <1>6. 1 \in Places(ls, g)
    BY StoreTypes DEF Places
  <1>7. \A h \in Gens(ls) : \A i \in Places(ls, h) : ls[h].lockq[i] = o => h = g /\ i = 1
    <2> SUFFICES ASSUME NEW h \in Gens(ls), NEW i \in Places(ls, h), ls[h].lockq[i] = o PROVE h = g /\ i = 1
      OBVIOUS
    <2>1. h = g
      BY DEF StoreOK, Queues
    <2> QED BY <2>1, <1>6 DEF StoreOK, Queues
  <1>8. \A p \in LogOps : ps[p].pc \in Queued <=> ops[p].pc \in Queued
    BY <1>2 DEF Queued, Active
  <1>a. OpsOK(ms, ps)
    BY <1>1, <1>2 DEF StoreOK, OpsOK, OpOK
  <1>b. Queues(ms, ps)
    <2>1. \A h \in Gens(ms) : \A i, j \in Places(ms, h) : ms[h].lockq[i] = ms[h].lockq[j] => i = j
      BY <1>1, <1>3 DEF StoreOK, Queues
    <2>2. ASSUME NEW h \in Gens(ms), NEW i \in Places(ms, h)
          PROVE  LET op == ps[ms[h].lockq[i]] IN op.gen = h /\ op.pc \in Queued /\ (op.pc \in Active => i = 1)
      <3>1. h \in Gens(ls) /\ i \in Places(ls, h) /\ ms[h].lockq[i] = ls[h].lockq[i] /\ ls[h].lockq[i] \in LogOps
        BY <1>1, <1>3, <1>5
      <3>2. LET op == ops[ls[h].lockq[i]] IN op.gen = h /\ op.pc \in Queued /\ (op.pc \in Active => i = 1)
        BY <3>1 DEF StoreOK, Queues
      <3>3. CASE ls[h].lockq[i] = o
        BY <3>1, <3>2, <3>3, <1>4, <1>7, <1>8
      <3>4. CASE ls[h].lockq[i] # o
        BY <3>1, <3>2, <3>4, <1>2
      <3> QED BY <3>3, <3>4
    <2>3. ASSUME NEW p \in LogOps, ps[p].pc \in Queued
          PROVE  \E i \in Places(ms, ps[p].gen) : ms[ps[p].gen].lockq[i] = p
      <3>1. ps[p].gen = ops[p].gen /\ ops[p].pc \in Queued /\ ops[p].gen \in Gens(ls)
        BY <2>3, <1>4, <1>8 DEF StoreOK, OpsOK, OpOK, Queued
      <3> QED BY <3>1, <1>3 DEF StoreOK, Queues
    <2> QED BY <2>1, <2>2, <2>3 DEF Queues
  <1>c. Writes(ms, ps)
    <2> SUFFICES ASSUME NEW p \in LogOps, ps[p].pc = "writing"
                 PROVE  WriteOK(ms, ps, p)
      BY DEF Writes
    <2>1. CASE p = o
      <3>1. ms[g] \in LogType
        BY <1>1 DEF Gens
      <3>2. ms[g].epoch \in Nat /\ Len(ms[g].pending) \in Nat
        BY <3>1 DEF LogType
      <3> QED BY <2>1, <3>2 DEF WriteOK
    <2>2. CASE p # o
      <3>1. ps[p] = ops[p] /\ ops[p].gen \in Gens(ls) /\ ops[p].pc \in Active
        BY <2>2, <1>2 DEF StoreOK, OpsOK, OpOK, Active
      <3>2. ops[p].gen # g
        <4>1. ls[ops[p].gen].lockq[1] = p
          BY <3>1, HeadIsUnique
        <4> QED BY <4>1, <2>2
      <3>3. WriteOK(ls, ops, p)
        BY <3>1 DEF StoreOK, Writes
      <3>4. ASSUME NEW x \in LogOps, ops[x].kind = "rewrite", ops[x].gen = ops[p].gen, ops[x].pc = "lock"
            PROVE  ps[x].kind = "rewrite" /\ ps[x].gen = ops[p].gen /\ ps[x].pc = "lock"
        BY <3>2, <3>4, <1>2
      <3> QED BY <3>1, <3>2, <3>3, <3>4, <1>2 DEF WriteOK
    <2> QED BY <2>1, <2>2
  <1>d. Flushes(ms, ps)
    <2> SUFFICES ASSUME NEW h \in Gens(ls)
                 PROVE  /\ ms[h].scheduled = "yes" =>
                              \E p \in LogOps : ps[p].gen = h /\ ps[p].pc = "spawned" /\ ps[p].kind = "flush"
                        /\ ms[h].pending # <<>> /\ ms[h].failure = "no" /\ ms[h].scheduled = "no" =>
                              \E p \in LogOps : ps[p].gen = h /\ ps[p].pc \in Queued
      BY <1>1 DEF Flushes
    <2>1. ASSUME ms[h].scheduled = "yes"
          PROVE  \E p \in LogOps : ps[p].gen = h /\ ps[p].pc = "spawned" /\ ps[p].kind = "flush"
      <3>1. PICK p \in LogOps : ops[p].gen = h /\ ops[p].pc = "spawned" /\ ops[p].kind = "flush"
        BY <2>1, <1>3 DEF StoreOK, Flushes
      <3>2. p # o
        BY <3>1 DEF Queued
      <3> QED BY <3>1, <3>2, <1>2
    <2>2. ASSUME ms[h].pending # <<>>, ms[h].failure = "no", ms[h].scheduled = "no"
          PROVE  \E p \in LogOps : ps[p].gen = h /\ ps[p].pc \in Queued
      <3>1. CASE h = g
        BY <3>1, <1>8
      <3>2. CASE h # g
        <4>1. PICK p \in LogOps : ops[p].gen = h /\ ops[p].pc \in Queued
          BY <2>2, <3>2, <1>2 DEF StoreOK, Flushes
        <4> QED BY <4>1, <1>4, <1>8
      <3> QED BY <3>1, <3>2
    <2> QED BY <2>1, <2>2
  <1>e. Releases(ms, ps)
    <2>0. \A h \in Gens(ls) : \A i \in Places(ls, h) : ps[ls[h].lockq[i]].kind = ops[ls[h].lockq[i]].kind
      BY <1>4, <1>5
    <2>1. \A h \in Gens(ms) : ms[h].settled = "yes" =>
              \A i \in Places(ms, h) : ps[ms[h].lockq[i]].kind \notin {"release", "rewrite"}
      <3>1. \A h \in Gens(ls) : ls[h].settled = "yes" =>
                \A i \in Places(ls, h) : ops[ls[h].lockq[i]].kind \notin {"release", "rewrite"}
        BY DEF StoreOK, Releases
      <3> QED BY <3>1, <1>1, <1>3, <2>0
    <2>2. \A h \in Gens(ms) : \A i \in Places(ms, h) : ps[ms[h].lockq[i]].kind = "release" =>
              /\ ms[h].retired = "yes"
              /\ \A j \in Places(ms, h) : j > i => ps[ms[h].lockq[j]].kind \notin {"release", "rewrite"}
      <3>1. \A h \in Gens(ls) : \A i \in Places(ls, h) : ops[ls[h].lockq[i]].kind = "release" =>
              /\ ls[h].retired = "yes"
              /\ \A j \in Places(ls, h) : j > i => ops[ls[h].lockq[j]].kind \notin {"release", "rewrite"}
        BY DEF StoreOK, Releases
      <3>2. \A h \in Gens(ms) : h \in Gens(ls) /\ Places(ms, h) = Places(ls, h) /\ ms[h].retired = ls[h].retired
                /\ \A i \in Places(ls, h) : ps[ms[h].lockq[i]].kind = ops[ls[h].lockq[i]].kind
        BY <1>1, <1>3, <2>0
      <3> QED BY <3>1, <3>2
    <2>3. \A p \in LogOps : ps[p].pc \in Active => \A h \in Gens(ms) : h < ps[p].gen => ms[h].settled = "yes"
      <3> SUFFICES ASSUME NEW p \in LogOps, ps[p].pc \in Active, NEW h \in Gens(ls), h < ps[p].gen
                   PROVE  ls[h].settled = "yes"
        BY <1>1, <1>3
      <3>1. CASE p = o
        BY <3>1
      <3>2. CASE p # o
        BY <3>2, <1>2 DEF StoreOK, Releases
      <3> QED BY <3>1, <3>2
    <2>4. \A h \in Gens(ms) : h < Len(ms) => ms[h].retired = "yes"
      BY <1>1, <1>3 DEF StoreOK, Releases, OneLog
    <2>5. \A h \in Gens(ms) : ms[h].settled = "yes" =>
              ms[h].retired = "yes" /\ \A k \in Gens(ms) : k < h => ms[k].settled = "yes"
      <3>1. \A h \in Gens(ls) : ls[h].settled = "yes" =>
                ls[h].retired = "yes" /\ \A k \in Gens(ls) : k < h => ls[k].settled = "yes"
        BY DEF StoreOK, Releases
      <3> QED BY <3>1, <1>1, <1>3
    <2> QED BY <2>1, <2>2, <2>3, <2>4, <2>5 DEF Releases
  <1> QED BY <1>1, <1>a, <1>b, <1>c, <1>d, <1>e DEF StoreOK

\* Whoever holds the mutex is done: it leaves the queue, and a release settles
\* its generation.
LEMMA LeaveStep ==
    ASSUME NEW ls, NEW ops, NEW ms, NEW ps, StoreOK(ls, ops), NEW o \in LogOps, NEW g \in Gens(ls),
           OneLog(ls, ms, g), OneOp(ops, ps, o),
           ops[o].gen = g, ops[o].pc \in Active, ps[o] = NoOp,
           ms[g].lockq = Tail(ls[g].lockq), ms[g].pending = ls[g].pending, ms[g].retired = ls[g].retired,
           ms[g].scheduled = ls[g].scheduled, ms[g].epoch = ls[g].epoch,
           ms[g].failure = ls[g].failure \/ ms[g].failure = "yes",
           ms[g].settled = IF ops[o].kind = "release" THEN "yes" ELSE ls[g].settled,
           \/ ms[g].failure = "yes" \/ ls[g].pending = <<>>
           \/ \E p \in LogOps : p # o /\ ops[p].gen = g /\ ops[p].pc = "lock"
    PROVE  StoreOK(ms, ps)
  <1>1. Len(ls) \in Nat /\ Gens(ms) = Gens(ls) /\ ms \in Seq(LogType) /\ ps \in [LogOps -> OpType]
    BY StoreTypes DEF OneLog, OneOp, Gens
  <1>2. (\A h \in Gens(ls) : h # g => ms[h] = ls[h]) /\ \A p \in LogOps : p # o => ps[p] = ops[p]
    BY DEF OneLog, OneOp
  <1>3. /\ Len(ls[g].lockq) >= 1 /\ ls[g].lockq[1] = o /\ ls[g].lockq # <<>> /\ ls[g].lockq \in Seq(LogOps)
        /\ \A p \in LogOps : ops[p].pc \in Active /\ ops[p].gen = g => p = o
    <2>1. /\ Len(ls[g].lockq) >= 1 /\ ls[g].lockq[1] = o /\ ls[g].lockq \in Seq(LogOps)
          /\ \A p \in LogOps : ops[p].pc \in Active /\ ops[p].gen = g => p = o
      BY HeadIsUnique, StoreTypes
    <2> QED BY <2>1
  <1>4. PICK n \in Nat : n = Len(ls[g].lockq) - 1
    <2>1. Len(ls[g].lockq) - 1 \in Nat
      BY <1>3
    <2> QED BY <2>1
  <1>5. /\ Len(ls[g].lockq) = n + 1 /\ Len(ms[g].lockq) = n
        /\ \A i \in 1 .. n : ms[g].lockq[i] = ls[g].lockq[i + 1]
    BY <1>3, <1>4, TailOf
  <1>6. Places(ls, g) = 1 .. n + 1 /\ Places(ms, g) = 1 .. n
    BY <1>5 DEF Places
  <1>7. \A h \in Gens(ls) : h # g => Places(ms, h) = Places(ls, h)
    BY <1>2 DEF Places
  <1>8. \A i \in 1 .. n : i + 1 \in Places(ls, g) /\ i \in Nat /\ i + 1 # 1
    BY <1>6
  <1>9. 1 \in Places(ls, g)
    BY <1>6
  <1>10. \A i, j \in Places(ls, g) : ls[g].lockq[i] = ls[g].lockq[j] => i = j
    BY DEF StoreOK, Queues
  <1>11. \A h \in Gens(ls) : \A i \in Places(ls, h) :
            /\ ls[h].lockq[i] \in LogOps
            /\ ops[ls[h].lockq[i]].gen = h /\ ops[ls[h].lockq[i]].pc \in Queued
            /\ ops[ls[h].lockq[i]].pc \in Active => i = 1
    <2>1. \A h \in Gens(ls) : \A i \in Places(ls, h) : ls[h].lockq[i] \in LogOps
      BY StoreTypes
    <2>2. \A h \in Gens(ls) : \A i \in Places(ls, h) :
             /\ ops[ls[h].lockq[i]].gen = h /\ ops[ls[h].lockq[i]].pc \in Queued
             /\ ops[ls[h].lockq[i]].pc \in Active => i = 1
      BY DEF StoreOK, Queues
    <2> QED BY <2>1, <2>2
  <1>12. ASSUME NEW i \in 1 .. n
         PROVE  /\ ms[g].lockq[i] = ls[g].lockq[i + 1] /\ ls[g].lockq[i + 1] \in LogOps /\ ls[g].lockq[i + 1] # o
                /\ ps[ms[g].lockq[i]] = ops[ls[g].lockq[i + 1]]
    <2>1. i + 1 \in Places(ls, g) /\ i + 1 # 1
      BY <1>8
    <2>2. ls[g].lockq[i + 1] # o
      BY <2>1, <1>3, <1>9, <1>10
    <2> QED BY <2>1, <2>2, <1>2, <1>5, <1>11
  <1>13. \A h \in Gens(ls) : h # g => \A i \in Places(ls, h) :
            ls[h].lockq[i] \in LogOps /\ ps[ls[h].lockq[i]] = ops[ls[h].lockq[i]]
    BY <1>2, <1>11
  <1>14. NoOp.pc = "idle" /\ NoOp.kind = "none" /\ NoOp.batch = <<>> /\ NoOp.next = "no"
    BY DEF NoOp
  <1>15. \A p \in LogOps : ps[p].pc \in Queued => p # o /\ ps[p] = ops[p]
    BY <1>2, <1>14 DEF Queued
  <1>a. OpsOK(ms, ps)
    BY <1>1, <1>2, <1>14 DEF StoreOK, OpsOK, OpOK
  <1>b. Queues(ms, ps)
    <2>1. ASSUME NEW h \in Gens(ls), NEW i \in Places(ms, h), NEW j \in Places(ms, h), ms[h].lockq[i] = ms[h].lockq[j]
          PROVE  i = j
      <3>1. CASE h # g
        BY <3>1, <2>1, <1>2, <1>7 DEF StoreOK, Queues
      <3>2. CASE h = g
        <4>1. i \in 1 .. n /\ j \in 1 .. n
          BY <3>2, <1>6
        <4>2. ls[g].lockq[i + 1] = ls[g].lockq[j + 1]
          BY <4>1, <3>2, <2>1, <1>5
        <4>3. i + 1 = j + 1
          BY <4>1, <4>2, <1>8, <1>10
        <4> QED BY <4>1, <4>3, <1>8
      <3> QED BY <3>1, <3>2
    <2>2. ASSUME NEW h \in Gens(ls), NEW i \in Places(ms, h)
          PROVE  LET op == ps[ms[h].lockq[i]] IN op.gen = h /\ op.pc \in Queued /\ (op.pc \in Active => i = 1)
      <3>1. CASE h # g
        BY <3>1, <1>2, <1>7, <1>11, <1>13
      <3>2. CASE h = g
        <4>1. i \in 1 .. n
          BY <3>2, <1>6
        <4>2. i + 1 \in Places(ls, g) /\ i + 1 # 1
          BY <4>1, <1>8
        <4>3. LET op == ops[ls[g].lockq[i + 1]] IN op.gen = g /\ op.pc \in Queued /\ op.pc \notin Active
          BY <4>2, <1>11
        <4> QED BY <3>2, <4>1, <4>3, <1>12
      <3> QED BY <3>1, <3>2
    <2>3. ASSUME NEW p \in LogOps, ps[p].pc \in Queued
          PROVE  \E i \in Places(ms, ps[p].gen) : ms[ps[p].gen].lockq[i] = p
      <3>1. p # o /\ ps[p] = ops[p] /\ ops[p].gen \in Gens(ls)
        BY <2>3, <1>15 DEF StoreOK, OpsOK, OpOK, Queued
      <3>2. PICK i \in Places(ls, ops[p].gen) : ls[ops[p].gen].lockq[i] = p
        BY <3>1, <2>3 DEF StoreOK, Queues
      <3>3. CASE ops[p].gen # g
        BY <3>1, <3>2, <3>3, <1>2, <1>7
      <3>4. CASE ops[p].gen = g
        <4>1. i \in 1 .. n + 1 /\ i # 1
          BY <3>1, <3>2, <3>4, <1>3, <1>6
        <4>2. PICK j \in 1 .. n : i = j + 1
          <5>1. i - 1 \in 1 .. n /\ i = (i - 1) + 1
            BY <4>1
          <5> QED BY <5>1
        <4>3. j \in Places(ms, g) /\ ms[g].lockq[j] = ls[g].lockq[i]
          BY <4>2, <1>5, <1>6
        <4> QED BY <3>1, <3>2, <3>4, <4>3
      <3> QED BY <3>3, <3>4
    <2> QED BY <1>1, <2>1, <2>2, <2>3 DEF Queues
  <1>c. Writes(ms, ps)
    <2> SUFFICES ASSUME NEW p \in LogOps, ps[p].pc = "writing"
                 PROVE  WriteOK(ms, ps, p)
      BY DEF Writes
    <2>1. p # o /\ ps[p] = ops[p] /\ ops[p].gen \in Gens(ls) /\ ops[p].pc \in Active
      BY <1>15 DEF StoreOK, OpsOK, OpOK, Active, Queued
    <2>2. ops[p].gen # g
      BY <2>1, <1>3
    <2>3. WriteOK(ls, ops, p)
      BY <2>1 DEF StoreOK, Writes
    <2>4. ASSUME NEW x \in LogOps, ops[x].kind = "rewrite", ops[x].gen = ops[p].gen, ops[x].pc = "lock"
          PROVE  ps[x].kind = "rewrite" /\ ps[x].gen = ops[p].gen /\ ps[x].pc = "lock"
      BY <2>2, <2>4, <1>2
    <2> QED BY <2>1, <2>2, <2>3, <2>4, <1>2 DEF WriteOK
  <1>d. Flushes(ms, ps)
    <2> SUFFICES ASSUME NEW h \in Gens(ls)
                 PROVE  /\ ms[h].scheduled = "yes" =>
                              \E p \in LogOps : ps[p].gen = h /\ ps[p].pc = "spawned" /\ ps[p].kind = "flush"
                        /\ ms[h].pending # <<>> /\ ms[h].failure = "no" /\ ms[h].scheduled = "no" =>
                              \E p \in LogOps : ps[p].gen = h /\ ps[p].pc \in Queued
      BY <1>1 DEF Flushes
    <2>1. ASSUME ms[h].scheduled = "yes"
          PROVE  \E p \in LogOps : ps[p].gen = h /\ ps[p].pc = "spawned" /\ ps[p].kind = "flush"
      <3>1. PICK p \in LogOps : ops[p].gen = h /\ ops[p].pc = "spawned" /\ ops[p].kind = "flush"
        BY <2>1, <1>2 DEF StoreOK, Flushes
      <3>2. p # o
        BY <3>1 DEF Active
      <3> QED BY <3>1, <3>2, <1>2
    <2>2. ASSUME ms[h].pending # <<>>, ms[h].failure = "no", ms[h].scheduled = "no"
          PROVE  \E p \in LogOps : ps[p].gen = h /\ ps[p].pc \in Queued
      <3>1. CASE h = g
        <4>1. PICK p \in LogOps : p # o /\ ops[p].gen = g /\ ops[p].pc = "lock"
          BY <3>1, <2>2
        <4> QED BY <3>1, <4>1, <1>2 DEF Queued
      <3>2. CASE h # g
        <4>1. PICK p \in LogOps : ops[p].gen = h /\ ops[p].pc \in Queued
          BY <2>2, <3>2, <1>2 DEF StoreOK, Flushes
        <4> QED BY <4>1, <3>2, <1>2
      <3> QED BY <3>1, <3>2
    <2> QED BY <2>1, <2>2
  <1>e. Releases(ms, ps)
    <2>1. \A h \in Gens(ls) : ls[h].settled = "yes" => ms[h].settled = "yes"
      BY <1>2
    <2>2. \A h \in Gens(ls) : ms[h].retired = ls[h].retired
      BY <1>2
    <2>3. \A h \in Gens(ls) : \A i \in Places(ls, h) : ops[ls[h].lockq[i]].kind = "release" =>
             /\ ls[h].retired = "yes"
             /\ \A j \in Places(ls, h) : j > i => ops[ls[h].lockq[j]].kind \notin {"release", "rewrite"}
      BY DEF StoreOK, Releases
    <2>4. \A h \in Gens(ls) : ls[h].settled = "yes" =>
             /\ ls[h].retired = "yes" /\ \A k \in Gens(ls) : k < h => ls[k].settled = "yes"
             /\ \A i \in Places(ls, h) : ops[ls[h].lockq[i]].kind \notin {"release", "rewrite"}
      BY DEF StoreOK, Releases
    <2>5. \A p \in LogOps : ops[p].pc \in Active => \A h \in Gens(ls) : h < ops[p].gen => ls[h].settled = "yes"
      BY DEF StoreOK, Releases
    <2>6. ASSUME NEW h \in Gens(ls), ms[h].settled = "yes"
          PROVE  /\ ms[h].retired = "yes" /\ \A k \in Gens(ls) : k < h => ms[k].settled = "yes"
                 /\ \A i \in Places(ms, h) : ps[ms[h].lockq[i]].kind \notin {"release", "rewrite"}
      <3>1. CASE h # g
        BY <3>1, <2>1, <2>2, <2>4, <2>6, <1>2, <1>7, <1>13
      <3>2. CASE h = g /\ ls[g].settled = "yes"
        <4>1. \A i \in 1 .. n : ps[ms[g].lockq[i]].kind \notin {"release", "rewrite"}
          BY <3>2, <2>4, <1>8, <1>12
        <4> QED BY <3>2, <4>1, <2>1, <2>2, <2>4, <1>6
      <3>3. CASE h = g /\ ops[o].kind = "release"
        <4>1. /\ ls[g].retired = "yes"
              /\ \A j \in Places(ls, g) : j > 1 => ops[ls[g].lockq[j]].kind \notin {"release", "rewrite"}
          BY <3>3, <2>3, <1>3, <1>9
        <4>2. \A i \in 1 .. n : i + 1 > 1
          OBVIOUS
        <4>3. \A i \in 1 .. n : ps[ms[g].lockq[i]].kind \notin {"release", "rewrite"}
          BY <4>1, <4>2, <1>8, <1>12
        <4>4. \A k \in Gens(ls) : k < g => ls[k].settled = "yes"
          BY <2>5
        <4> QED BY <3>3, <4>1, <4>3, <4>4, <2>1, <2>2, <1>6
      <3> QED BY <3>1, <3>2, <3>3, <2>6
    <2>7. ASSUME NEW h \in Gens(ls), NEW i \in Places(ms, h), ps[ms[h].lockq[i]].kind = "release"
          PROVE  /\ ms[h].retired = "yes"
                 /\ \A j \in Places(ms, h) : j > i => ps[ms[h].lockq[j]].kind \notin {"release", "rewrite"}
      <3>1. CASE h # g
        BY <3>1, <2>2, <2>3, <2>7, <1>2, <1>7, <1>13
      <3>2. CASE h = g
        <4>1. i \in 1 .. n
          BY <3>2, <1>6
        <4>2. i + 1 \in Places(ls, g) /\ ops[ls[g].lockq[i + 1]].kind = "release"
          BY <4>1, <3>2, <2>7, <1>8, <1>12
        <4>3. ls[g].retired = "yes" /\ \A j \in Places(ls, g) : j > i + 1 => ops[ls[g].lockq[j]].kind \notin {"release", "rewrite"}
          BY <4>2, <2>3
        <4>4. ASSUME NEW j \in 1 .. n, j > i PROVE ps[ms[g].lockq[j]].kind \notin {"release", "rewrite"}
          <5>1. j + 1 > i + 1
            BY <4>1, <4>4
          <5> QED BY <5>1, <4>3, <1>8, <1>12
        <4> QED BY <3>2, <4>3, <4>4, <2>2, <1>6
      <3> QED BY <3>1, <3>2
    <2>8. \A p \in LogOps : ps[p].pc \in Active => \A h \in Gens(ls) : h < ps[p].gen => ms[h].settled = "yes"
      <3>1. \A p \in LogOps : ps[p].pc \in Active => ps[p] = ops[p]
        BY <1>15 DEF Active, Queued
      <3> QED BY <3>1, <2>1, <2>5
    <2>9. \A h \in Gens(ls) : h < Len(ls) => ms[h].retired = "yes"
      BY <2>2 DEF StoreOK, Releases
    <2> QED BY <1>1, <2>6, <2>7, <2>8, <2>9 DEF Releases, OneLog
  <1> QED BY <1>1, <1>a, <1>b, <1>c, <1>d, <1>e DEF StoreOK

\* state() makes a new generation when the last one is retired.
LEMMA GrowStep ==
    ASSUME NEW ls, NEW ops, NEW ms, StoreOK(ls, ops), ls = <<>> \/ ls[Len(ls)].retired = "yes",
           ms = Append(ls, NewLog)
    PROVE  StoreOK(ms, ops) /\ Len(ms) = Len(ls) + 1 /\ ms[Len(ms)] = NewLog
  <1>1. NewLog \in LogType
    BY DEF NewLog, LogType
  <1>2. ls \in Seq(LogType) /\ ops \in [LogOps -> OpType] /\ Len(ls) \in Nat
    BY StoreTypes DEF StoreOK
  <1>3. PICK n \in Nat : n = Len(ls)
    BY <1>2
  <1>4. /\ ms \in Seq(LogType) /\ Len(ms) = n + 1 /\ ms[n + 1] = NewLog /\ \A g \in 1 .. n : ms[g] = ls[g]
    BY <1>1, <1>2, <1>3
  <1>5. Gens(ls) = 1 .. n /\ Gens(ms) = 1 .. n + 1 /\ \A g \in Gens(ms) : g \in 1 .. n \/ g = n + 1
    BY <1>3, <1>4 DEF Gens
  <1>6. NewLog.lockq = <<>> /\ NewLog.scheduled = "no" /\ NewLog.pending = <<>> /\ NewLog.settled = "no"
    BY DEF NewLog
  <1>7. Places(ms, n + 1) = {} /\ \A g \in 1 .. n : Places(ms, g) = Places(ls, g)
    BY <1>4, <1>6 DEF Places
  <1>8. \A o \in LogOps : ops[o].pc # "idle" =>
           ops[o].gen \in 1 .. n /\ ms[ops[o].gen] = ls[ops[o].gen] /\ Places(ms, ops[o].gen) = Places(ls, ops[o].gen)
    BY <1>4, <1>5, <1>7 DEF StoreOK, OpsOK, OpOK
  <1>a. OpsOK(ms, ops)
    <2>1. \A g \in Gens(ls) : g \in Gens(ms)
      BY <1>5
    <2> QED BY <2>1 DEF StoreOK, OpsOK, OpOK
  <1>b. Queues(ms, ops)
    <2>1. \A g \in Gens(ms) : \A i, j \in Places(ms, g) : ms[g].lockq[i] = ms[g].lockq[j] => i = j
      BY <1>4, <1>5, <1>7 DEF StoreOK, Queues
    <2>2. \A g \in Gens(ms) : \A i \in Places(ms, g) :
             LET op == ops[ms[g].lockq[i]] IN op.gen = g /\ op.pc \in Queued /\ (op.pc \in Active => i = 1)
      BY <1>4, <1>5, <1>7 DEF StoreOK, Queues
    <2>3. \A o \in LogOps : ops[o].pc \in Queued => \E i \in Places(ms, ops[o].gen) : ms[ops[o].gen].lockq[i] = o
      <3>1. \A o \in LogOps : ops[o].pc \in Queued =>
               ops[o].pc # "idle" /\ \E i \in Places(ls, ops[o].gen) : ls[ops[o].gen].lockq[i] = o
        BY DEF StoreOK, Queues, Queued
      <3> QED BY <3>1, <1>8
    <2> QED BY <2>1, <2>2, <2>3 DEF Queues
  <1>c. Writes(ms, ops)
    <2>1. \A o \in LogOps : ops[o].pc = "writing" => ms[ops[o].gen] = ls[ops[o].gen]
      BY <1>8
    <2> SUFFICES ASSUME NEW p \in LogOps, ops[p].pc = "writing"
                 PROVE  WriteOK(ms, ops, p)
      BY DEF Writes
    <2>2. WriteOK(ls, ops, p)
      BY DEF StoreOK, Writes
    <2> QED BY <2>1, <2>2 DEF WriteOK
  <1>d. Flushes(ms, ops)
    BY <1>4, <1>5, <1>6 DEF StoreOK, Flushes
  <1>e. Releases(ms, ops)
    <2>1. \A g \in 1 .. n : ls[g].retired = "yes"
      <3>1. \A g \in Gens(ls) : g < n => ls[g].retired = "yes"
        BY <1>3 DEF StoreOK, Releases
      <3>2. n \in 1 .. n => ls # <<>>
        BY <1>3
      <3> QED BY <3>1, <3>2, <1>3, <1>5
    <2>2. \A g \in Gens(ms) : g < n + 1 => g \in 1 .. n
      BY <1>5
    <2>3. \A h \in Gens(ls) : ls[h].settled = "yes" =>
             /\ ls[h].retired = "yes" /\ \A k \in Gens(ls) : k < h => ls[k].settled = "yes"
             /\ \A i \in Places(ls, h) : ops[ls[h].lockq[i]].kind \notin {"release", "rewrite"}
      BY DEF StoreOK, Releases
    <2>4. \A h \in Gens(ls) : \A i \in Places(ls, h) : ops[ls[h].lockq[i]].kind = "release" =>
             /\ ls[h].retired = "yes"
             /\ \A j \in Places(ls, h) : j > i => ops[ls[h].lockq[j]].kind \notin {"release", "rewrite"}
      BY DEF StoreOK, Releases
    <2>5. \A p \in LogOps : ops[p].pc \in Active => \A h \in Gens(ls) : h < ops[p].gen => ls[h].settled = "yes"
      BY DEF StoreOK, Releases
    <2>6. \A g \in Gens(ms) : g < Len(ms) => ms[g].retired = "yes"
      BY <2>1, <2>2, <1>4
    <2>7. ASSUME NEW h \in Gens(ms), ms[h].settled = "yes"
          PROVE  /\ ms[h].retired = "yes" /\ \A k \in Gens(ms) : k < h => ms[k].settled = "yes"
                 /\ \A i \in Places(ms, h) : ops[ms[h].lockq[i]].kind \notin {"release", "rewrite"}
      <3>1. h \in 1 .. n
        BY <2>7, <1>4, <1>5, <1>6
      <3>2. \A k \in Gens(ms) : k < h => k \in 1 .. n
        BY <3>1, <1>5
      <3> QED BY <3>1, <3>2, <2>3, <2>7, <1>4, <1>5, <1>7
    <2>8. \A h \in Gens(ms) : \A i \in Places(ms, h) : ops[ms[h].lockq[i]].kind = "release" =>
             /\ ms[h].retired = "yes"
             /\ \A j \in Places(ms, h) : j > i => ops[ms[h].lockq[j]].kind \notin {"release", "rewrite"}
      BY <2>4, <1>4, <1>5, <1>7
    <2>9. ASSUME NEW p \in LogOps, ops[p].pc \in Active, NEW h \in Gens(ms), h < ops[p].gen
          PROVE  ms[h].settled = "yes"
      <3>1. ops[p].gen \in 1 .. n
        BY <2>9, <1>8 DEF Active
      <3>2. h \in 1 .. n
        BY <3>1, <2>9, <1>5
      <3> QED BY <3>2, <2>5, <2>9, <1>4, <1>5
    <2> QED BY <2>6, <2>7, <2>8, <2>9 DEF Releases
  <1> QED BY <1>2, <1>3, <1>4, <1>5, <1>a, <1>b, <1>c, <1>d, <1>e DEF StoreOK

-----------------------------------------------------------------------------
(***************************************************************************)
(* The records.                                                            *)
(***************************************************************************)
\* Whoever writes or replaces the file works on a generation that has not
\* settled; all before it have, so it is the only one.
LEMMA WorkerNotSettled ==
    ASSUME NEW ls, NEW ops, StoreOK(ls, ops), SettledIsDone(ls), NEW o \in LogOps, ops[o].pc \in Active,
           ops[o].pc = "writing" \/ ops[o].kind = "rewrite"
    PROVE  ls[ops[o].gen].settled # "yes"
  <1>1. ops[o].gen \in Gens(ls) /\ 1 \in Places(ls, ops[o].gen) /\ ls[ops[o].gen].lockq[1] = o
    <2>1. ops[o].gen \in Gens(ls) /\ Len(ls[ops[o].gen].lockq) >= 1 /\ ls[ops[o].gen].lockq[1] = o
      BY HeadIsUnique
    <2> QED BY <2>1, StoreTypes DEF Places
  <1>2. CASE ops[o].kind = "rewrite"
    BY <1>1, <1>2 DEF StoreOK, Releases
  <1>3. CASE ops[o].pc = "writing"
    <2>1. WriteOK(ls, ops, o) /\ ops[o].batch # <<>>
      BY <1>3 DEF StoreOK, Writes, OpsOK, OpOK
    <2>2. Len(ops[o].batch) \in Nat \ {0}
      BY <2>1, StoreTypes
    <2>3. ls[ops[o].gen].failure = "no" /\ ls[ops[o].gen].pending # <<>>
      BY <2>1, <2>2, <1>1, StoreTypes DEF WriteOK
    <2> QED BY <2>3, <1>1 DEF SettledIsDone
  <1> QED BY <1>2, <1>3

\* At most one task writes or rewrites at a time, whatever the number of
\* generations.
LEMMA OneWorker ==
    ASSUME NEW ls, NEW ops, StoreOK(ls, ops), SettledIsDone(ls), NEW o \in LogOps, NEW p \in LogOps,
           ops[o].pc \in Active, ops[o].pc = "writing" \/ ops[o].kind = "rewrite",
           ops[p].pc \in Active, ops[p].pc = "writing" \/ ops[p].kind = "rewrite"
    PROVE  o = p
  <1>1. ls[ops[o].gen].settled # "yes" /\ ls[ops[p].gen].settled # "yes"
    BY WorkerNotSettled
  <1>2. ops[o].gen \in Gens(ls) /\ ops[p].gen \in Gens(ls)
    BY HeadIsUnique
  <1>3. ~(ops[o].gen < ops[p].gen) /\ ~(ops[p].gen < ops[o].gen)
    BY <1>1, <1>2 DEF StoreOK, Releases
  <1>4. ops[o].gen = ops[p].gen
    BY <1>2, <1>3, StoreTypes
  <1> QED BY <1>4, HeadIsUnique

\* What is written rises, and is behind what is in the file.
LEMMA BatchRises ==
    ASSUME NEW ls, NEW ops, StoreOK(ls, ops), NEW acc \in Nat, PendingInOrder(ls, acc),
           NEW o \in LogOps, ops[o].pc = "writing"
    PROVE  /\ Rising(ops[o].batch)
           /\ \A i \in 1 .. Len(ops[o].batch) : ops[o].batch[i] <= acc
           /\ \A f \in Seq(Lines), cut \in BOOLEAN : LinesFirst(f, ls, acc, cut) /\ ~cut =>
                 /\ Rising(f)
                 /\ \A i \in 1 .. Len(f), j \in 1 .. Len(ops[o].batch) : f[i] < ops[o].batch[j]
  <1>1. ops[o].gen \in Gens(ls) /\ WriteOK(ls, ops, o)
    BY DEF StoreOK, Writes, OpsOK, OpOK
  <1>2. PICK g \in Gens(ls) : g = ops[o].gen
    BY <1>1
  <1>3. \A i \in 1 .. Len(ops[o].batch) : i \in Batched(ls, g) /\ ops[o].batch[i] = ls[g].pending[i]
    BY <1>1, <1>2, StoreTypes DEF WriteOK, Batched
  <1>4. ls[g].failure = "no"
    BY <1>1, <1>2 DEF WriteOK
  <1>5. \A i, j \in Batched(ls, g) : i < j => ls[g].pending[i] < ls[g].pending[j]
    BY DEF PendingInOrder
  <1>6. Rising(ops[o].batch)
    BY <1>3, <1>5 DEF Rising
  <1>7. \A i \in 1 .. Len(ops[o].batch) : ops[o].batch[i] <= acc
    BY <1>3 DEF PendingInOrder
  <1>8. \A f \in Seq(Lines), cut \in BOOLEAN : LinesFirst(f, ls, acc, cut) /\ ~cut =>
           Rising(f) /\ \A i \in 1 .. Len(f), j \in 1 .. Len(ops[o].batch) : f[i] < ops[o].batch[j]
    BY <1>3, <1>4 DEF LinesFirst
  <1> QED BY <1>6, <1>7, <1>8

\* What is pending stays the same, and so does the file.
LEMMA DataStep ==
    ASSUME NEW f, NEW ls, NEW ops, NEW ms, NEW ps, NEW acc, NEW gn, NEW cut,
           DataOK(f, ls, ops, acc, gn, cut), NEW o, OneOp(ops, ps, o),
           Gens(ms) = Gens(ls),
           \A g \in Gens(ls) : /\ ms[g].pending = ls[g].pending /\ ms[g].failure = ls[g].failure
                               /\ ms[g].settled = ls[g].settled,
           o \in LogOps /\ ps[o].kind = "call" => CallOK(ls, ps[o], acc),
           \A p \in LogOps : ps[p].next = "yes" => TailOK(f, ms, ps, p),
           o \in LogOps /\ ps[o].kind = "rewrite" /\ ps[o].pc \in {"drain", "writing"} => Clean(f)
    PROVE  DataOK(f, ms, ps, acc, gn, cut)
  <1>1. \A g \in Gens(ls) : Batched(ms, g) = Batched(ls, g)
    BY DEF Batched
  <1>2. \A p \in LogOps : p # o => ps[p] = ops[p]
    BY DEF OneOp
  <1>3. SettledIsDone(ms)
    BY DEF DataOK, SettledIsDone
  <1>4. PendingInOrder(ms, acc)
    BY <1>1 DEF DataOK, PendingInOrder
  <1>5. LinesFirst(f, ms, acc, cut)
    BY <1>1 DEF DataOK, LinesFirst
  <1>6. NothingLost(f, ms, acc, gn)
    <2>1. \A g \in Gens(ls) : \A r : InGen(ms, g, r) <=> InGen(ls, g, r)
      BY <1>1 DEF InGen
    <2> QED BY <2>1 DEF DataOK, NothingLost
  <1>7. CallsCover(ms, ps, acc)
    <2>1. \A op : CallOK(ls, op, acc) => CallOK(ms, op, acc)
      BY <1>1 DEF CallOK
    <2> QED BY <2>1, <1>2 DEF DataOK, CallsCover
  <1>8. TailsKept(f, ms, ps)
    BY DEF TailsKept
  <1>9. RewriteIsClean(f, ps)
    BY <1>2 DEF DataOK, RewriteIsClean
  <1> QED BY <1>3, <1>4, <1>5, <1>6, <1>7, <1>8, <1>9 DEF DataOK

\* Somebody joins a queue: whoever was next in line still is.
LEMMA JoinTails ==
    ASSUME NEW f, NEW ls, NEW ops, NEW ms, NEW ps, StoreOK(ls, ops), TailsKept(f, ls, ops),
           NEW o \in LogOps, NEW g \in Gens(ls), OneLog(ls, ms, g), OneOp(ops, ps, o),
           ops[o].pc \in {"idle", "spawned"},
           ms[g].lockq = Append(ls[g].lockq, o), ms[g].pending = ls[g].pending,
           ms[g].epoch \in Nat, ms[g].epoch >= ls[g].epoch,
           ps[o].next = "yes" => TailOK(f, ms, ps, o)
    PROVE  \A p \in LogOps : ps[p].next = "yes" => TailOK(f, ms, ps, p)
  <1> SUFFICES ASSUME NEW p \in LogOps, ps[p].next = "yes", p # o PROVE TailOK(f, ms, ps, p)
    OBVIOUS
  <1>1. ps[p] = ops[p] /\ TailOK(f, ls, ops, p)
    BY DEF OneOp, TailsKept
  <1>2. ops[p].kind = "rewrite" /\ ops[p].pc # "idle" /\ ops[p].gen \in Gens(ls)
    <2>1. ops[p].kind = "rewrite"
      BY <1>1 DEF StoreOK, OpsOK, OpOK
    <2> QED BY <2>1 DEF StoreOK, OpsOK, OpOK, NoOp
  <1>3. PICK h \in Gens(ls) : h = ops[p].gen
    BY <1>2
  <1>4. ms[h].pending = ls[h].pending
    BY DEF OneLog
  <1>5. TailIn(f, ms, ps[p])
    BY <1>1, <1>3, <1>4 DEF TailOK, TailIn, InGen, Batched
  <1>6. ASSUME ps[p].pc = "lock", ps[p].tail # {} PROVE NextInLine(ms, ps, p)
    <2>1. NextInLine(ls, ops, p)
      BY <1>1, <1>6 DEF TailOK
    <2>2. CASE h # g
      <3>1. ms[h] = ls[h]
        BY <2>2 DEF OneLog
      <3>2. Len(ls[h].lockq) >= 1 => ops[ls[h].lockq[1]].pc \in Queued /\ ls[h].lockq[1] \in LogOps
        <4>1. Len(ls[h].lockq) >= 1 => 1 \in Places(ls, h)
          BY StoreTypes DEF Places
        <4> QED BY <4>1, StoreTypes DEF StoreOK, Queues
      <3>3. ASSUME Len(ls[h].lockq) >= 2 PROVE ps[ls[h].lockq[1]] = ops[ls[h].lockq[1]]
        <4>1. Len(ls[h].lockq) >= 1
          BY <3>3, StoreTypes
        <4> QED BY <4>1, <3>2 DEF OneOp, Queued
      <3> QED BY <2>1, <3>1, <3>3, <1>1, <1>3 DEF NextInLine
    <2>3. CASE h = g
      <3>1. PICK i \in Places(ls, g) : ls[g].lockq[i] = p
        <4>1. ops[p].pc \in Queued /\ ops[p].gen = g
          BY <1>1, <1>3, <1>6, <2>3 DEF Queued
        <4> QED BY <4>1 DEF StoreOK, Queues
      <3>2. PICK n \in Nat : n = Len(ls[g].lockq)
        BY StoreTypes
      <3>3. n >= 1
        BY <3>1, <3>2 DEF Places
      <3>4. Len(ms[g].lockq) = n + 1 /\ \A j \in 1 .. n : ms[g].lockq[j] = ls[g].lockq[j]
        BY <3>2, StoreTypes
      <3>5. 1 \in 1 .. n /\ 1 \in Places(ls, g)
        BY <3>2, <3>3 DEF Places
      <3>6. ls[g].lockq[1] \in LogOps /\ ops[ls[g].lockq[1]].pc \in Queued
        BY <3>5, StoreTypes DEF StoreOK, Queues
      <3>7. ps[ls[g].lockq[1]] = ops[ls[g].lockq[1]] /\ ms[g].lockq[1] = ls[g].lockq[1]
        BY <3>4, <3>5, <3>6 DEF OneOp, Queued
      <3>8. CASE ls[g].lockq[1] = p
        BY <3>7, <3>8, <2>3, <1>1, <1>3 DEF NextInLine
      <3>9. CASE ls[g].lockq[1] # p
        <4>1. /\ n >= 2 /\ ls[g].lockq[2] = p
              /\ ops[ls[g].lockq[1]].pc = "writing" /\ ops[ls[g].lockq[1]].epoch < ls[g].epoch
          BY <3>2, <3>9, <2>1, <2>3, <1>3 DEF NextInLine
        <4>2. ms[g].lockq[2] = p /\ Len(ms[g].lockq) >= 2
          BY <4>1, <3>4
        <4>3. ops[ls[g].lockq[1]].epoch < ms[g].epoch
          <5>1. ls[g].epoch \in Nat
            BY StoreTypes
          <5>2. ops[ls[g].lockq[1]].epoch \in Nat
            BY <3>6 DEF StoreOK, OpType
          <5>3. ms[g].epoch \in Nat /\ ms[g].epoch >= ls[g].epoch
            OBVIOUS
          <5> QED BY ONLY <4>1, <5>1, <5>2, <5>3
        <4> QED BY <4>1, <4>2, <4>3, <3>7, <2>3, <1>1, <1>3 DEF NextInLine
      <3> QED BY <3>8, <3>9
    <2> QED BY <2>2, <2>3
  <1> QED BY <1>5, <1>6 DEF TailOK

\* Nobody joins or leaves, and nobody who writes changes.
LEMMA QuietTails ==
    ASSUME NEW f, NEW ls, NEW ops, NEW ms, NEW ps, StoreOK(ls, ops), TailsKept(f, ls, ops),
           NEW o, OneOp(ops, ps, o), ps[o] = ops[o] \/ ops[o].pc # "writing",
           \A g \in Gens(ls) : /\ ms[g].lockq = ls[g].lockq /\ ms[g].epoch = ls[g].epoch
                               /\ Len(ls[g].pending) <= Len(ms[g].pending)
                               /\ \A i \in Batched(ls, g) : ms[g].pending[i] = ls[g].pending[i],
           o \in LogOps /\ ps[o] # ops[o] /\ ps[o].next = "yes" => TailOK(f, ms, ps, o)
    PROVE  \A p \in LogOps : ps[p].next = "yes" => TailOK(f, ms, ps, p)
  <1> SUFFICES ASSUME NEW p \in LogOps, ps[p].next = "yes", ps[p] = ops[p] PROVE TailOK(f, ms, ps, p)
    BY DEF OneOp
  <1>1. ps[p] = ops[p] /\ TailOK(f, ls, ops, p)
    BY DEF TailsKept
  <1>2. ops[p].gen \in Gens(ls)
    <2>1. ops[p].kind = "rewrite"
      BY <1>1 DEF StoreOK, OpsOK, OpOK
    <2> QED BY <2>1 DEF StoreOK, OpsOK, OpOK, NoOp
  <1>3. PICK h \in Gens(ls) : h = ops[p].gen
    BY <1>2
  <1>4. \A r : InGen(ls, h, r) => InGen(ms, h, r)
    <2>1. \A i \in Batched(ls, h) : i \in Batched(ms, h) /\ ms[h].pending[i] = ls[h].pending[i]
      <3>1. Len(ls[h].pending) \in Nat /\ Len(ls[h].pending) <= Len(ms[h].pending)
        BY StoreTypes
      <3>2. PICK m \in Nat : m = Len(ls[h].pending)
        BY <3>1
      <3>3. \A i \in 1 .. m : i \in Nat /\ 1 <= i /\ i <= m
        OBVIOUS
      <3> QED BY <3>1, <3>2, <3>3 DEF Batched
    <2> QED BY <2>1 DEF InGen
  <1>5. TailIn(f, ms, ps[p])
    BY <1>1, <1>3, <1>4 DEF TailOK, TailIn
  <1>6. ASSUME ps[p].pc = "lock", ps[p].tail # {} PROVE NextInLine(ms, ps, p)
    <2>1. NextInLine(ls, ops, p)
      BY <1>1, <1>6 DEF TailOK
    <2>2. CASE ls[h].lockq[1] = p
      BY <2>2, <1>1, <1>3 DEF NextInLine
    <2>3. CASE ls[h].lockq[1] # p
      <3>1. /\ Len(ls[h].lockq) >= 2 /\ ls[h].lockq[2] = p
            /\ ops[ls[h].lockq[1]].pc = "writing" /\ ops[ls[h].lockq[1]].epoch < ls[h].epoch
        BY <2>1, <2>3, <1>3 DEF NextInLine
      <3>2. 1 \in Places(ls, h)
        BY <3>1, StoreTypes DEF Places
      <3>3. ls[h].lockq[1] \in LogOps /\ (ls[h].lockq[1] = o => ps[o] = ops[o])
        BY <3>1, <3>2, StoreTypes
      <3>4. ps[ls[h].lockq[1]] = ops[ls[h].lockq[1]]
        BY <3>3 DEF OneOp
      <3>5. ms[h].lockq = ls[h].lockq /\ ms[h].epoch = ls[h].epoch
        OBVIOUS
      <3> QED BY ONLY <3>1, <3>4, <3>5, <1>1, <1>3 DEF NextInLine
    <2> QED BY <2>2, <2>3
  <1> QED BY <1>5, <1>6 DEF TailOK

\* Whoever holds the mutex leaves; the rewrite behind it is first now.
LEMMA LeaveTails ==
    ASSUME NEW f, NEW w, NEW ls, NEW ops, NEW ms, NEW ps, StoreOK(ls, ops), TailsKept(f, ls, ops),
           NEW o \in LogOps, NEW g \in Gens(ls), OneLog(ls, ms, g), OneOp(ops, ps, o),
           ops[o].gen = g, ops[o].pc \in Active, ps[o] = NoOp,
           ms[g].lockq = Tail(ls[g].lockq), ms[g].pending = ls[g].pending,
           \A r \in Records : InFile(f, r) => InFile(w, r)
    PROVE  TailsKept(w, ms, ps)
  <1> SUFFICES ASSUME NEW p \in LogOps, ps[p].next = "yes" PROVE TailOK(w, ms, ps, p)
    BY DEF TailsKept
  <1>1. p # o /\ ps[p] = ops[p] /\ TailOK(f, ls, ops, p)
    BY DEF OneOp, TailsKept, NoOp
  <1>2. ops[p].gen \in Gens(ls)
    <2>1. ops[p].kind = "rewrite"
      BY <1>1 DEF StoreOK, OpsOK, OpOK
    <2> QED BY <2>1 DEF StoreOK, OpsOK, OpOK, NoOp
  <1>3. PICK h \in Gens(ls) : h = ops[p].gen
    BY <1>2
  <1>4. ms[h].pending = ls[h].pending
    BY DEF OneLog
  <1>5. TailIn(w, ms, ps[p])
    <2>1. \A r \in ops[p].tail : r \in Records
      BY StoreTypes DEF OpType
    <2> QED BY <2>1, <1>1, <1>3, <1>4 DEF TailOK, TailIn, InGen, Batched
  <1>6. ASSUME ps[p].pc = "lock", ps[p].tail # {} PROVE NextInLine(ms, ps, p)
    <2>1. NextInLine(ls, ops, p)
      BY <1>1, <1>6 DEF TailOK
    <2>2. CASE h # g
      <3>1. ms[h] = ls[h]
        BY <2>2 DEF OneLog
      <3>2. Len(ls[h].lockq) >= 1 => ls[h].lockq[1] \in LogOps /\ ops[ls[h].lockq[1]].gen = h
        <4>1. Len(ls[h].lockq) >= 1 => 1 \in Places(ls, h)
          BY StoreTypes DEF Places
        <4> QED BY <4>1, StoreTypes DEF StoreOK, Queues
      <3>3. ASSUME Len(ls[h].lockq) >= 2 PROVE ps[ls[h].lockq[1]] = ops[ls[h].lockq[1]]
        <4>1. Len(ls[h].lockq) >= 1
          BY <3>3, StoreTypes
        <4> QED BY <4>1, <3>2, <2>2 DEF OneOp
      <3> QED BY <2>1, <3>1, <3>3, <1>1, <1>3 DEF NextInLine
    <2>3. CASE h = g
      <3>1. ls[g].lockq[1] = o
        BY HeadIsUnique
      <3>2. Len(ls[g].lockq) >= 2 /\ ls[g].lockq[2] = p
        BY <3>1, <2>1, <2>3, <1>1, <1>3 DEF NextInLine
      <3>3. ls[g].lockq \in Seq(LogOps) /\ ls[g].lockq # <<>>
        BY <3>2, StoreTypes
      <3>4. ms[g].lockq[1] = ls[g].lockq[2]
        <4>1. Len(ls[g].lockq) \in Nat /\ \A i \in 1 .. Len(ls[g].lockq) - 1 : ms[g].lockq[i] = ls[g].lockq[i + 1]
          BY <3>3, TailOf
        <4>2. 1 \in 1 .. Len(ls[g].lockq) - 1
          BY <3>2, <4>1
        <4>3. ms[g].lockq[1] = ls[g].lockq[1 + 1]
          BY <4>1, <4>2
        <4>4. 1 + 1 = 2
          OBVIOUS
        <4> QED BY <4>3, <4>4, Zenon
      <3> QED BY <3>2, <3>4, <2>3, <1>1, <1>3 DEF NextInLine
    <2> QED BY <2>2, <2>3
  <1> QED BY <1>5, <1>6 DEF TailOK

\* The rest of the records when somebody leaves.  w is the file then,
\* cut2 whether a batch was written that stays pending.
LEMMA LeaveData ==
    ASSUME NEW f, NEW w, NEW ls, NEW ops, NEW ms, NEW ps, NEW acc, NEW gn, NEW cut, NEW cut2,
           StoreOK(ls, ops), DataOK(f, ls, ops, acc, gn, cut),
           NEW o \in LogOps, NEW g \in Gens(ls), OneLog(ls, ms, g), OneOp(ops, ps, o),
           ops[o].gen = g, ops[o].pc \in Active, ps[o] = NoOp,
           ms[g].lockq = Tail(ls[g].lockq), ms[g].pending = ls[g].pending,
           ms[g].failure = ls[g].failure \/ ms[g].failure = "yes",
           ms[g].settled = IF ops[o].kind = "release" THEN "yes" ELSE ls[g].settled,
           ops[o].kind = "release" => ms[g].failure = "yes" \/ ls[g].pending = <<>>,
           \A r \in Records : InFile(f, r) => InFile(w, r),
           Whole(w) => Whole(f),
           LinesFirst(w, ms, acc, cut2),
           acc \in 0 .. MaxRecords,
           w = f \/ ops[o].pc = "writing"
    PROVE  DataOK(w, ms, ps, acc, gn, cut2)
  <1>1. (\A h \in Gens(ls) : h # g => ms[h] = ls[h]) /\ \A p \in LogOps : p # o => ps[p] = ops[p]
    BY DEF OneLog, OneOp
  <1>2. Gens(ms) = Gens(ls)
    BY DEF OneLog, Gens
  <1>3. \A h \in Gens(ls) : /\ ms[h].pending = ls[h].pending /\ Batched(ms, h) = Batched(ls, h)
                            /\ ls[h].failure = "yes" => ms[h].failure = "yes"
    BY <1>1 DEF Batched
  <1>4. \A h \in Gens(ls) : \A r : InGen(ms, h, r) <=> InGen(ls, h, r)
    BY <1>3 DEF InGen
  <1>a. SettledIsDone(ms)
    BY <1>1, <1>2 DEF DataOK, SettledIsDone
  <1>b. PendingInOrder(ms, acc)
    BY <1>2, <1>3 DEF DataOK, PendingInOrder
  <1>c. NothingLost(w, ms, acc, gn)
    <2> SUFFICES ASSUME Whole(w)
                 PROVE  \A r \in 1 .. acc : r \in gn \/ InFile(w, r) \/ \E h \in Gens(ls) : InGen(ms, h, r)
      BY <1>2 DEF NothingLost
    <2>1. \A r \in 1 .. acc : r \in gn \/ InFile(f, r) \/ \E h \in Gens(ls) : InGen(ls, h, r)
      BY DEF DataOK, NothingLost
    <2>2. 1 .. acc \subseteq Records
      BY LogAssumption DEF Records
    <2> QED BY <2>1, <2>2, <1>4
  <1>d. CallsCover(ms, ps, acc)
    <2>1. \A op : CallOK(ls, op, acc) => CallOK(ms, op, acc)
      BY <1>2, <1>3 DEF CallOK
    <2>2. ps[o].kind # "call"
      BY DEF NoOp
    <2> QED BY <2>1, <2>2, <1>1 DEF DataOK, CallsCover
  <1>e. TailsKept(w, ms, ps)
    BY LeaveTails DEF DataOK
  <1>f. RewriteIsClean(w, ps)
    <2> SUFFICES ASSUME NEW p \in LogOps, ps[p].kind = "rewrite", ps[p].pc \in {"drain", "writing"}
                 PROVE  Clean(w)
      BY DEF RewriteIsClean
    <2>1. p # o /\ ps[p] = ops[p]
      BY <1>1 DEF NoOp
    <2>2. ops[o].pc # "writing"
      BY <2>1, OneWorker DEF DataOK, Active
    <2> QED BY <2>1, <2>2 DEF DataOK, RewriteIsClean
  <1> QED BY <1>a, <1>b, <1>c, <1>d, <1>e, <1>f DEF DataOK

\* The append was done, and what was written is no longer pending.
LEMMA WrittenData ==
    ASSUME NEW f \in Seq(Lines), NEW w \in Seq(Lines), NEW ls, NEW ops, NEW ms, NEW ps, NEW acc \in Nat, NEW gn,
           NEW cut \in BOOLEAN, StoreOK(ls, ops), DataOK(f, ls, ops, acc, gn, cut),
           NEW o \in LogOps, NEW g \in Gens(ls), OneLog(ls, ms, g), OneOp(ops, ps, o),
           ops[o].gen = g, ops[o].pc = "writing", ops[o].epoch = ls[g].epoch,
           Grown(f, w, ops[o].batch), Whole(w) \/ Clean(f) => \A i \in 1 .. Len(ops[o].batch) : InFile(w, ops[o].batch[i]),
           Clean(f) => Clean(w), acc \in 0 .. MaxRecords,
           ms[g].pending = SubSeq(ls[g].pending, Len(ops[o].batch) + 1, Len(ls[g].pending)),
           ms[g].failure = ls[g].failure, ms[g].settled = ls[g].settled, ms[g].lockq = ls[g].lockq,
           ms[g].epoch = ls[g].epoch,
           ps[o].pc = "drain", ps[o].gen = g, ps[o].kind = ops[o].kind, ps[o].next = ops[o].next,
           ps[o].tail = ops[o].tail, ps[o].upto = ops[o].upto
    PROVE  DataOK(w, ms, ps, acc, gn, cut)
  <1>1. (\A h \in Gens(ls) : h # g => ms[h] = ls[h]) /\ \A p \in LogOps : p # o => ps[p] = ops[p]
    BY DEF OneLog, OneOp
  <1>2. Gens(ms) = Gens(ls)
    BY DEF OneLog, Gens
  <1>3. PICK b : b = ops[o].batch
    OBVIOUS
  <1>4. PICK pend : pend = ls[g].pending
    OBVIOUS
  <1>5. /\ b \in Seq(Records) /\ pend \in Seq(Records) /\ Len(b) \in 0 .. Len(pend) /\ Len(pend) \in Nat
        /\ \A i \in 1 .. Len(b) : b[i] = pend[i]
        /\ ls[g].failure = "no"
    <2>1. WriteOK(ls, ops, o)
      BY DEF StoreOK, Writes
    <2>2. b \in Seq(Records) /\ pend \in Seq(Records) /\ Len(b) \in Nat /\ Len(pend) \in Nat
      BY <1>3, <1>4, StoreTypes
    <2>3. Len(b) <= Len(pend) /\ ls[g].failure = "no" /\ \A i \in 1 .. Len(b) : b[i] = pend[i]
      BY <2>1, <1>3, <1>4 DEF WriteOK
    <2> QED BY <2>2, <2>3
  <1>6. PICK n \in Nat : n = Len(b)
    BY <1>5
  <1>7. PICK rest : rest = SubSeq(pend, n + 1, Len(pend))
    OBVIOUS
  <1>8. /\ rest \in Seq(Records) /\ Len(rest) = Len(pend) - n
        /\ \A i \in 1 .. Len(pend) - n : rest[i] = pend[n + i]
    BY <1>5, <1>6, <1>7, FrontAndRest
  <1>9. /\ ms[g].pending = rest /\ ms[g].failure = "no" /\ ms[g].settled = ls[g].settled
        /\ ms[g].lockq = ls[g].lockq /\ ms[g].epoch = ls[g].epoch
    BY <1>3, <1>4, <1>5, <1>6, <1>7
  <1>10. /\ ps[o].pc = "drain" /\ ps[o].gen = g /\ ps[o].kind = ops[o].kind /\ ps[o].next = ops[o].next
         /\ ps[o].tail = ops[o].tail /\ ps[o].upto = ops[o].upto
    OBVIOUS
  <1>11. /\ \A i \in Batched(ms, g) : n + i \in Batched(ls, g) /\ rest[i] = pend[n + i] /\ i \in Nat /\ i >= 1
         /\ \A i \in Batched(ls, g) : i \in 1 .. n \/ (i - n \in Batched(ms, g) /\ rest[i - n] = pend[i])
    <2>1. Batched(ms, g) = 1 .. Len(pend) - n /\ Batched(ls, g) = 1 .. Len(pend)
      BY <1>4, <1>8, <1>9 DEF Batched
    <2>2. \A i \in 1 .. Len(pend) - n : n + i \in 1 .. Len(pend)
      BY <1>5
    <2>3. \A i \in 1 .. Len(pend) : i \in 1 .. n \/ (i - n \in 1 .. Len(pend) - n /\ n + (i - n) = i)
      BY <1>5
    <2>4. \A i \in 1 .. Len(pend) - n : i \in Nat /\ i >= 1
      BY <1>5
    <2> QED BY <2>1, <2>2, <2>3, <2>4, <1>8
  <1>12. \A h \in Gens(ls) : h # g => Batched(ms, h) = Batched(ls, h)
    BY <1>1 DEF Batched
  <1>13. Grown(f, w, b) /\ (Whole(w) => \A i \in 1 .. n : InFile(w, b[i]))
         /\ (Clean(f) => Clean(w) /\ \A i \in 1 .. n : InFile(w, b[i]))
    BY <1>3, <1>5, <1>6, WrittenGrows
  <1>14. SettledIsDone(ls) /\ PendingInOrder(ls, acc) /\ LinesFirst(f, ls, acc, cut) /\ NothingLost(f, ls, acc, gn)
         /\ CallsCover(ls, ops, acc) /\ TailsKept(f, ls, ops) /\ RewriteIsClean(f, ops)
    BY DEF DataOK
  <1>15. ls[g].settled # "yes"
    BY <1>14, WorkerNotSettled DEF Active
  <1>16. \A h \in Gens(ls) : h < g => ls[h].failure = "yes" \/ ls[h].pending = <<>>
    BY <1>14 DEF StoreOK, Releases, SettledIsDone, Active
  <1>17. \A i \in 1 .. Len(pend) : pend[i] \in Records /\ pend[i] \in Nat /\ pend[i] > 0
    BY <1>5, LineKinds
  <1>18. \A r \in Records, h \in Gens(ls) : InGen(ls, h, r) => InGen(ms, h, r) \/ (h = g /\ \E i \in 1 .. n : b[i] = r)
    <2> SUFFICES ASSUME NEW r \in Records, NEW h \in Gens(ls), NEW i \in Batched(ls, h), ls[h].pending[i] = r
                 PROVE  InGen(ms, h, r) \/ (h = g /\ \E j \in 1 .. n : b[j] = r)
      BY DEF InGen
    <2>1. CASE h # g
      BY <2>1, <1>1, <1>12 DEF InGen
    <2>2. CASE h = g
      <3>1. i \in Batched(ls, g) /\ pend[i] = r
        BY <2>2, <1>4
      <3>2. CASE i \in 1 .. n
        BY <2>2, <3>1, <3>2, <1>5, <1>6
      <3>3. CASE i - n \in Batched(ms, g) /\ rest[i - n] = pend[i]
        BY <2>2, <3>1, <3>3, <1>9 DEF InGen
      <3> QED BY <3>1, <3>2, <3>3, <1>11
    <2> QED BY <2>1, <2>2
  <1>a. SettledIsDone(ms)
    <2>1. \A h \in Gens(ls) : ms[h].settled = "yes" => h # g /\ ms[h] = ls[h]
      BY <1>1, <1>9, <1>15
    <2> QED BY <2>1, <1>2, <1>14 DEF SettledIsDone
  <1>b. PendingInOrder(ms, acc)
    <2>1. ASSUME NEW h \in Gens(ls), NEW i \in Batched(ms, h) PROVE ms[h].pending[i] <= acc
      <3>1. CASE h # g
        BY <3>1, <1>1, <1>12, <1>14 DEF PendingInOrder
      <3>2. CASE h = g
        <4>1. n + i \in Batched(ls, g) /\ ms[h].pending[i] = ls[g].pending[n + i]
          BY <3>2, <1>4, <1>9, <1>11
        <4> QED BY <4>1, <1>14 DEF PendingInOrder
      <3> QED BY <3>1, <3>2
    <2>2. ASSUME NEW h \in Gens(ls), NEW i \in Batched(ms, h), NEW j \in Batched(ms, h), i < j
          PROVE  ms[h].pending[i] < ms[h].pending[j]
      <3>1. CASE h # g
        BY <3>1, <2>2, <1>1, <1>12, <1>14 DEF PendingInOrder
      <3>2. CASE h = g
        <4>1. n + i < n + j /\ n + i \in Batched(ls, g) /\ n + j \in Batched(ls, g)
          BY <3>2, <2>2, <1>11
        <4>2. ls[g].pending[n + i] < ls[g].pending[n + j]
          BY <4>1, <1>14 DEF PendingInOrder
        <4> QED BY <3>2, <4>2, <1>4, <1>9, <1>11
      <3> QED BY <3>1, <3>2
    <2>3. ASSUME NEW h \in Gens(ls), NEW k \in Gens(ls), h < k, NEW i \in Batched(ms, h), NEW j \in Batched(ms, k)
          PROVE  ms[h].pending[i] < ms[k].pending[j]
      <3>1. \A x \in Gens(ls) : \A y \in Batched(ms, x) :
               \E z \in Batched(ls, x) : ms[x].pending[y] = ls[x].pending[z]
        <4> SUFFICES ASSUME NEW x \in Gens(ls), NEW y \in Batched(ms, x)
                     PROVE  \E z \in Batched(ls, x) : ms[x].pending[y] = ls[x].pending[z]
          OBVIOUS
        <4>1. CASE x # g
          BY <4>1, <1>1, <1>12
        <4>2. CASE x = g
          BY <4>2, <1>4, <1>9, <1>11
        <4> QED BY <4>1, <4>2
      <3>2. PICK y \in Batched(ls, h) : ms[h].pending[i] = ls[h].pending[y]
        BY <3>1
      <3>3. PICK z \in Batched(ls, k) : ms[k].pending[j] = ls[k].pending[z]
        BY <3>1
      <3> QED BY <3>2, <3>3, <2>3, <1>14 DEF PendingInOrder
    <2> QED BY <1>2, <2>1, <2>2, <2>3 DEF PendingInOrder
  <1>c. LinesFirst(w, ms, acc, cut)
    <2>0. /\ Rising(b) /\ (\A i \in 1 .. n : b[i] <= acc)
          /\ ~cut => Rising(f) /\ \A i \in 1 .. Len(f), j \in 1 .. n : f[i] < b[j]
      BY <1>3, <1>6, <1>14, BatchRises
    <2>1. \A i \in 1 .. Len(w) : w[i] \in Int /\ (~(w[i] > 0) \/ InFile(f, w[i]) \/ InFile(b, w[i]))
      <3>1. \A i \in 1 .. Len(w) : w[i] \in Lines
        OBVIOUS
      <3> QED BY <3>1, <1>13, LineKinds DEF Grown
    <2>2. ASSUME NEW i \in 1 .. Len(w) PROVE w[i] <= acc
      <3>1. CASE ~(w[i] > 0)
        BY <3>1, <2>1
      <3>2. CASE InFile(f, w[i])
        BY <3>2, <1>14 DEF InFile, LinesFirst
      <3>3. CASE InFile(b, w[i])
        BY <3>3, <2>0, <1>6 DEF InFile
      <3> QED BY <3>1, <3>2, <3>3, <2>1
    <2>3. ASSUME ~cut PROVE Rising(w)
      BY <2>0, <2>3, <1>6, <1>13 DEF Grown
    <2>4. ASSUME ~cut, NEW h \in Gens(ls), ms[h].failure = "no", NEW i \in 1 .. Len(w), NEW j \in Batched(ms, h)
          PROVE  w[i] < ms[h].pending[j]
      <3>1. PICK z \in Batched(ls, h) : ms[h].pending[j] = ls[h].pending[z] /\ (h = g => z > n)
        <4>1. CASE h # g
          BY <4>1, <1>1, <1>12
        <4>2. CASE h = g
          <5>1. n + j \in Batched(ls, g) /\ rest[j] = pend[n + j] /\ n + j > n
            BY <4>2, <1>11
          <5> QED BY <4>2, <5>1, <1>4, <1>9
        <4> QED BY <4>1, <4>2
      <3>2. ls[h].failure = "no" /\ ls[h].pending # <<>> /\ ls[h].pending[z] \in Records
        <4>1. ls[h].failure = "no"
          BY <2>4, <1>1, <1>5
        <4>2. Len(ls[h].pending) \in Nat /\ Len(ls[h].pending) >= 1
          BY StoreTypes DEF Batched
        <4>3. ls[h].pending # <<>>
          BY <4>2
        <4> QED BY <4>1, <4>3, StoreTypes
      <3>3. ~(h < g)
        BY <3>2, <1>16
      <3>4. CASE ~(w[i] > 0)
        BY <3>1, <3>2, <3>4, <2>1, LineKinds
      <3>5. CASE InFile(f, w[i])
        BY <3>1, <3>2, <3>5, <2>4, <1>14 DEF InFile, LinesFirst
      <3>6. CASE InFile(b, w[i])
        <4>1. PICK x \in 1 .. n : b[x] = w[i]
          BY <3>6, <1>6 DEF InFile
        <4>2. x \in Batched(ls, g) /\ ls[g].pending[x] = w[i]
          BY <4>1, <1>4, <1>5, <1>6 DEF Batched
        <4>3. CASE h = g
          <5>1. x < z
            BY <4>3, <3>1, StoreTypes DEF Batched
          <5> QED BY <5>1, <4>2, <4>3, <3>1, <1>14 DEF PendingInOrder
        <4>4. CASE h # g
          <5>1. g < h
            BY <4>4, <3>3, StoreTypes
          <5> QED BY <5>1, <4>2, <3>1, <1>14 DEF PendingInOrder
        <4> QED BY <4>3, <4>4
      <3> QED BY <3>4, <3>5, <3>6, <2>1
    <2> QED BY <1>2, <2>2, <2>3, <2>4 DEF LinesFirst
  <1>d. NothingLost(w, ms, acc, gn)
    <2> SUFFICES ASSUME Whole(w)
                 PROVE  \A r \in 1 .. acc : r \in gn \/ InFile(w, r) \/ \E h \in Gens(ls) : InGen(ms, h, r)
      BY <1>2 DEF NothingLost
    <2>1. \A r \in 1 .. acc : r \in gn \/ InFile(f, r) \/ \E h \in Gens(ls) : InGen(ls, h, r)
      BY <1>13, <1>14 DEF NothingLost, Grown
    <2>2. \A r \in 1 .. acc : r \in Records
      BY LogAssumption DEF Records
    <2>3. \A r \in Records : InFile(f, r) => InFile(w, r)
      BY <1>13 DEF Grown
    <2>4. \A i \in 1 .. n : InFile(w, b[i])
      BY <1>13
    <2>5. \A r \in Records, h \in Gens(ls) : InGen(ls, h, r) => InGen(ms, h, r) \/ (h = g /\ InFile(w, r))
      BY <2>4, <1>18
    <2> QED BY <2>1, <2>2, <2>3, <2>5
  <1>e. CallsCover(ms, ps, acc)
    <2> SUFFICES ASSUME NEW p \in LogOps, ps[p].kind = "call" PROVE CallOK(ms, ps[p], acc)
      BY DEF CallsCover
    <2>1. ops[p].kind = "call" /\ ps[p].upto = ops[p].upto /\ ps[p].gen = ops[p].gen
      BY <1>1, <1>10
    <2>2. CallOK(ls, ops[p], acc)
      BY <2>1, <1>14 DEF CallsCover
    <2>3. ps[p].pc = "writing" => ps[p] = ops[p] /\ ops[p].gen # g
      <3>1. ps[p].pc = "writing" => p # o
        BY <1>10
      <3> QED BY <3>1, <1>1, HeadIsUnique DEF Active
    <2>4. ASSUME NEW h \in Gens(ls), NEW i \in Batched(ms, h), ms[h].pending[i] <= ps[p].upto
          PROVE  h <= ps[p].gen /\ (ps[p].pc = "writing" /\ h = ps[p].gen => i <= Len(ps[p].batch))
      <3>1. CASE h # g
        BY <3>1, <2>1, <2>2, <2>3, <2>4, <1>1, <1>12 DEF CallOK
      <3>2. CASE h = g
        <4>1. n + i \in Batched(ls, g) /\ ls[g].pending[n + i] = ms[g].pending[i]
          BY <3>2, <1>4, <1>9, <1>11
        <4>2. g <= ops[p].gen
          BY <4>1, <3>2, <2>1, <2>2, <2>4 DEF CallOK
        <4> QED BY <4>2, <3>2, <2>1, <2>3
      <3> QED BY <3>1, <3>2
    <2> QED BY <1>2, <2>1, <2>2, <2>4 DEF CallOK
  <1>f. TailsKept(w, ms, ps)
    <2> SUFFICES ASSUME NEW p \in LogOps, ps[p].next = "yes" PROVE TailOK(w, ms, ps, p)
      BY DEF TailsKept
    <2>1. ops[p].next = "yes" /\ ops[p].kind = "rewrite" /\ ps[p].gen = ops[p].gen /\ ps[p].tail = ops[p].tail
      <3>1. ops[p].next = "yes" /\ ps[p].gen = ops[p].gen /\ ps[p].tail = ops[p].tail
        BY <1>1, <1>10
      <3> QED BY <3>1 DEF StoreOK, OpsOK, OpOK
    <2>2. TailOK(f, ls, ops, p) /\ ops[p].gen \in Gens(ls) /\ ops[p].tail \subseteq Records
      <3>1. TailOK(f, ls, ops, p)
        BY <2>1, <1>14 DEF TailsKept
      <3>2. ops[p].gen \in Gens(ls)
        BY <2>1 DEF StoreOK, OpsOK, OpOK, NoOp
      <3>3. ops[p].tail \subseteq Records
        BY StoreTypes DEF OpType
      <3> QED BY <3>1, <3>2, <3>3
    <2>3. \A r \in Records : InFile(f, r) => InFile(w, r)
      BY <1>13 DEF Grown
    <2>4. CASE p = o
      <3>1. Clean(f)
        BY <2>1, <2>4, <1>14 DEF RewriteIsClean
      <3>2. \A i \in 1 .. n : InFile(w, b[i])
        BY <3>1, <1>13
      <3>3. ASSUME NEW r \in ops[o].tail PROVE InGen(ms, g, r) \/ InFile(w, r)
        <4>1. r \in Records /\ (InGen(ls, g, r) \/ InFile(f, r))
          BY <3>3, <2>2, <2>4 DEF TailOK, TailIn
        <4> QED BY <4>1, <3>2, <2>3, <1>18
      <3> QED BY <3>3, <2>1, <2>4, <1>10 DEF TailOK, TailIn
    <2>5. CASE p # o
      <3>1. ps[p] = ops[p]
        BY <2>5, <1>1
      <3>2. ASSUME ops[p].gen = g, ops[p].pc = "lock" PROVE ops[p].tail = {}
        <4>1. ls[g].lockq[1] = o /\ ops[o].epoch \in Nat
          BY HeadIsUnique, StoreTypes DEF Active
        <4>2. ~(ops[o].epoch < ls[g].epoch)
          BY <4>1
        <4>3. ~NextInLine(ls, ops, p)
          BY <4>1, <4>2, <3>2, <2>5 DEF NextInLine
        <4> QED BY <4>3, <3>2, <2>2 DEF TailOK
      <3>3. ASSUME ops[p].gen = g PROVE ops[p].pc = "lock"
        <4>1. ops[p].pc \notin Active
          BY <3>3, <2>5, HeadIsUnique DEF Active
        <4>2. ops[p].pc \notin {"idle", "spawned"}
          <5>1. OpOK(ls, ops[p]) /\ ops[p].kind = "rewrite"
            BY <2>1 DEF StoreOK, OpsOK, OpOK
          <5> QED BY <5>1 DEF OpOK, NoOp
        <4>3. ops[p].pc \in {"idle", "spawned", "lock", "drain", "writing", "replacing"}
          BY StoreTypes DEF OpType
        <4> QED BY <4>1, <4>2, <4>3 DEF Active
      <3>4. CASE ops[p].gen = g
        BY <3>1, <3>2, <3>3, <3>4 DEF TailOK, TailIn
      <3>5. CASE ops[p].gen # g
        <4>1. ms[ops[p].gen] = ls[ops[p].gen]
          BY <3>5, <2>2, <1>1
        <4>2. TailIn(w, ms, ps[p])
          <5>1. \A r : InGen(ls, ops[p].gen, r) => InGen(ms, ops[p].gen, r)
            BY ONLY <4>1 DEF InGen, Batched
          <5>2. TailIn(f, ls, ops[p])
            BY <2>2 DEF TailOK
          <5> QED BY ONLY <5>1, <5>2, <3>1, <2>2, <2>3 DEF TailIn
        <4>3. ASSUME Len(ls[ops[p].gen].lockq) >= 2 PROVE ps[ls[ops[p].gen].lockq[1]] = ops[ls[ops[p].gen].lockq[1]]
          <5>1. 1 \in Places(ls, ops[p].gen)
            BY <4>3, <2>2, StoreTypes DEF Places
          <5>2. ls[ops[p].gen].lockq[1] \in LogOps /\ ops[ls[ops[p].gen].lockq[1]].gen = ops[p].gen
            <6>1. ls[ops[p].gen].lockq[1] \in LogOps
              BY <5>1, <2>2, StoreTypes
            <6>2. ops[ls[ops[p].gen].lockq[1]].gen = ops[p].gen
              BY <5>1, <2>2 DEF StoreOK, Queues
            <6> QED BY <6>1, <6>2
          <5> QED BY <5>2, <3>5, <1>1
        <4>4. NextInLine(ls, ops, p) => NextInLine(ms, ps, p)
          <5>1. PICK q : q = ls[ops[p].gen].lockq
            OBVIOUS
          <5>2. ms[ps[p].gen].lockq = q /\ ms[ps[p].gen].epoch = ls[ops[p].gen].epoch
            BY <5>1, <4>1, <3>1
          <5>3. Len(q) >= 2 => ps[q[1]] = ops[q[1]]
            BY <5>1, <4>3
          <5>4. NextInLine(ls, ops, p) =>
                   \/ q[1] = p
                   \/ Len(q) >= 2 /\ q[2] = p /\ ops[q[1]].pc = "writing" /\ ops[q[1]].epoch < ls[ops[p].gen].epoch
            BY <5>1 DEF NextInLine
          <5>5. (\/ q[1] = p
                 \/ Len(q) >= 2 /\ q[2] = p /\ ps[q[1]].pc = "writing" /\ ps[q[1]].epoch < ms[ps[p].gen].epoch)
                => NextInLine(ms, ps, p)
            BY <5>2 DEF NextInLine
          <5> QED BY <5>2, <5>3, <5>4, <5>5
        <4> QED BY <4>2, <4>4, <3>1, <2>2 DEF TailOK
      <3> QED BY <3>4, <3>5
    <2> QED BY <2>4, <2>5
  <1>g. RewriteIsClean(w, ps)
    <2> SUFFICES ASSUME NEW p \in LogOps, ps[p].kind = "rewrite", ps[p].pc \in {"drain", "writing"}
                 PROVE  Clean(w)
      BY DEF RewriteIsClean
    <2>1. ops[p].kind = "rewrite" /\ ops[p].pc \in {"drain", "writing"}
      BY <1>1, <1>10
    <2> QED BY <2>1, <1>13, <1>14 DEF RewriteIsClean
  <1> QED BY <1>a, <1>b, <1>c, <1>d, <1>e, <1>f, <1>g DEF DataOK

-----------------------------------------------------------------------------
(***************************************************************************)
(* The actions.                                                            *)
(***************************************************************************)
LEMMA OneLogIs ==
    ASSUME NEW ls \in Seq(LogType), NEW g \in Gens(ls), NEW x \in LogType, NEW ms, ms = [ls EXCEPT ![g] = x]
    PROVE  OneLog(ls, ms, g) /\ ms[g] = x /\ Gens(ms) = Gens(ls)
  <1>1. ms \in Seq(LogType) /\ Len(ms) = Len(ls)
    BY DEF Gens
  <1>2. ms[g] = x /\ \A h \in Gens(ls) : h # g => ms[h] = ls[h]
    BY DEF Gens
  <1> QED BY <1>1, <1>2 DEF OneLog, Gens

\* One entry of the task table is replaced.
LEMMA OneOpIs ==
    ASSUME NEW ops \in [LogOps -> OpType], NEW o \in LogOps, NEW x \in OpType, NEW ps, ps = [ops EXCEPT ![o] = x]
    PROVE  OneOp(ops, ps, o) /\ ps[o] = x
  BY DEF OneOp

\* Only what an action touches has to be looked at.
LEMMA AdmissionStays ==
    ASSUME NEW adm, NEW ls, NEW ms, AdmissionOK(adm, ls), Gens(ls) \subseteq Gens(ms)
    PROVE  AdmissionOK(adm, ms)
  BY DEF AdmissionOK

\* A new generation is empty.
LEMMA GrowData ==
    ASSUME NEW f, NEW ls, NEW ops, NEW ms, NEW acc, NEW gn, NEW cut, StoreOK(ls, ops), StoreOK(ms, ops),
           DataOK(f, ls, ops, acc, gn, cut),
           Len(ms) = Len(ls) + 1, ms[Len(ms)] = NewLog, \A g \in Gens(ls) : ms[g] = ls[g]
    PROVE  DataOK(f, ms, ops, acc, gn, cut)
  <1>1. PICK n \in Nat : n = Len(ls)
    BY StoreTypes
  <1>2. /\ Gens(ls) = 1 .. n /\ Gens(ms) = 1 .. n + 1 /\ ms[n + 1] = NewLog
        /\ \A g \in Gens(ms) : g \in Gens(ls) \/ g = n + 1
    BY <1>1 DEF Gens
  <1>3. \A g \in Gens(ls) : g \in Gens(ms) /\ ms[g] = ls[g] /\ Batched(ms, g) = Batched(ls, g)
    BY <1>2 DEF Batched
  <1>4. Batched(ms, n + 1) = {} /\ ms[n + 1].settled = "no"
    BY <1>2 DEF Batched, NewLog
  <1>5. \A g \in Gens(ms) : \A i \in Batched(ms, g) : g \in Gens(ls) /\ i \in Batched(ls, g)
                                                     /\ ms[g].pending[i] = ls[g].pending[i]
    BY <1>2, <1>3, <1>4
  <1>a. SettledIsDone(ms)
    BY <1>2, <1>3, <1>4 DEF DataOK, SettledIsDone
  <1>b. PendingInOrder(ms, acc)
    BY <1>5 DEF DataOK, PendingInOrder
  <1>c. LinesFirst(f, ms, acc, cut)
    BY <1>3, <1>5 DEF DataOK, LinesFirst
  <1>d. NothingLost(f, ms, acc, gn)
    <2>1. \A g \in Gens(ls) : \A r : InGen(ls, g, r) => g \in Gens(ms) /\ InGen(ms, g, r) /\ ms[g].failure = ls[g].failure
      BY <1>3 DEF InGen
    <2> QED BY <2>1 DEF DataOK, NothingLost
  <1>e. CallsCover(ms, ops, acc)
    BY <1>5 DEF DataOK, CallsCover, CallOK
  <1>f. TailsKept(f, ms, ops)
    <2> SUFFICES ASSUME NEW o \in LogOps, ops[o].next = "yes" PROVE TailOK(f, ms, ops, o)
      BY DEF TailsKept
    <2>1. ops[o].gen \in Gens(ls)
      <3>1. ops[o].kind = "rewrite"
        BY DEF StoreOK, OpsOK, OpOK
      <3> QED BY <3>1 DEF StoreOK, OpsOK, OpOK, NoOp
    <2>2. TailOK(f, ls, ops, o)
      BY DEF DataOK, TailsKept
    <2>3. ms[ops[o].gen] = ls[ops[o].gen]
      BY <2>1, <1>3
    <2> QED BY <2>2, <2>3 DEF TailOK, TailIn, InGen, Batched, NextInLine
  <1>g. RewriteIsClean(f, ops)
    BY DEF DataOK
  <1> QED BY <1>a, <1>b, <1>c, <1>d, <1>e, <1>f, <1>g DEF DataOK

\* state(), whether or not it makes a generation.
LEMMA StateStep ==
    ASSUME LogInv
    PROVE  /\ StoreOK(StateLogs, logOps) /\ AdmissionOK(admission, StateLogs)
           /\ Len(StateLogs) \in Gens(StateLogs) /\ StateLogs[Len(StateLogs)].retired = "no"
           /\ "latePush" \notin disturbed =>
                 DataOK(lines, StateLogs, logOps, accepted, gone, "cutover" \in disturbed)
  <1>1. PICK ms : ms = StateLogs
    OBVIOUS
  <1>2. logs \in Seq(LogType) /\ StoreOK(logs, logOps)
    BY DEF LogInv, StoreOK
  <1>3. CASE InUse
    <2>1. ms = logs /\ logs # <<>> /\ logs[Len(logs)].retired = "no"
      BY <1>1, <1>3 DEF StateLogs, InUse, Last
    <2>2. Len(logs) \in Gens(logs)
      BY <1>2, <2>1 DEF Gens
    <2> QED BY <1>1, <2>1, <2>2 DEF LogInv
  <1>4. CASE ~InUse
    <2>1. ms = Append(logs, NewLog) /\ (logs = <<>> \/ logs[Len(logs)].retired = "yes")
      <3>1. logs # <<>> => logs[Len(logs)] \in LogType
        BY <1>2
      <3> QED BY <3>1, <1>1, <1>4 DEF StateLogs, InUse, Last, LogType
    <2>2. StoreOK(ms, logOps) /\ Len(ms) = Len(logs) + 1 /\ ms[Len(ms)] = NewLog /\ \A g \in Gens(logs) : ms[g] = logs[g]
      <3>1. StoreOK(ms, logOps) /\ Len(ms) = Len(logs) + 1 /\ ms[Len(ms)] = NewLog
        BY <1>2, <2>1, GrowStep
      <3>2. \A g \in Gens(logs) : ms[g] = logs[g]
        BY <1>2, <2>1 DEF Gens
      <3> QED BY <3>1, <3>2
    <2>3. Len(ms) \in Gens(ms) /\ Gens(logs) \subseteq Gens(ms) /\ ms[Len(ms)].retired = "no"
      BY <1>2, <2>2 DEF Gens, NewLog
    <2>4. AdmissionOK(admission, ms)
      BY <2>3, AdmissionStays DEF LogInv
    <2>5. "latePush" \notin disturbed =>
             DataOK(lines, ms, logOps, accepted, gone, "cutover" \in disturbed)
      BY <1>2, <2>2, GrowData DEF LogInv
    <2> QED BY <1>1, <2>2, <2>3, <2>4, <2>5
  <1> QED BY <1>3, <1>4

\* Nothing is open and nobody works.
LEMMA EmptyStore ==
    ASSUME NEW ls, NEW ops, ls = <<>>, ops = [o \in LogOps |-> NoOp]
    PROVE  /\ StoreOK(ls, ops)
           /\ \A f, acc, gn, cut :
                 LinesFirst(f, ls, acc, cut) /\ NothingLost(f, ls, acc, gn) => DataOK(f, ls, ops, acc, gn, cut)
  <1>1. Len(ls) = 0 /\ Gens(ls) = {} /\ ls \in Seq(LogType)
    BY DEF Gens
  <1>2. \A o \in LogOps : ops[o] = NoOp
    OBVIOUS
  <1>3. NoOp \in OpType
    BY LogAssumption DEF NoOp, OpType
  <1>4. StoreOK(ls, ops)
    BY <1>1, <1>2, <1>3 DEF StoreOK, OpsOK, OpOK, Queues, Writes, Flushes, Releases, NoOp, Queued, Active
  <1>5. SettledIsDone(ls) /\ \A acc : PendingInOrder(ls, acc)
    BY <1>1 DEF SettledIsDone, PendingInOrder
  <1>6. \A f, acc : CallsCover(ls, ops, acc) /\ TailsKept(f, ls, ops) /\ RewriteIsClean(f, ops)
    BY <1>2 DEF CallsCover, TailsKept, RewriteIsClean, NoOp
  <1> QED BY <1>4, <1>5, <1>6 DEF DataOK

\* The store is created with no generation and no task.
LEMMA LogInvInit == LogInit => LogInv
  <1> SUFFICES ASSUME LogInit PROVE LogInv
    OBVIOUS
  <1>1. logs = <<>> /\ Len(logs) = 0 /\ Gens(logs) = {} /\ lines = <<>> /\ Len(lines) = 0 /\ accepted = 0
        /\ acked = {} /\ logOps = [o \in LogOps |-> NoOp]
    BY DEF LogInit, Gens
  <1>2. HistoryOK /\ AdmissionOK(admission, logs)
    BY <1>1, LogAssumption DEF LogInit, HistoryOK, AdmissionOK, NoAdmission
  <1>3. LinesFirst(lines, logs, accepted, "cutover" \in disturbed) /\ NothingLost(lines, logs, accepted, gone)
    BY <1>1 DEF LinesFirst, Rising, NothingLost
  <1>4. StoreOK(logs, logOps) /\ DataOK(lines, logs, logOps, accepted, gone, "cutover" \in disturbed)
    BY <1>1, <1>3, EmptyStore
  <1> QED BY <1>2, <1>4 DEF LogInv

\* The first half of append and of acquire: a generation is found or created.
LEMMA AdmitKeeps ==
    ASSUME LogInv, NEW kind \in {"append", "acquire"}, NEW cost, Admit(kind, cost) PROVE LogInv'
  <1>1. /\ logs' = StateLogs /\ admission' = [kind |-> kind, gen |-> Len(StateLogs)]
        /\ UNCHANGED <<lines, logOps, accepted, acked, gone, disturbed>>
    BY DEF Admit, history
  <1>2. StoreOK(logs', logOps') /\ ("latePush" \notin disturbed' =>
            DataOK(lines', logs', logOps', accepted', gone', "cutover" \in disturbed'))
    BY <1>1, StateStep
  <1>3. Len(StateLogs) \in Gens(logs') /\ Len(logs') \in Nat
    BY <1>1, <1>2, StateStep, StoreTypes
  <1>4. AdmissionOK(admission', logs')
    BY <1>1, <1>3 DEF AdmissionOK
  <1>5. HistoryOK'
    BY <1>1 DEF LogInv, HistoryOK
  <1> QED BY <1>2, <1>4, <1>5 DEF LogInv

\* A record is pushed to the last generation.
LEMMA PushData ==
    ASSUME NEW f \in Seq(Lines), NEW ls, NEW ops, NEW ms, NEW ps, NEW acc \in Nat, NEW gn, NEW cut,
           StoreOK(ls, ops), StoreOK(ms, ps), DataOK(f, ls, ops, acc, gn, cut),
           NEW o, NEW g \in Gens(ls), OneLog(ls, ms, g), OneOp(ops, ps, o), acc + 1 \in Records,
           g = Len(ls), ls[g].settled # "yes", ms[g].settled = ls[g].settled, ms[g].failure = ls[g].failure,
           ms[g].lockq = ls[g].lockq, ms[g].epoch = ls[g].epoch, ms[g].pending = Append(ls[g].pending, acc + 1),
           ps[o] = ops[o] \/ (ops[o].pc = "idle" /\ ps[o].kind = "flush" /\ ps[o].next = "no")
    PROVE  DataOK(f, ms, ps, acc + 1, gn, cut)
  <1>1. (\A h \in Gens(ls) : h # g => ms[h] = ls[h]) /\ \A p \in LogOps : p # o => ps[p] = ops[p]
    BY DEF OneLog, OneOp
  <1>2. Gens(ms) = Gens(ls)
    BY DEF OneLog, Gens
  <1>3. PICK n \in Nat : n = Len(ls[g].pending)
    BY StoreTypes
  <1>4. /\ Len(ms[g].pending) = n + 1 /\ ms[g].pending[n + 1] = acc + 1
        /\ \A i \in 1 .. n : ms[g].pending[i] = ls[g].pending[i]
    BY <1>3, StoreTypes
  <1>5. /\ Batched(ls, g) = 1 .. n /\ Batched(ms, g) = 1 .. n + 1
        /\ \A i \in Batched(ms, g) : i \in Batched(ls, g) \/ i = n + 1
    BY <1>3, <1>4 DEF Batched
  <1>6. \A h \in Gens(ls) : h # g => Batched(ms, h) = Batched(ls, h)
    BY <1>1 DEF Batched
  <1>7. \A h \in Gens(ls) : \A i \in Batched(ms, h) :
           \/ i \in Batched(ls, h) /\ ms[h].pending[i] = ls[h].pending[i]
           \/ h = g /\ i = n + 1 /\ ms[h].pending[i] = acc + 1
    <2> SUFFICES ASSUME NEW h \in Gens(ls), NEW i \in Batched(ms, h)
                 PROVE  \/ i \in Batched(ls, h) /\ ms[h].pending[i] = ls[h].pending[i]
                        \/ h = g /\ i = n + 1 /\ ms[h].pending[i] = acc + 1
      OBVIOUS
    <2>1. CASE h # g
      BY <2>1, <1>1, <1>6
    <2>2. CASE h = g
      BY <2>2, <1>4, <1>5
    <2> QED BY <2>1, <2>2
  <1>8. \A h \in Gens(ls) : /\ ms[h].settled = ls[h].settled /\ ms[h].failure = ls[h].failure
                            /\ ms[h].lockq = ls[h].lockq /\ ms[h].epoch = ls[h].epoch
                            /\ \A i \in Batched(ls, h) : i \in Batched(ms, h) /\ ms[h].pending[i] = ls[h].pending[i]
    <2> SUFFICES ASSUME NEW h \in Gens(ls)
                 PROVE  /\ ms[h].settled = ls[h].settled /\ ms[h].failure = ls[h].failure
                        /\ ms[h].lockq = ls[h].lockq /\ ms[h].epoch = ls[h].epoch
                        /\ \A i \in Batched(ls, h) : i \in Batched(ms, h) /\ ms[h].pending[i] = ls[h].pending[i]
      OBVIOUS
    <2>1. CASE h # g
      BY <2>1, <1>1, <1>6
    <2>2. CASE h = g
      <3>1. \A i \in 1 .. n : i \in 1 .. n + 1
        OBVIOUS
      <3> QED BY <2>2, <3>1, <1>4, <1>5
    <2> QED BY <2>1, <2>2
  <1>9. SettledIsDone(ls) /\ PendingInOrder(ls, acc) /\ LinesFirst(f, ls, acc, cut) /\ NothingLost(f, ls, acc, gn)
        /\ CallsCover(ls, ops, acc) /\ TailsKept(f, ls, ops) /\ RewriteIsClean(f, ops)
    BY DEF DataOK
  <1>10. /\ \A h \in Gens(ls) : h \in Nat /\ h <= g /\ \A i \in Batched(ls, h) : ls[h].pending[i] \in Nat /\ i \in Nat
         /\ \A i \in 1 .. Len(f) : f[i] \in Int
    <2>1. \A h \in Gens(ls) : h \in Nat /\ h <= g
      BY StoreTypes
    <2>2. \A h \in Gens(ls) : \A i \in Batched(ls, h) : ls[h].pending[i] \in Nat /\ i \in Nat
      <3>1. \A h \in Gens(ls) : \A i \in Batched(ls, h) : ls[h].pending[i] \in Records
        BY StoreTypes
      <3>2. \A h \in Gens(ls) : Len(ls[h].pending) \in Nat
        BY StoreTypes
      <3>3. \A h \in Gens(ls) : \A i \in Batched(ls, h) : i \in Nat
        BY <3>2 DEF Batched
      <3> QED BY <3>1, <3>3, LineKinds
    <2>3. \A i \in 1 .. Len(f) : f[i] \in Int
      BY LineKinds
    <2> QED BY <2>1, <2>2, <2>3
  <1>a. SettledIsDone(ms)
    <2>1. \A h \in Gens(ls) : ms[h].settled = "yes" => h # g /\ ms[h] = ls[h]
      BY <1>1
    <2> QED BY <2>1, <1>2, <1>9 DEF SettledIsDone
  <1>b. PendingInOrder(ms, acc + 1)
    <2>0. \A h \in Gens(ls) : \A i \in Batched(ls, h) : ls[h].pending[i] < acc + 1
      BY <1>9, <1>10 DEF PendingInOrder
    <2>1. \A h \in Gens(ls) : \A i \in Batched(ms, h) : ms[h].pending[i] <= acc + 1
      <3> SUFFICES ASSUME NEW h \in Gens(ls), NEW i \in Batched(ms, h) PROVE ms[h].pending[i] <= acc + 1
        OBVIOUS
      <3>1. CASE i \in Batched(ls, h) /\ ms[h].pending[i] = ls[h].pending[i]
        <4>1. ls[h].pending[i] \in Nat /\ ls[h].pending[i] < acc + 1
          BY <3>1, <2>0, <1>10
        <4> QED BY <3>1, <4>1
      <3>2. CASE ms[h].pending[i] = acc + 1
        BY <3>2
      <3> QED BY <3>1, <3>2, <1>7
    <2>2. ASSUME NEW h \in Gens(ls), NEW i \in Batched(ms, h), NEW j \in Batched(ms, h), i < j
          PROVE  ms[h].pending[i] < ms[h].pending[j]
      <3>1. CASE i \in Batched(ls, h) /\ j \in Batched(ls, h)
        BY <3>1, <2>2, <1>8, <1>9 DEF PendingInOrder
      <3>2. CASE j \notin Batched(ls, h)
        <4>1. h = g /\ j = n + 1 /\ ms[h].pending[j] = acc + 1
          BY <3>2, <1>7
        <4>2. i # n + 1
          BY <4>1, <2>2
        <4>3. i \in Batched(ls, h) /\ ms[h].pending[i] = ls[h].pending[i]
          BY <4>2, <1>7
        <4> QED BY <4>1, <4>3, <2>0
      <3>3. CASE i \notin Batched(ls, h) /\ j \in Batched(ls, h)
        <4>1. h = g /\ i = n + 1
          BY <3>3, <1>7
        <4>2. j \in 1 .. n
          BY <4>1, <3>3, <1>5
        <4> QED BY <4>1, <4>2, <2>2
      <3> QED BY <3>1, <3>2, <3>3
    <2>3. ASSUME NEW h \in Gens(ls), NEW k \in Gens(ls), h < k, NEW i \in Batched(ms, h), NEW j \in Batched(ms, k)
          PROVE  ms[h].pending[i] < ms[k].pending[j]
      <3>1. h # g
        BY <2>3, <1>10
      <3>2. i \in Batched(ls, h) /\ ms[h].pending[i] = ls[h].pending[i]
        BY <3>1, <1>7
      <3>3. CASE j \in Batched(ls, k)
        BY <3>2, <3>3, <2>3, <1>8, <1>9 DEF PendingInOrder
      <3>4. CASE j \notin Batched(ls, k)
        BY <3>2, <3>4, <2>0, <1>7
      <3> QED BY <3>3, <3>4
    <2> QED BY <1>2, <2>1, <2>2, <2>3 DEF PendingInOrder
  <1>c. LinesFirst(f, ms, acc + 1, cut)
    <2>1. \A i \in 1 .. Len(f) : f[i] < acc + 1 /\ f[i] <= acc + 1
      BY <1>9, <1>10 DEF LinesFirst
    <2>2. ~cut => Rising(f)
      BY <1>9 DEF LinesFirst
    <2>3. ASSUME ~cut, NEW h \in Gens(ls), ms[h].failure = "no", NEW i \in 1 .. Len(f), NEW j \in Batched(ms, h)
          PROVE  f[i] < ms[h].pending[j]
      <3>1. CASE j \in Batched(ls, h)
        BY <3>1, <2>3, <1>8, <1>9 DEF LinesFirst
      <3>2. CASE j \notin Batched(ls, h)
        BY <3>2, <2>1, <1>7
      <3> QED BY <3>1, <3>2
    <2> QED BY <1>2, <2>1, <2>2, <2>3 DEF LinesFirst
  <1>d. NothingLost(f, ms, acc + 1, gn)
    <2>1. \A h \in Gens(ls) : \A r : InGen(ls, h, r) => InGen(ms, h, r)
      BY <1>8 DEF InGen
    <2>2. InGen(ms, g, acc + 1)
      <3>1. n + 1 \in Batched(ms, g)
        BY <1>5
      <3> QED BY <3>1, <1>4 DEF InGen
    <2>3. \A r \in 1 .. acc + 1 : r \in 1 .. acc \/ r = acc + 1
      OBVIOUS
    <2> QED BY <2>1, <2>2, <2>3, <1>2, <1>8, <1>9 DEF NothingLost
  <1>e. CallsCover(ms, ps, acc + 1)
    <2> SUFFICES ASSUME NEW p \in LogOps, ps[p].kind = "call" PROVE CallOK(ms, ps[p], acc + 1)
      BY DEF CallsCover
    <2>1. ps[p] = ops[p] /\ CallOK(ls, ops[p], acc)
      BY <1>1, <1>9 DEF CallsCover
    <2>2. ops[p].upto \in Nat
      BY LogAssumption, StoreTypes DEF OpType
    <2>3. ops[p].upto <= acc /\ ops[p].upto <= acc + 1
      BY <2>1, <2>2 DEF CallOK
    <2>4. ASSUME NEW h \in Gens(ls), NEW i \in Batched(ms, h), ms[h].pending[i] <= ps[p].upto
          PROVE  i \in Batched(ls, h) /\ ls[h].pending[i] <= ops[p].upto
      <3>1. ms[h].pending[i] # acc + 1
        BY <2>1, <2>2, <2>3, <2>4
      <3> QED BY <3>1, <2>1, <2>4, <1>7
    <2>5. \A h \in Gens(ls) : \A i \in Batched(ms, h) : ms[h].pending[i] <= ps[p].upto =>
             h <= ps[p].gen /\ (ps[p].pc = "writing" /\ h = ps[p].gen => i <= Len(ps[p].batch))
      BY <2>1, <2>4 DEF CallOK
    <2> QED BY <2>1, <2>3, <2>5, <1>2 DEF CallOK
  <1>f. TailsKept(f, ms, ps)
    <2>1. ASSUME NEW h \in Gens(ls) PROVE Len(ls[h].pending) <= Len(ms[h].pending)
      <3>1. ls[h].pending \in Seq(Records) /\ Len(ls[h].pending) \in Nat
        BY StoreTypes
      <3>2. CASE h = g
        <4>1. Len(ms[g].pending) = Len(ls[g].pending) + 1
          BY <3>1, <3>2
        <4> QED BY <3>1, <3>2, <4>1
      <3>3. CASE h # g
        <4>1. ms[h] = ls[h]
          BY <3>3, <1>1
        <4> QED BY <3>1, <4>1
      <3> QED BY <3>2, <3>3
    <2>2. \A h \in Gens(ls) : /\ ms[h].lockq = ls[h].lockq /\ ms[h].epoch = ls[h].epoch
                              /\ Len(ls[h].pending) <= Len(ms[h].pending)
                              /\ \A i \in Batched(ls, h) : ms[h].pending[i] = ls[h].pending[i]
      BY <2>1, <1>8
    <2>3. (ps[o] = ops[o] \/ ops[o].pc # "writing") /\ (ps[o].next = "yes" => ps[o] = ops[o])
      OBVIOUS
    <2>4. \A p \in LogOps : ps[p].next = "yes" => TailOK(f, ms, ps, p)
      <3>1. StoreOK(ls, ops) /\ TailsKept(f, ls, ops) /\ OneOp(ops, ps, o)
        BY <1>9
      <3>2. ps[o] = ops[o] \/ ops[o].pc # "writing"
        BY <2>3
      <3>3. ~(o \in LogOps /\ ps[o] # ops[o] /\ ps[o].next = "yes")
        BY <2>3
      <3> QED BY ONLY <2>2, <3>1, <3>2, <3>3, QuietTails
    <2> QED BY <2>4 DEF TailsKept
  <1>g. RewriteIsClean(f, ps)
    BY <1>1, <1>9 DEF RewriteIsClean
  <1> QED BY <1>a, <1>b, <1>c, <1>d, <1>e, <1>f, <1>g DEF DataOK

\* What the invariant says of the state an action starts from.
LEMMA Known ==
    ASSUME LogInv
    PROVE  /\ logs \in Seq(LogType) /\ logOps \in [LogOps -> OpType] /\ StoreOK(logs, logOps)
           /\ \A g \in Gens(logs) : logs[g] \in LogType
           /\ \A o \in LogOps : logOps[o] \in OpType /\ OpOK(logs, logOps[o])
           /\ DOMAIN logs = Gens(logs)
           /\ accepted \in 0 .. MaxRecords /\ accepted \in Nat /\ lines \in Seq(Lines)
  <1>1. logs \in Seq(LogType) /\ logOps \in [LogOps -> OpType] /\ StoreOK(logs, logOps) /\ OpsOK(logs, logOps)
    BY DEF LogInv, StoreOK
  <1>2. accepted \in 0 .. MaxRecords /\ accepted \in Nat /\ lines \in Seq(Lines)
    BY LogAssumption DEF LogInv, HistoryOK
  <1>3. DOMAIN logs = Gens(logs) /\ \A g \in Gens(logs) : logs[g] \in LogType
    BY <1>1 DEF Gens
  <1> QED BY <1>1, <1>2, <1>3 DEF OpsOK

\* A new task or call.
LEMMA OpIs ==
    ASSUME NEW kind \in {"flush", "release", "call", "rewrite"}, NEW g \in Nat,
           NEW pc \in {"spawned", "lock"}, accepted \in 0 .. MaxRecords
    PROVE  /\ Op(kind, g, pc) \in OpType
           /\ Op(kind, g, pc).kind = kind /\ Op(kind, g, pc).gen = g /\ Op(kind, g, pc).pc = pc
           /\ Op(kind, g, pc).batch = <<>> /\ Op(kind, g, pc).next = "no" /\ Op(kind, g, pc).tail = {}
           /\ kind = "call" => Op(kind, g, pc).upto = accepted
  <1>1. PICK u : u = IF kind = "call" THEN accepted ELSE 0
    OBVIOUS
  <1>2. u \in 0 .. MaxRecords /\ (kind = "call" => u = accepted)
    BY <1>1, LogAssumption
  <1>a. PICK z : z = NoOp
    OBVIOUS
  <1>b. z \in OpType /\ z.batch = <<>> /\ z.tail = {} /\ z.next = "no"
    BY <1>a, LogAssumption DEF OpType, NoOp
  <1>3. Op(kind, g, pc) = [z EXCEPT !.kind = kind, !.gen = g, !.pc = pc, !.upto = u]
    BY <1>1, <1>a DEF Op
  <1> QED BY <1>2, <1>3, <1>b DEF OpType

\* append_value pushes the record and schedules a flush.
LEMMA AppendValueKeeps == ASSUME LogInv, NEW o \in LogOps, AppendValue(o) PROVE LogInv'
  <1>0. PICK g : g = admission.gen
    OBVIOUS
  <1>1. /\ logOps[o].pc = "idle" /\ accepted < MaxRecords /\ accepted' = accepted + 1
        /\ logs' = [logs EXCEPT ![g].pending = Append(@, accepted + 1), ![g].scheduled = "yes"]
        /\ \/ logs[g].scheduled = "yes" /\ UNCHANGED logOps
           \/ logs[g].scheduled = "no" /\ logOps' = [logOps EXCEPT ![o] = Op("flush", g, "spawned")]
        /\ disturbed' = IF logs[g].retired = "yes" THEN disturbed \cup {"latePush"} ELSE disturbed
        /\ admission' = NoAdmission
        /\ UNCHANGED <<lines, acked, gone>>
    BY <1>0 DEF AppendValue, Free
  <1>2. g \in Gens(logs)
    BY <1>0 DEF AppendValue, LogInv, AdmissionOK
  <1>3. /\ logs \in Seq(LogType) /\ logOps \in [LogOps -> OpType] /\ StoreOK(logs, logOps) /\ logs[g] \in LogType
        /\ accepted \in 0 .. MaxRecords /\ accepted \in Nat /\ lines \in Seq(Lines)
    BY <1>2, Known
  <1>4. accepted + 1 \in Records
    BY <1>1, <1>3, LogAssumption DEF Records
  <1>5. PICK x : x = [logs[g] EXCEPT !.pending = Append(@, accepted + 1), !.scheduled = "yes"]
    OBVIOUS
  <1>6. logs' = [logs EXCEPT ![g] = x]
    BY <1>1, <1>2, <1>3, <1>5 DEF Gens
  <1>7. /\ x \in LogType /\ x.pending = Append(logs[g].pending, accepted + 1) /\ x.scheduled = "yes"
        /\ x.lockq = logs[g].lockq /\ x.failure = logs[g].failure /\ x.settled = logs[g].settled
        /\ x.retired = logs[g].retired /\ x.epoch = logs[g].epoch
    <2>1. Append(logs[g].pending, accepted + 1) \in Seq(Records)
      BY <1>3, <1>4 DEF LogType
    <2> QED BY <2>1, <1>3, <1>5 DEF LogType
  <1>8. OneLog(logs, logs', g) /\ logs'[g] = x /\ Gens(logs') = Gens(logs)
    BY <1>2, <1>3, <1>6, <1>7, OneLogIs
  <1>9. PICK y : y = Op("flush", g, "spawned")
    OBVIOUS
  <1>10. /\ y \in OpType /\ y.kind = "flush" /\ y.gen = g /\ y.pc = "spawned" /\ y.batch = <<>> /\ y.next = "no"
    BY <1>2, <1>3, <1>9, OpIs, StoreTypes
  <1>11. OneOp(logOps, logOps', o) /\ (logOps'[o] = logOps[o] \/ (logs[g].scheduled = "no" /\ logOps'[o] = y))
    BY <1>1, <1>3, <1>9, <1>10 DEF OneOp
  <1>12. /\ Len(logs[g].pending) <= Len(logs'[g].pending)
         /\ \A i \in Batched(logs, g) : logs'[g].pending[i] = logs[g].pending[i]
    <2>1. logs[g].pending \in Seq(Records) /\ Len(logs[g].pending) \in Nat
      BY <1>2, <1>3, StoreTypes
    <2>2. logs'[g].pending = Append(logs[g].pending, accepted + 1)
      BY <1>7, <1>8
    <2> QED BY ONLY <2>1, <2>2 DEF Batched
  <1>13. \E p \in LogOps : logOps'[p].gen = g /\ logOps'[p].pc = "spawned" /\ logOps'[p].kind = "flush"
    <2>1. CASE logs[g].scheduled = "yes"
      BY <2>1, <1>1, <1>2, <1>3 DEF StoreOK, Flushes
    <2>2. CASE logs[g].scheduled = "no"
      BY <2>2, <1>1, <1>3, <1>9, <1>10
    <2> QED BY <2>1, <2>2, <1>1
  <1>14. logOps[o].kind = "none" /\ OpOK(logs, logOps'[o])
    <2>1. OpOK(logs, logOps[o]) /\ logOps[o].kind = "none"
      BY <1>1, Known DEF OpOK, NoOp
    <2>2. OpOK(logs, y)
      BY <1>2, <1>10 DEF OpOK
    <2> QED BY <2>1, <2>2, <1>11
  <1>15. StoreOK(logs', logOps')
    <2>1. /\ logs'[g].lockq = logs[g].lockq /\ logs'[g].failure = logs[g].failure
          /\ logs'[g].settled = logs[g].settled /\ logs'[g].retired = logs[g].retired
          /\ logs'[g].epoch = logs[g].epoch
      BY <1>7, <1>8
    <2>2. ~(logs'[g].scheduled = "no")
      BY <1>7, <1>8
    <2>3. \/ logOps'[o] = logOps[o]
          \/ logOps[o].pc \in {"idle", "spawned"} /\ logOps[o].kind # "flush" /\ logOps'[o].pc \in {"idle", "spawned"}
      BY <1>1, <1>10, <1>11, <1>14
    <2>4. OneLog(logs, logs', g) /\ OneOp(logOps, logOps', o) /\ OpOK(logs, logOps'[o]) /\ StoreOK(logs, logOps)
      BY <1>3, <1>8, <1>11, <1>14
    <2> QED BY <1>2, <1>12, <1>13, <2>1, <2>2, <2>3, <2>4, SlotStep
  <1>16. HistoryOK'
    BY <1>1, <1>3, LogAssumption DEF LogInv, HistoryOK
  <1>17. AdmissionOK(admission', logs')
    BY <1>1 DEF AdmissionOK, NoAdmission
  <1>18. ASSUME "latePush" \notin disturbed'
         PROVE  DataOK(lines', logs', logOps', accepted', gone', "cutover" \in disturbed')
    <2>1. logs[g].retired = "no" /\ disturbed' = disturbed
      BY <1>1, <1>3, <1>18 DEF LogType
    <2>2. g = Len(logs) /\ logs[g].settled # "yes"
      <3>1. ~(g < Len(logs)) /\ logs[g].settled # "yes"
        BY <2>1, <1>2, <1>3 DEF StoreOK, Releases
      <3> QED BY <3>1, <1>2, <1>3, StoreTypes
    <2>3. DataOK(lines, logs, logOps, accepted, gone, "cutover" \in disturbed)
      BY <2>1, <1>18 DEF LogInv
    <2>4. logOps'[o] = logOps[o] \/ (logOps[o].pc = "idle" /\ logOps'[o].kind = "flush" /\ logOps'[o].next = "no")
      BY <1>1, <1>10, <1>11
    <2>5. DataOK(lines, logs', logOps', accepted + 1, gone, "cutover" \in disturbed)
      BY <2>2, <2>3, <2>4, <1>2, <1>3, <1>4, <1>7, <1>8, <1>11, <1>15, PushData
    <2> QED BY <2>1, <2>5, <1>1
  <1> QED BY <1>15, <1>16, <1>17, <1>18 DEF LogInv

\* The handles are counted; nothing else changes.
LEMMA CountKeeps ==
    ASSUME LogInv, NEW o, NEW g \in Gens(logs), NEW x \in LogType, logs' = [logs EXCEPT ![g] = x],
           x.pending = logs[g].pending, x.scheduled = logs[g].scheduled, x.lockq = logs[g].lockq,
           x.failure = logs[g].failure, x.settled = logs[g].settled, x.retired = logs[g].retired,
           x.epoch = logs[g].epoch, OneOp(logOps, logOps', o),
           o \in LogOps => OpOK(logs, logOps'[o]),
           \/ logOps'[o] = logOps[o]
           \/ /\ logOps[o].pc \in {"idle", "spawned"} /\ logOps[o].kind # "flush"
              /\ logOps'[o].pc \in {"idle", "spawned"} /\ logOps'[o].kind \in {"none", "release"} /\ logOps'[o].next = "no",
           UNCHANGED <<lines, accepted, acked, gone, disturbed>>, AdmissionOK(admission', logs)
    PROVE  LogInv'
  <1>1. logs \in Seq(LogType) /\ StoreOK(logs, logOps)
    BY Known
  <1>2. OneLog(logs, logs', g) /\ logs'[g] = x /\ Gens(logs') = Gens(logs)
    BY <1>1, OneLogIs
  <1>3. /\ Len(logs[g].pending) <= Len(logs'[g].pending)
        /\ \A i \in Batched(logs, g) : logs'[g].pending[i] = logs[g].pending[i]
    BY <1>1, <1>2, StoreTypes
  <1>4. ASSUME logs'[g].scheduled = "yes"
        PROVE  \E p \in LogOps : logOps'[p].gen = g /\ logOps'[p].pc = "spawned" /\ logOps'[p].kind = "flush"
    <2>1. PICK p \in LogOps : logOps[p].gen = g /\ logOps[p].pc = "spawned" /\ logOps[p].kind = "flush"
      <3>1. logs[g].scheduled = "yes"
        BY <1>2, <1>4
      <3> QED BY <3>1, <1>1 DEF StoreOK, Flushes
    <2>2. logOps'[p] = logOps[p]
      BY <2>1 DEF OneOp
    <2> QED BY <2>1, <2>2
  <1>5. StoreOK(logs', logOps')
    <2>1. /\ logs'[g].lockq = logs[g].lockq /\ logs'[g].failure = logs[g].failure
          /\ logs'[g].settled = logs[g].settled /\ logs'[g].retired = logs[g].retired
          /\ logs'[g].epoch = logs[g].epoch
      BY <1>2
    <2>2. /\ logs'[g].scheduled = "yes" =>
                \E p \in LogOps : logOps'[p].gen = g /\ logOps'[p].pc = "spawned" /\ logOps'[p].kind = "flush"
          /\ logs'[g].scheduled = "no" => logs[g].scheduled = "no" /\ logs'[g].pending = logs[g].pending
      BY <1>2, <1>4
    <2>3. \/ logOps'[o] = logOps[o]
          \/ logOps[o].pc \in {"idle", "spawned"} /\ logOps[o].kind # "flush" /\ logOps'[o].pc \in {"idle", "spawned"}
      OBVIOUS
    <2>4. /\ StoreOK(logs, logOps) /\ g \in Gens(logs) /\ OneLog(logs, logs', g) /\ OneOp(logOps, logOps', o)
          /\ (o \in LogOps => OpOK(logs, logOps'[o]))
      BY <1>1, <1>2
    <2> QED BY ONLY <1>3, <2>1, <2>2, <2>3, <2>4, SlotStep
  <1>6. HistoryOK'
    BY DEF LogInv, HistoryOK
  <1>7. AdmissionOK(admission', logs')
    BY <1>2, AdmissionStays
  <1>8. ASSUME "latePush" \notin disturbed'
        PROVE  DataOK(lines', logs', logOps', accepted', gone', "cutover" \in disturbed')
    <2>1. DataOK(lines, logs, logOps, accepted, gone, "cutover" \in disturbed)
      BY <1>8 DEF LogInv
    <2>2. \A h \in Gens(logs) : /\ logs'[h].lockq = logs[h].lockq /\ logs'[h].epoch = logs[h].epoch
                                /\ Len(logs[h].pending) <= Len(logs'[h].pending)
                                /\ \A i \in Batched(logs, h) : logs'[h].pending[i] = logs[h].pending[i]
      BY <1>1, <1>2, <1>3, StoreTypes DEF OneLog
    <2>3. \A h \in Gens(logs) : /\ logs'[h].pending = logs[h].pending /\ logs'[h].failure = logs[h].failure
                                /\ logs'[h].settled = logs[h].settled
      BY <1>2 DEF OneLog
    <2>4. (logOps'[o] = logOps[o] \/ logOps[o].pc # "writing") /\ (logOps'[o].next = "yes" => logOps'[o] = logOps[o])
      OBVIOUS
    <2>5. TailsKept(lines, logs, logOps)
      BY <2>1 DEF DataOK
    <2>6. \A p \in LogOps : logOps'[p].next = "yes" => TailOK(lines, logs', logOps', p)
      <3>1. ~(o \in LogOps /\ logOps'[o] # logOps[o] /\ logOps'[o].next = "yes")
        BY <2>4
      <3>2. OneOp(logOps, logOps', o) /\ StoreOK(logs, logOps)
        BY <1>1
      <3> QED BY ONLY <2>2, <2>4, <2>5, <3>1, <3>2, QuietTails
    <2>7. o \in LogOps /\ logOps'[o].kind = "call" => CallOK(logs, logOps'[o], accepted)
      BY <2>1 DEF DataOK, CallsCover
    <2>8. o \in LogOps /\ logOps'[o].kind = "rewrite" /\ logOps'[o].pc \in {"drain", "writing"} => Clean(lines)
      BY <2>1 DEF DataOK, RewriteIsClean
    <2>9. DataOK(lines, logs', logOps', accepted, gone, "cutover" \in disturbed)
      BY <2>1, <2>3, <2>6, <2>7, <2>8, <1>2, DataStep
    <2> QED BY <2>9
  <1> QED BY <1>5, <1>6, <1>7, <1>8 DEF LogInv

\* acquire counts its handle.
LEMMA AcquireKeeps == ASSUME LogInv, Acquire PROVE LogInv'
  <1>1. PICK g : g = admission.gen
    OBVIOUS
  <1>2. g \in Gens(logs) /\ logs[g] \in LogType /\ logs \in Seq(LogType)
    <2>1. g \in Gens(logs)
      BY <1>1 DEF Acquire, LogInv, AdmissionOK
    <2> QED BY <2>1, Known
  <1>3. PICK x : x = [logs[g] EXCEPT !.refs = @ + 1, !.held = @ + 1]
    OBVIOUS
  <1>4. logs' = [logs EXCEPT ![g] = x]
    BY <1>1, <1>2, <1>3 DEF Acquire, Gens
  <1>5. /\ x \in LogType /\ x.pending = logs[g].pending /\ x.scheduled = logs[g].scheduled /\ x.lockq = logs[g].lockq
        /\ x.failure = logs[g].failure /\ x.settled = logs[g].settled /\ x.retired = logs[g].retired
        /\ x.epoch = logs[g].epoch
    <2>0. logs[g].refs \in Nat /\ logs[g].held \in Nat
      BY <1>2 DEF LogType
    <2>1. logs[g].refs + 1 \in Nat /\ logs[g].held + 1 \in Nat
      BY <2>0
    <2> QED BY <2>1, <1>2, <1>3 DEF LogType
  <1>6. /\ UNCHANGED <<lines, logOps, accepted, acked, gone, disturbed>> /\ admission' = NoAdmission
    BY DEF Acquire, history
  <1>7. PICK o : o = 0
    OBVIOUS
  <1>8. o \notin LogOps /\ OneOp(logOps, logOps', o) /\ logOps'[o] = logOps[o]
    BY <1>6, <1>7, Known DEF LogOps, OneOp
  <1>9. AdmissionOK(admission', logs)
    BY <1>6 DEF AdmissionOK, NoAdmission
  <1> QED BY <1>2, <1>4, <1>5, <1>6, <1>8, <1>9, CountKeeps

\* A handle is disposed of; the last one retires the generation.
LEMMA DisposeHandleKeeps == ASSUME LogInv, NEW o \in LogOps, NEW g \in DOMAIN logs, DisposeHandle(o, g) PROVE LogInv'
  <1>2. g \in Gens(logs) /\ logs[g] \in LogType /\ logs \in Seq(LogType) /\ logOps \in [LogOps -> OpType] /\ g \in Nat
        /\ accepted \in 0 .. MaxRecords
    BY Known DEF Gens
  <1>3. PICK x : x = [logs[g] EXCEPT !.held = @ - 1]
    OBVIOUS
  <1>4. logs' = [logs EXCEPT ![g] = x]
    BY <1>2, <1>3 DEF DisposeHandle, Gens
  <1>5. /\ x \in LogType /\ x.pending = logs[g].pending /\ x.scheduled = logs[g].scheduled /\ x.lockq = logs[g].lockq
        /\ x.failure = logs[g].failure /\ x.settled = logs[g].settled /\ x.retired = logs[g].retired
        /\ x.epoch = logs[g].epoch
    <2>1. logs[g].held \in Nat /\ logs[g].held > 0
      BY <1>2 DEF DisposeHandle, LogType
    <2>2. logs[g].held - 1 \in Nat
      BY <2>1
    <2> QED BY <2>2, <1>2, <1>3 DEF LogType
  <1>6. PICK y : y = Op("release", g, "spawned")
    OBVIOUS
  <1>7. /\ y \in OpType /\ y.kind = "release" /\ y.gen = g /\ y.pc = "spawned" /\ y.batch = <<>> /\ y.next = "no"
    BY <1>2, <1>6, OpIs
  <1>8. /\ UNCHANGED <<lines, accepted, acked, gone, disturbed, admission>>
        /\ logOps' = [logOps EXCEPT ![o] = y] /\ logOps[o].pc = "idle"
    BY <1>6 DEF DisposeHandle, history, Free
  <1>9. OneOp(logOps, logOps', o) /\ logOps'[o] = y
    BY <1>2, <1>7, <1>8, OneOpIs
  <1>10. logOps[o].kind = "none" /\ OpOK(logs, y)
    <2>1. logOps[o].kind = "none"
      BY <1>8, Known DEF OpOK, NoOp
    <2> QED BY <2>1, <1>2, <1>7 DEF OpOK
  <1>11. AdmissionOK(admission', logs)
    BY <1>8 DEF LogInv
  <1> QED BY <1>2, <1>4, <1>5, <1>7, <1>8, <1>9, <1>10, <1>11, CountKeeps

(***************************************************************************)
(* Who wants the mutex joins its queue: a task that was spawned, a flush,  *)
(* a read or a rewrite.                                                    *)
(***************************************************************************)
LEMMA JoinKeeps ==
    ASSUME LogInv, NEW ls, StoreOK(ls, logOps), AdmissionOK(admission, ls),
           "latePush" \notin disturbed =>
              DataOK(lines, ls, logOps, accepted, gone, "cutover" \in disturbed),
           NEW o \in LogOps, NEW g \in Gens(ls), NEW x \in LogType, NEW y \in OpType,
           logs' = [ls EXCEPT ![g] = x], logOps' = [logOps EXCEPT ![o] = y],
           UNCHANGED <<lines, accepted, acked, gone, disturbed, admission>>,
           logOps[o].pc \in {"idle", "spawned"}, logOps[o].pc = "spawned" => logOps[o].gen = g,
           x.lockq = Append(ls[g].lockq, o),
           x.pending = ls[g].pending, x.failure = ls[g].failure, x.settled = ls[g].settled,
           ls[g].retired = "yes" => x.retired = "yes",
           x.epoch >= ls[g].epoch, x.epoch # ls[g].epoch => y.kind = "rewrite",
           x.scheduled = "no" \/ (x.scheduled = ls[g].scheduled /\ logOps[o].kind # "flush"),
           y.pc = "lock", y.gen = g, y.kind # "none", y.batch = <<>>,
           y.next = "yes" => y.kind = "rewrite",
           y.kind \in {"release", "rewrite"} =>
              ls[g].settled = "no" /\ \A i \in Places(ls, g) : logOps[ls[g].lockq[i]].kind # "release",
           y.kind = "release" => x.retired = "yes",
           y.kind = "call" /\ "latePush" \notin disturbed => CallOK(ls, y, accepted),
           y.next = "yes" => TailOK(lines, logs', logOps', o)
    PROVE  LogInv'
  <1>1. ls \in Seq(LogType) /\ logOps \in [LogOps -> OpType]
    BY Known, StoreTypes
  <1>2. OneLog(ls, logs', g) /\ logs'[g] = x /\ Gens(logs') = Gens(ls)
    <2>1. logs' \in Seq(LogType) /\ Len(logs') = Len(ls)
      BY <1>1 DEF Gens
    <2>2. logs'[g] = x /\ \A h \in Gens(ls) : h # g => logs'[h] = ls[h]
      BY <1>1 DEF Gens
    <2> QED BY <2>1, <2>2 DEF OneLog, Gens
  <1>3. OneOp(logOps, logOps', o) /\ logOps'[o] = y
    BY <1>1, OneOpIs
  <1>4. StoreOK(logs', logOps')
    <2>1. /\ logs'[g].lockq = Append(ls[g].lockq, o) /\ logs'[g].pending = ls[g].pending
          /\ logs'[g].failure = ls[g].failure /\ logs'[g].settled = ls[g].settled
          /\ (ls[g].retired = "yes" => logs'[g].retired = "yes")
      BY <1>2
    <2>2. /\ logs'[g].epoch >= ls[g].epoch /\ (logs'[g].epoch # ls[g].epoch => logOps'[o].kind = "rewrite")
          /\ (logs'[g].scheduled = "no" \/ (logs'[g].scheduled = ls[g].scheduled /\ logOps[o].kind # "flush"))
      BY <1>2, <1>3
    <2>3. /\ logOps'[o].pc = "lock" /\ logOps'[o].gen = g /\ logOps'[o].kind # "none" /\ logOps'[o].batch = <<>>
          /\ (logOps'[o].next = "yes" => logOps'[o].kind = "rewrite")
      BY <1>3
    <2>4. logOps'[o].kind \in {"release", "rewrite"} =>
             ls[g].settled = "no" /\ \A i \in Places(ls, g) : logOps[ls[g].lockq[i]].kind # "release"
      BY <1>3
    <2>5. logOps'[o].kind = "release" => logs'[g].retired = "yes"
      BY <1>2, <1>3
    <2>6. StoreOK(ls, logOps) /\ o \in LogOps /\ g \in Gens(ls) /\ logOps[o].pc \in {"idle", "spawned"}
          /\ (logOps[o].pc = "spawned" => logOps[o].gen = g)
      OBVIOUS
    <2>7. OneLog(ls, logs', g) /\ OneOp(logOps, logOps', o)
      BY <1>2, <1>3
    <2> QED BY ONLY <2>1, <2>2, <2>3, <2>4, <2>5, <2>6, <2>7, JoinStep
  <1>5. HistoryOK'
    BY DEF LogInv, HistoryOK
  <1>6. AdmissionOK(admission', logs')
    BY <1>2, AdmissionStays
  <1>7. ASSUME "latePush" \notin disturbed'
        PROVE  DataOK(lines', logs', logOps', accepted', gone', "cutover" \in disturbed')
    <2>1. DataOK(lines, ls, logOps, accepted, gone, "cutover" \in disturbed)
      BY <1>7
    <2>2. \A p \in LogOps : logOps'[p].next = "yes" => TailOK(lines, logs', logOps', p)
      <3>1. TailsKept(lines, ls, logOps) /\ StoreOK(ls, logOps) /\ o \in LogOps /\ g \in Gens(ls)
            /\ logOps[o].pc \in {"idle", "spawned"} /\ OneLog(ls, logs', g) /\ OneOp(logOps, logOps', o)
        BY <2>1, <1>2, <1>3 DEF DataOK
      <3>2. /\ logs'[g].lockq = Append(ls[g].lockq, o) /\ logs'[g].pending = ls[g].pending
            /\ logs'[g].epoch \in Nat /\ logs'[g].epoch >= ls[g].epoch
        BY <1>2 DEF LogType
      <3>3. logOps'[o].next = "yes" => TailOK(lines, logs', logOps', o)
        BY <1>3
      <3> QED BY ONLY <3>1, <3>2, <3>3, JoinTails
    <2>3. \A h \in Gens(ls) : /\ logs'[h].pending = ls[h].pending /\ logs'[h].failure = ls[h].failure
                              /\ logs'[h].settled = ls[h].settled
      BY <1>2 DEF OneLog
    <2>4. o \in LogOps /\ logOps'[o].kind = "call" => CallOK(ls, logOps'[o], accepted)
      BY <1>3, <1>7
    <2>5. ~(o \in LogOps /\ logOps'[o].kind = "rewrite" /\ logOps'[o].pc \in {"drain", "writing"})
      BY <1>3
    <2>6. OneOp(logOps, logOps', o) /\ Gens(logs') = Gens(ls)
      BY <1>2, <1>3
    <2>7. DataOK(lines, logs', logOps', accepted, gone, "cutover" \in disturbed)
      BY ONLY <2>1, <2>2, <2>3, <2>4, <2>5, <2>6, DataStep
    <2> QED BY <2>7
  <1> QED BY <1>4, <1>5, <1>6, <1>7 DEF LogInv

\* The task of schedule_flush starts and queues for the mutex.
LEMMA FlushBeginsKeeps == ASSUME LogInv, NEW o \in LogOps, FlushBegins(o) PROVE LogInv'
  <1>1. PICK g : g = logOps[o].gen
    OBVIOUS
  <1>2. /\ logOps[o].kind = "flush" /\ logOps[o].pc = "spawned" /\ logOps' = [logOps EXCEPT ![o].pc = "lock"]
        /\ logs' = Joined([logs EXCEPT ![g].scheduled = "no"], o, g)
        /\ UNCHANGED <<lines, accepted, acked, gone, disturbed, admission>>
    BY <1>1 DEF FlushBegins, history
  <1>3. /\ g \in Gens(logs) /\ logs \in Seq(LogType) /\ logs[g] \in LogType /\ StoreOK(logs, logOps)
        /\ logOps \in [LogOps -> OpType] /\ logOps[o] \in OpType /\ OpOK(logs, logOps[o])
    BY <1>1, <1>2, Known DEF OpOK
  <1>4. PICK x : x = [logs[g] EXCEPT !.scheduled = "no", !.lockq = Append(@, o)]
    OBVIOUS
  <1>5. PICK y : y = [logOps[o] EXCEPT !.pc = "lock"]
    OBVIOUS
  <1>6. logs' = [logs EXCEPT ![g] = x] /\ logOps' = [logOps EXCEPT ![o] = y]
    BY <1>2, <1>3, <1>4, <1>5 DEF Joined, Gens
  <1>7. /\ x \in LogType /\ x.lockq = Append(logs[g].lockq, o) /\ x.pending = logs[g].pending
        /\ x.failure = logs[g].failure /\ x.settled = logs[g].settled /\ x.retired = logs[g].retired
        /\ x.epoch = logs[g].epoch /\ x.scheduled = "no" /\ logs[g].epoch \in Nat
    <2>1. Append(logs[g].lockq, o) \in Seq(LogOps)
      BY <1>3 DEF LogType
    <2> QED BY <2>1, <1>3, <1>4 DEF LogType
  <1>8. /\ y \in OpType /\ y.pc = "lock" /\ y.gen = g /\ y.kind = "flush" /\ y.batch = <<>> /\ y.next = "no"
    <2>1. logOps[o].batch = <<>> /\ logOps[o].next = "no"
      BY <1>2, <1>3 DEF OpOK, OpType
    <2> QED BY <2>1, <1>1, <1>2, <1>3, <1>5 DEF OpType
  <1>9. "latePush" \notin disturbed => DataOK(lines, logs, logOps, accepted, gone, "cutover" \in disturbed)
    BY DEF LogInv
  <1>10. LogInv /\ o \in LogOps /\ AdmissionOK(admission, logs) /\ logs[g].epoch >= logs[g].epoch
         /\ logOps[o].pc \in {"idle", "spawned"} /\ (logOps[o].pc = "spawned" => logOps[o].gen = g)
         /\ UNCHANGED <<lines, accepted, acked, gone, disturbed, admission>>
    BY <1>1, <1>2, <1>7 DEF LogInv
  <1> QED BY ONLY <1>3, <1>6, <1>7, <1>8, <1>9, <1>10, JoinKeeps

\* A flush or a read is a call of the newest generation: nothing was pushed to
\* a later one.
LEMMA CallJoins ==
    ASSUME LogInv, NEW ls, StoreOK(ls, logOps), AdmissionOK(admission, ls), NEW o \in LogOps, NEW g, g = Len(ls),
           "latePush" \notin disturbed =>
              DataOK(lines, ls, logOps, accepted, gone, "cutover" \in disturbed),
           g \in Gens(ls), Free(o), logs' = Joined(ls, o, g), logOps' = [logOps EXCEPT ![o] = Op("call", g, "lock")],
           UNCHANGED <<lines, accepted, acked, gone, disturbed, admission>>
    PROVE  LogInv'
  <1>1. /\ logOps[o].pc = "idle" /\ logOps[o].kind = "none" /\ logOps \in [LogOps -> OpType]
        /\ accepted \in 0 .. MaxRecords /\ accepted \in Nat
    BY Known DEF Free, OpOK, NoOp
  <1>2. ls \in Seq(LogType) /\ ls[g] \in LogType /\ g \in Nat
    BY StoreTypes
  <1>3. PICK x : x = [ls[g] EXCEPT !.lockq = Append(@, o)]
    OBVIOUS
  <1>4. PICK y : y = Op("call", g, "lock")
    OBVIOUS
  <1>5. logs' = [ls EXCEPT ![g] = x] /\ logOps' = [logOps EXCEPT ![o] = y]
    BY <1>2, <1>3, <1>4 DEF Joined, Gens
  <1>6. /\ x \in LogType /\ x.lockq = Append(ls[g].lockq, o) /\ x.pending = ls[g].pending
        /\ x.failure = ls[g].failure /\ x.settled = ls[g].settled /\ x.retired = ls[g].retired
        /\ x.epoch = ls[g].epoch /\ x.scheduled = ls[g].scheduled /\ ls[g].epoch \in Nat
    <2>1. Append(ls[g].lockq, o) \in Seq(LogOps)
      BY <1>2 DEF LogType
    <2> QED BY <2>1, <1>2, <1>3 DEF LogType
  <1>7. /\ y \in OpType /\ y.pc = "lock" /\ y.gen = g /\ y.kind = "call" /\ y.batch = <<>> /\ y.next = "no"
        /\ y.upto = accepted
    BY <1>1, <1>2, <1>4, OpIs
  <1>8. y.kind = "call" /\ "latePush" \notin disturbed => CallOK(ls, y, accepted)
    <2>1. \A h \in Gens(ls) : h <= g
      BY StoreTypes
    <2> QED BY <2>1, <1>1, <1>7 DEF CallOK
  <1>9. /\ LogInv /\ o \in LogOps /\ AdmissionOK(admission, ls) /\ ls[g].epoch >= ls[g].epoch
        /\ StoreOK(ls, logOps) /\ g \in Gens(ls)
        /\ UNCHANGED <<lines, accepted, acked, gone, disturbed, admission>>
    BY <1>6
  <1>10. "latePush" \notin disturbed => DataOK(lines, ls, logOps, accepted, gone, "cutover" \in disturbed)
    OBVIOUS
  <1> QED BY ONLY <1>1, <1>5, <1>6, <1>7, <1>8, <1>9, <1>10, JoinKeeps

\* flush joins the queue of the current generation.
LEMMA FlushCallKeeps == ASSUME LogInv, NEW o \in LogOps, FlushCall(o) PROVE LogInv'
  <1>1. PICK g : g = Len(logs)
    OBVIOUS
  <1>2. g \in Gens(logs)
    <2>1. logs \in Seq(LogType) /\ logs # <<>>
      BY Known DEF FlushCall, Mapped
    <2> QED BY <2>1, <1>1 DEF Gens
  <1>3. /\ Free(o) /\ logs' = Joined(logs, o, g) /\ logOps' = [logOps EXCEPT ![o] = Op("call", g, "lock")]
        /\ UNCHANGED <<lines, accepted, acked, gone, disturbed, admission>>
    BY <1>1 DEF FlushCall, history
  <1>4. /\ StoreOK(logs, logOps) /\ AdmissionOK(admission, logs) /\ LogInv
        /\ ("latePush" \notin disturbed => DataOK(lines, logs, logOps, accepted, gone, "cutover" \in disturbed))
    BY DEF LogInv
  <1> QED BY <1>1, <1>2, <1>3, <1>4, CallJoins

\* read joins the queue of the current generation, which it may create.
LEMMA ReadCallKeeps == ASSUME LogInv, NEW o \in LogOps, ReadCall(o) PROVE LogInv'
  <1>1. PICK ls, g : ls = StateLogs /\ g = Len(StateLogs)
    OBVIOUS
  <1>2. /\ g \in Gens(ls) /\ StoreOK(ls, logOps) /\ AdmissionOK(admission, ls) /\ g = Len(ls)
        /\ ("latePush" \notin disturbed => DataOK(lines, ls, logOps, accepted, gone, "cutover" \in disturbed))
    BY <1>1, StateStep
  <1>3. /\ Free(o) /\ logs' = Joined(ls, o, g) /\ logOps' = [logOps EXCEPT ![o] = Op("call", g, "lock")]
        /\ UNCHANGED <<lines, accepted, acked, gone, disturbed, admission>>
    BY <1>1 DEF ReadCall, history
  <1> QED BY <1>2, <1>3, CallJoins

\* close flushes the current generation.
LEMMA CloseFlushesKeeps == ASSUME LogInv, NEW o \in LogOps, CloseFlushes(o) PROVE LogInv'
  <1>1. PICK g : g = Len(logs)
    OBVIOUS
  <1>2. /\ StoreOK(logs, logOps) /\ AdmissionOK(admission, logs) /\ LogInv
        /\ ("latePush" \notin disturbed => DataOK(lines, logs, logOps, accepted, gone, "cutover" \in disturbed))
    BY DEF LogInv
  <1>3. Free(o) /\ UNCHANGED <<lines, accepted, acked, gone, disturbed, admission>>
    BY DEF CloseFlushes, history
  <1>4. CASE /\ Mapped /\ logs' = Joined(logs, o, Len(logs))
             /\ logOps' = [logOps EXCEPT ![o] = Op("call", Len(logs), "lock")]
    <2>1. g \in Gens(logs)
      <3>1. logs \in Seq(LogType) /\ logs # <<>>
        BY <1>4, Known DEF Mapped
      <3> QED BY <3>1, <1>1 DEF Gens
    <2>2. logs' = Joined(logs, o, g) /\ logOps' = [logOps EXCEPT ![o] = Op("call", g, "lock")]
      BY <1>1, <1>4
    <2> QED BY <1>1, <1>2, <1>3, <2>1, <2>2, CallJoins
  <1>5. CASE UNCHANGED <<logs, logOps>>
    BY <1>3, <1>5 DEF LogInv, HistoryOK
  <1> QED BY <1>4, <1>5 DEF CloseFlushes

\* The release of a retired generation starts and queues for the mutex.
LEMMA ReleaseBeginsKeeps == ASSUME LogInv, NEW o \in LogOps, ReleaseBegins(o) PROVE LogInv'
  <1>1. PICK g : g = logOps[o].gen
    OBVIOUS
  <1>2. PICK n : n = IF logs[g].refs = 0 THEN 0 ELSE logs[g].refs - 1
    OBVIOUS
  <1>3. logOps[o].kind = "release" /\ logOps[o].pc = "spawned" /\ UNCHANGED <<lines, accepted, acked, gone, disturbed, admission>>
    BY DEF ReleaseBegins, history
  <1>4. /\ g \in Gens(logs) /\ logs \in Seq(LogType) /\ logs[g] \in LogType /\ StoreOK(logs, logOps)
        /\ logOps \in [LogOps -> OpType] /\ logOps[o] \in OpType /\ OpOK(logs, logOps[o])
    BY <1>1, <1>3, Known DEF OpOK
  <1>5. n \in Nat
    <2>1. logs[g].refs \in Nat
      BY <1>4 DEF LogType
    <2> QED BY <2>1, <1>2
  <1>6. /\ "latePush" \notin disturbed => DataOK(lines, logs, logOps, accepted, gone, "cutover" \in disturbed)
        /\ LogInv /\ o \in LogOps /\ AdmissionOK(admission, logs) /\ AdmissionOK(admission', logs)
    BY <1>3 DEF LogInv
  <1>7. CASE logs' = [logs EXCEPT ![g].refs = n] /\ logOps' = [logOps EXCEPT ![o] = NoOp]
    <2>1. PICK x : x = [logs[g] EXCEPT !.refs = n]
      OBVIOUS
    <2>2. logs' = [logs EXCEPT ![g] = x]
      BY <2>1, <1>4, <1>7 DEF Gens
    <2>3. /\ x \in LogType /\ x.pending = logs[g].pending /\ x.scheduled = logs[g].scheduled /\ x.lockq = logs[g].lockq
          /\ x.failure = logs[g].failure /\ x.settled = logs[g].settled /\ x.retired = logs[g].retired
          /\ x.epoch = logs[g].epoch
      BY <2>1, <1>4, <1>5 DEF LogType
    <2>4. PICK y : y = NoOp
      OBVIOUS
    <2>5. y \in OpType /\ y.pc = "idle" /\ y.kind = "none" /\ y.next = "no" /\ OpOK(logs, y)
      BY <2>4, LogAssumption DEF NoOp, OpType, OpOK
    <2>6. OneOp(logOps, logOps', o) /\ logOps'[o] = y
      BY <2>4, <2>5, <1>4, <1>7, OneOpIs
    <2>7. /\ OneOp(logOps, logOps', o) /\ OpOK(logs, logOps'[o])
          /\ logOps[o].pc \in {"idle", "spawned"} /\ logOps[o].kind # "flush"
          /\ logOps'[o].pc \in {"idle", "spawned"} /\ logOps'[o].kind \in {"none", "release"} /\ logOps'[o].next = "no"
          /\ UNCHANGED <<lines, accepted, acked, gone, disturbed>>
      BY <2>5, <2>6, <1>3
    <2> QED BY ONLY <2>2, <2>3, <2>7, <1>4, <1>6, CountKeeps
  <1>8. CASE /\ logs[g].retired = "no" /\ logOps' = [logOps EXCEPT ![o].pc = "lock"]
             /\ logs' = Joined([[logs EXCEPT ![g].refs = n] EXCEPT ![g].retired = "yes"], o, g)
    <2>1. PICK x : x = [logs[g] EXCEPT !.refs = n, !.retired = "yes", !.lockq = Append(@, o)]
      OBVIOUS
    <2>2. PICK y : y = [logOps[o] EXCEPT !.pc = "lock"]
      OBVIOUS
    <2>3. logs' = [logs EXCEPT ![g] = x] /\ logOps' = [logOps EXCEPT ![o] = y]
      BY <2>1, <2>2, <1>4, <1>8 DEF Joined, Gens
    <2>4. /\ x \in LogType /\ x.lockq = Append(logs[g].lockq, o) /\ x.pending = logs[g].pending
          /\ x.failure = logs[g].failure /\ x.settled = logs[g].settled /\ x.retired = "yes"
          /\ x.epoch = logs[g].epoch /\ x.scheduled = logs[g].scheduled /\ logs[g].epoch \in Nat
      <3>1. Append(logs[g].lockq, o) \in Seq(LogOps)
        BY <1>4 DEF LogType
      <3> QED BY <3>1, <2>1, <1>4, <1>5 DEF LogType
    <2>5. /\ y \in OpType /\ y.pc = "lock" /\ y.gen = g /\ y.kind = "release" /\ y.batch = <<>> /\ y.next = "no"
      <3>1. logOps[o].batch = <<>> /\ logOps[o].next = "no"
        BY <1>3, <1>4 DEF OpOK, OpType
      <3> QED BY <3>1, <2>2, <1>1, <1>3, <1>4 DEF OpType
    <2>6. logs[g].settled = "no" /\ \A i \in Places(logs, g) : logOps[logs[g].lockq[i]].kind # "release"
      BY <1>4, <1>8 DEF StoreOK, Releases, LogType
    <2>7. /\ UNCHANGED <<lines, accepted, acked, gone, disturbed, admission>> /\ logs[g].epoch >= logs[g].epoch
          /\ logOps[o].pc \in {"idle", "spawned"} /\ (logOps[o].pc = "spawned" => logOps[o].gen = g)
          /\ logOps[o].kind # "flush"
      BY <1>1, <1>3, <2>4
    <2> QED BY ONLY <2>3, <2>4, <2>5, <2>6, <2>7, <1>4, <1>6, JoinKeeps
  <1> QED BY <1>1, <1>2, <1>7, <1>8 DEF ReleaseBegins

\* A rewrite takes the batch that is being written for its tail, and waits
\* right behind it if nobody else was waiting.
LEMMA RewriteCallKeeps == ASSUME LogInv, NEW o \in LogOps, RewriteCall(o) PROVE LogInv'
  <1>1. PICK ls, g : ls = StateLogs /\ g = Len(StateLogs)
    OBVIOUS
  <1>2. /\ g \in Gens(ls) /\ StoreOK(ls, logOps) /\ AdmissionOK(admission, ls) /\ ls[g].retired = "no"
        /\ ("latePush" \notin disturbed => DataOK(lines, ls, logOps, accepted, gone, "cutover" \in disturbed))
    BY <1>1, StateStep
  <1>3. /\ Free(o) /\ logs' = Joined([ls EXCEPT ![g].epoch = @ + 1], o, g) /\ logOps' = [logOps EXCEPT ![o] = Rewriter(g)]
        /\ UNCHANGED <<lines, accepted, acked, gone, disturbed, admission>>
    BY <1>1 DEF RewriteCall, history
  <1>4. /\ logOps[o].pc = "idle" /\ logOps[o].kind = "none" /\ logOps \in [LogOps -> OpType]
        /\ accepted \in 0 .. MaxRecords
    BY <1>3, Known DEF Free, OpOK, NoOp
  <1>5. ls \in Seq(LogType) /\ ls[g] \in LogType /\ g \in Nat /\ ls[g].lockq \in Seq(LogOps) /\ ls[g].epoch \in Nat
    BY <1>2, StoreTypes
  <1>6. PICK x : x = [ls[g] EXCEPT !.epoch = @ + 1, !.lockq = Append(@, o)]
    OBVIOUS
  <1>7. PICK y : y = Rewriter(g)
    OBVIOUS
  <1>8. logs' = [ls EXCEPT ![g] = x] /\ logOps' = [logOps EXCEPT ![o] = y]
    BY <1>3, <1>5, <1>2, <1>6, <1>7 DEF Joined, Gens
  <1>9. /\ x \in LogType /\ x.lockq = Append(ls[g].lockq, o) /\ x.pending = ls[g].pending
        /\ x.failure = ls[g].failure /\ x.settled = ls[g].settled /\ x.retired = ls[g].retired
        /\ x.epoch = ls[g].epoch + 1 /\ x.scheduled = ls[g].scheduled
    <2>1. Append(ls[g].lockq, o) \in Seq(LogOps) /\ ls[g].epoch + 1 \in Nat
      BY <1>5
    <2> QED BY <2>1, <1>5, <1>6 DEF LogType
  <1>10. PICK q, t : /\ q = ls[g].lockq /\ t = IF q = <<>> THEN {} ELSE RecordsIn(logOps[Head(q)].batch)
    OBVIOUS
  <1>11. y = [Op("rewrite", g, "lock") EXCEPT !.tail = t, !.next = IF Len(q) = 1 THEN "yes" ELSE "no"]
    BY <1>1, <1>7, <1>10 DEF Rewriter
  <1>12. t \subseteq Records
    BY <1>10 DEF RecordsIn
  <1>13. /\ y \in OpType /\ y.pc = "lock" /\ y.gen = g /\ y.kind = "rewrite" /\ y.batch = <<>> /\ y.tail = t
         /\ (y.next = "yes" => Len(q) = 1)
    <2>1. PICK z : z = Op("rewrite", g, "lock")
      OBVIOUS
    <2>2. z \in OpType /\ z.pc = "lock" /\ z.gen = g /\ z.kind = "rewrite" /\ z.batch = <<>>
      BY <2>1, <1>4, <1>5, OpIs
    <2>3. y = [z EXCEPT !.tail = t, !.next = IF Len(q) = 1 THEN "yes" ELSE "no"]
      BY <2>1, <1>11
    <2> QED BY <2>2, <2>3, <1>12 DEF OpType
  <1>14. ls[g].settled = "no" /\ \A i \in Places(ls, g) : logOps[ls[g].lockq[i]].kind # "release"
    BY <1>2, <1>5 DEF StoreOK, Releases, LogType
  <1>15. ASSUME y.next = "yes" PROVE TailOK(lines, logs', logOps', o)
    <2>1. Len(q) = 1 /\ q \in Seq(LogOps) /\ q # <<>> /\ q[1] \in LogOps /\ t = RecordsIn(logOps[q[1]].batch)
      <3>1. Len(q) = 1 /\ q \in Seq(LogOps)
        BY <1>5, <1>10, <1>13, <1>15
      <3>2. q # <<>> /\ q[1] \in LogOps /\ Head(q) = q[1]
        <4>1. ASSUME q = <<>> PROVE FALSE
          <5>1. Len(q) = 0
            BY ONLY <4>1
          <5> QED BY ONLY <5>1, <3>1
        <4>2. q[1] \in LogOps
          <5>1. 1 \in 1 .. Len(q)
            BY ONLY <3>1
          <5>2. q \in Seq(LogOps)
            BY <3>1
          <5> QED BY ONLY <5>1, <5>2
        <4> QED BY <3>1, <4>1, <4>2, TailOf
      <3> QED BY <3>1, <3>2, <1>10
    <2>2. logOps[q[1]].gen = g /\ logOps[q[1]].pc \in Queued
      <3>1. 1 \in Places(ls, g)
        BY <2>1, <1>10 DEF Places
      <3> QED BY <3>1, <1>2, <1>10 DEF StoreOK, Queues
    <2>3. q[1] # o
      BY <2>2, <1>4 DEF Queued
    <2>4. logs'[g] = x /\ logOps'[o] = y /\ logOps'[q[1]] = logOps[q[1]]
      BY <2>1, <2>3, <1>2, <1>4, <1>5, <1>8, <1>13 DEF Gens
    <2>5. logs'[g].lockq[1] = q[1] /\ logs'[g].lockq[2] = o /\ Len(logs'[g].lockq) = 2
      BY <2>1, <2>4, <1>9, <1>10
    <2>6. ASSUME NEW r \in t
          PROVE  /\ logOps[q[1]].pc = "writing" /\ \E i \in Batched(ls, g) : ls[g].pending[i] = r
      <3>1. PICK i \in 1 .. Len(logOps[q[1]].batch) : logOps[q[1]].batch[i] = r
        <4>1. logOps[q[1]].batch \in Seq(Records)
          BY <2>1, <1>2, StoreTypes
        <4> QED BY <2>1, <4>1 DEF RecordsIn
      <3>2. logOps[q[1]].pc = "writing"
        <4>1. ASSUME logOps[q[1]].batch = <<>> PROVE FALSE
          <5>1. Len(logOps[q[1]].batch) = 0
            BY <4>1
          <5> QED BY <3>1, <5>1
        <4> QED BY <4>1, <2>1, <1>2 DEF StoreOK, OpsOK, OpOK
      <3>3. WriteOK(ls, logOps, q[1])
        BY <3>2, <2>1, <1>2 DEF StoreOK, Writes
      <3>4. /\ Len(logOps[q[1]].batch) <= Len(ls[g].pending) /\ logOps[q[1]].batch[i] = ls[g].pending[i]
        BY <3>1, <3>3, <2>2 DEF WriteOK
      <3>5. i \in Batched(ls, g)
        BY <3>1, <3>4, <2>1, <1>2, StoreTypes DEF Batched
      <3> QED BY <3>1, <3>2, <3>4, <3>5
    <2>7. TailIn(lines, logs', logOps'[o])
      <3>1. logs'[g].pending = ls[g].pending /\ Batched(logs', g) = Batched(ls, g)
        BY <2>4, <1>9 DEF Batched
      <3> QED BY <3>1, <2>4, <2>6, <1>13 DEF TailIn, InGen
    <2>8. ASSUME logOps'[o].tail # {} PROVE NextInLine(logs', logOps', o)
      <3>1. PICK r : r \in t
        BY <2>4, <2>8, <1>13
      <3>2. logOps[q[1]].pc = "writing"
        BY <2>6, <3>1
      <3>3. logOps[q[1]].epoch <= ls[g].epoch /\ logOps[q[1]].epoch \in Nat
        BY <3>2, <2>1, <2>2, <1>2, StoreTypes DEF StoreOK, Writes, WriteOK
      <3>4. logOps'[q[1]].epoch < logs'[g].epoch
        BY <3>3, <2>4, <1>5, <1>9
      <3>5. logOps'[o].gen = g
        BY <2>4, <1>13
      <3> QED BY <3>2, <3>4, <3>5, <2>4, <2>5 DEF NextInLine
    <2> QED BY <2>7, <2>8 DEF TailOK
  <1>16. /\ LogInv /\ o \in LogOps /\ x.epoch >= ls[g].epoch /\ logOps[o].pc \in {"idle", "spawned"}
         /\ (logOps[o].pc = "spawned" => logOps[o].gen = g) /\ logOps[o].kind # "flush"
         /\ UNCHANGED <<lines, accepted, acked, gone, disturbed, admission>>
    BY <1>3, <1>4, <1>5, <1>9
  <1>17. y.next = "yes" => TailOK(lines, logs', logOps', o)
    BY <1>15
  <1>18. /\ x \in LogType /\ x.lockq = Append(ls[g].lockq, o) /\ x.pending = ls[g].pending
         /\ x.failure = ls[g].failure /\ x.settled = ls[g].settled /\ x.retired = ls[g].retired
         /\ x.scheduled = ls[g].scheduled
    BY <1>9
  <1>19. /\ y \in OpType /\ y.pc = "lock" /\ y.gen = g /\ y.kind = "rewrite" /\ y.batch = <<>>
    BY <1>13
  <1> QED BY ONLY <1>2, <1>8, <1>14, <1>16, <1>17, <1>18, <1>19, JoinKeeps

(***************************************************************************)
(* Whoever has the mutex goes on; neither what is pending nor the file     *)
(* changes.                                                                *)
(***************************************************************************)
LEMMA AdvanceKeeps ==
    ASSUME LogInv, NEW o \in LogOps, NEW g, g \in Gens(logs), NEW y \in OpType,
           UNCHANGED <<lines, logs, accepted, acked, gone, disturbed, admission>>,
           logOps' = [logOps EXCEPT ![o] = y],
           logOps[o].gen = g, logOps[o].pc \in {"lock", "drain"}, Len(logs[g].lockq) >= 1, logs[g].lockq[1] = o,
           \A h \in Gens(logs) : h < g => logs[h].settled = "yes",
           y.gen = g, y.kind = logOps[o].kind, y.upto = logOps[o].upto, y.tail = logOps[o].tail, y.next = logOps[o].next,
           y.pc \in Active, OpOK(logs, y),
           y.pc = "writing" => logs[g].failure = "no" /\ y.batch = logs[g].pending /\ y.epoch = logs[g].epoch,
           y.pc = "replacing" => logOps[o].pc = "lock",
           y.pc # "replacing" /\ y.kind = "rewrite" => logOps[o].pc = "drain"
    PROVE  LogInv'
  <1>1. /\ logs \in Seq(LogType) /\ logOps \in [LogOps -> OpType] /\ StoreOK(logs, logOps) /\ logOps[o] \in OpType
    BY Known
  <1>2. OneOp(logOps, logOps', o) /\ logOps'[o] = y
    BY <1>1, OneOpIs
  <1>3. OneLog(logs, logs', g) /\ logs' = logs
    BY <1>1 DEF OneLog
  <1>4. StoreOK(logs', logOps')
    <2>1. /\ StoreOK(logs, logOps) /\ o \in LogOps /\ g \in Gens(logs) /\ OneLog(logs, logs', g) /\ OneOp(logOps, logOps', o)
          /\ logOps[o].gen = g /\ logOps[o].pc \in Queued /\ Len(logs[g].lockq) >= 1 /\ logs[g].lockq[1] = o
      BY <1>1, <1>2, <1>3 DEF Queued
    <2>2. /\ logs'[g].lockq = logs[g].lockq /\ logs'[g].settled = logs[g].settled /\ logs'[g].retired = logs[g].retired
          /\ logs'[g].scheduled = logs[g].scheduled
      BY <1>3
    <2>3. /\ logOps'[o].gen = g /\ logOps'[o].kind = logOps[o].kind /\ logOps'[o].pc \in Active
          /\ OpOK(logs, logOps'[o])
      BY <1>2
    <2>4. logOps'[o].pc = "writing" => /\ logs'[g].failure = "no" /\ logOps'[o].batch = logs'[g].pending
                                       /\ logOps'[o].epoch = logs'[g].epoch
      BY <1>2, <1>3
    <2>5. \A h \in Gens(logs) : h < g => logs[h].settled = "yes"
      OBVIOUS
    <2> QED BY ONLY <2>1, <2>2, <2>3, <2>4, <2>5, AdvanceStep
  <1>5. HistoryOK' /\ AdmissionOK(admission', logs')
    BY <1>3 DEF LogInv, HistoryOK
  <1>6. ASSUME "latePush" \notin disturbed'
        PROVE  DataOK(lines', logs', logOps', accepted', gone', "cutover" \in disturbed')
    <2>1. DataOK(lines, logs, logOps, accepted, gone, "cutover" \in disturbed)
      BY <1>6 DEF LogInv
    <2>2. ASSUME y.next = "yes" PROVE TailOK(lines, logs, logOps', o)
      <3>1. TailOK(lines, logs, logOps, o)
        BY <2>1, <2>2 DEF DataOK, TailsKept
      <3>2. TailIn(lines, logs, logOps[o])
        BY <3>1 DEF TailOK
      <3>3. y.pc # "lock"
        BY DEF Active
      <3>4. y.pc = "replacing" => logOps[o].pc = "lock"
        OBVIOUS
      <3>5. TailIn(lines, logs, y)
        BY <3>2, <3>3, <3>4 DEF TailIn
      <3> QED BY <3>3, <3>5, <1>2 DEF TailOK
    <2>3. \A p \in LogOps : logOps'[p].next = "yes" => TailOK(lines, logs', logOps', p)
      <3>1. /\ StoreOK(logs, logOps) /\ TailsKept(lines, logs, logOps) /\ OneOp(logOps, logOps', o)
            /\ logOps[o].pc # "writing"
        BY <2>1, <1>1, <1>2 DEF DataOK
      <3>2. \A h \in Gens(logs) : /\ logs'[h].lockq = logs[h].lockq /\ logs'[h].epoch = logs[h].epoch
                                  /\ Len(logs[h].pending) <= Len(logs'[h].pending)
                                  /\ \A i \in Batched(logs, h) : logs'[h].pending[i] = logs[h].pending[i]
        BY <1>1, <1>3, StoreTypes
      <3>3. o \in LogOps /\ logOps'[o] # logOps[o] /\ logOps'[o].next = "yes" => TailOK(lines, logs', logOps', o)
        BY <2>2, <1>2, <1>3
      <3> QED BY ONLY <3>1, <3>2, <3>3, QuietTails
    <2>4. ASSUME y.kind = "call" PROVE CallOK(logs, y, accepted)
      <3>1. CallOK(logs, logOps[o], accepted)
        BY <2>1, <2>4 DEF DataOK, CallsCover
      <3> QED BY <3>1 DEF CallOK, Batched
    <2>5. y.kind = "rewrite" /\ y.pc \in {"drain", "writing"} => Clean(lines)
      BY <2>1 DEF DataOK, RewriteIsClean
    <2>6. /\ o \in LogOps /\ logOps'[o].kind = "call" => CallOK(logs, logOps'[o], accepted)
          /\ o \in LogOps /\ logOps'[o].kind = "rewrite" /\ logOps'[o].pc \in {"drain", "writing"} => Clean(lines)
      BY <2>4, <2>5, <1>2
    <2>7. /\ OneOp(logOps, logOps', o) /\ Gens(logs') = Gens(logs)
          /\ \A h \in Gens(logs) : /\ logs'[h].pending = logs[h].pending /\ logs'[h].failure = logs[h].failure
                                   /\ logs'[h].settled = logs[h].settled
      BY <1>2, <1>3
    <2>8. DataOK(lines, logs', logOps', accepted, gone, "cutover" \in disturbed)
      BY ONLY <2>1, <2>3, <2>6, <2>7, DataStep
    <2> QED BY <2>8
  <1> QED BY <1>4, <1>5, <1>6 DEF LogInv

\* The head of the queue is at its mutex.
LEMMA HeadHolds ==
    ASSUME LogInv, NEW o \in LogOps, logOps[o].pc \in Queued, logOps[o].pc \in Active \/ Holds(o)
    PROVE  /\ logOps[o].gen \in Gens(logs) /\ Len(logs[logOps[o].gen].lockq) >= 1 /\ logs[logOps[o].gen].lockq[1] = o
  <1>1. StoreOK(logs, logOps) /\ OpOK(logs, logOps[o])
    BY Known
  <1>2. CASE logOps[o].pc \in Active
    BY <1>1, <1>2, HeadIsUnique
  <1>3. CASE Holds(o)
    <2>1. PICK g : g = logOps[o].gen
      OBVIOUS
    <2>2. g \in Gens(logs)
      BY <2>1, <1>1 DEF OpOK, Queued
    <2>3. \E i \in Places(logs, g) : logs[g].lockq[i] = o
      BY <2>1, <1>1 DEF StoreOK, Queues
    <2>4. logs[g].lockq \in Seq(LogOps) /\ Len(logs[g].lockq) \in Nat
      BY <2>2, <1>1, StoreTypes
    <2>5. Len(logs[g].lockq) >= 1
      BY <2>3, <2>4 DEF Places
    <2>6. Head(logs[g].lockq) = logs[g].lockq[1]
      BY <2>4, <2>5
    <2> QED BY <2>1, <2>2, <2>5, <2>6, <1>3 DEF Holds
  <1> QED BY <1>2, <1>3

\* The head of the queue has the mutex, and every earlier generation has settled.
LEMMA LockedKeeps == ASSUME LogInv, NEW o \in LogOps, Locked(o) PROVE LogInv'
  <1>1. PICK g : g = logOps[o].gen
    OBVIOUS
  <1>2. /\ logOps[o].pc = "lock" /\ Holds(o) /\ Ready(g) /\ UNCHANGED <<lines, logs, accepted, acked, gone, disturbed, admission>>
        /\ logOps' = [logOps EXCEPT ![o].pc = IF logOps[o].kind = "rewrite" THEN "replacing" ELSE "drain"]
    BY <1>1 DEF Locked, history
  <1>3. /\ logOps \in [LogOps -> OpType] /\ logOps[o] \in OpType /\ OpOK(logs, logOps[o]) /\ StoreOK(logs, logOps)
    BY Known
  <1>4. g \in Gens(logs) /\ Len(logs[g].lockq) >= 1 /\ logs[g].lockq[1] = o
    BY <1>1, <1>2, HeadHolds DEF Queued
  <1>5. \A h \in Gens(logs) : h < g => logs[h].settled = "yes"
    <2>1. CASE g > 1
      <3>1. g - 1 \in Gens(logs) /\ logs[g - 1].settled = "yes"
        BY <2>1, <1>2, <1>3, <1>4, StoreTypes DEF Ready, Gens
      <3>2. \A h \in Gens(logs) : h < g - 1 => logs[h].settled = "yes"
        BY <3>1, <1>3 DEF StoreOK, Releases
      <3>3. \A h \in Gens(logs) : h < g => h < g - 1 \/ h = g - 1
        BY <1>3, <1>4, StoreTypes
      <3> QED BY <3>1, <3>2, <3>3
    <2>2. CASE ~(g > 1)
      BY <2>2, <1>3, <1>4, StoreTypes
    <2> QED BY <2>1, <2>2
  <1>6. PICK pc : pc = IF logOps[o].kind = "rewrite" THEN "replacing" ELSE "drain"
    OBVIOUS
  <1>7. PICK y : y = [logOps[o] EXCEPT !.pc = pc]
    OBVIOUS
  <1>8. logOps' = [logOps EXCEPT ![o] = y]
    BY <1>2, <1>3, <1>6, <1>7
  <1>9. /\ y \in OpType /\ y.gen = g /\ y.kind = logOps[o].kind /\ y.upto = logOps[o].upto /\ y.tail = logOps[o].tail
        /\ y.next = logOps[o].next /\ y.pc = pc /\ y.batch = logOps[o].batch
    BY <1>1, <1>3, <1>6, <1>7 DEF OpType
  <1>10. y.pc \in Active /\ y.pc # "writing" /\ OpOK(logs, y) /\ (y.pc # "replacing" => y.kind # "rewrite")
    BY <1>2, <1>3, <1>4, <1>6, <1>9 DEF OpOK, Active
  <1>11. /\ LogInv /\ o \in LogOps /\ logOps[o].gen = g /\ logOps[o].pc \in {"lock", "drain"} /\ logOps[o].pc = "lock"
         /\ UNCHANGED <<lines, logs, accepted, acked, gone, disturbed, admission>>
    BY <1>1, <1>2
  <1> QED BY ONLY <1>4, <1>5, <1>8, <1>9, <1>10, <1>11, AdvanceKeeps

\* drain_locked copies what is pending.
LEMMA DrainTakesKeeps == ASSUME LogInv, NEW o \in LogOps, DrainTakes(o) PROVE LogInv'
  <1>1. PICK g : g = logOps[o].gen
    OBVIOUS
  <1>2. /\ logOps[o].pc = "drain" /\ logs[g].failure = "no" /\ logs[g].pending # <<>>
        /\ UNCHANGED <<lines, logs, accepted, acked, gone, disturbed, admission>>
        /\ logOps' = [logOps EXCEPT ![o].pc = "writing", ![o].batch = logs[g].pending, ![o].epoch = logs[g].epoch]
    BY <1>1 DEF DrainTakes, history
  <1>3. /\ logOps \in [LogOps -> OpType] /\ logOps[o] \in OpType /\ OpOK(logs, logOps[o]) /\ StoreOK(logs, logOps)
    BY Known
  <1>4. g \in Gens(logs) /\ Len(logs[g].lockq) >= 1 /\ logs[g].lockq[1] = o
    BY <1>1, <1>2, HeadHolds DEF Queued, Active
  <1>5. \A h \in Gens(logs) : h < g => logs[h].settled = "yes"
    BY <1>1, <1>2, <1>3 DEF StoreOK, Releases, Active
  <1>6. PICK y : y = [logOps[o] EXCEPT !.pc = "writing", !.batch = logs[g].pending, !.epoch = logs[g].epoch]
    OBVIOUS
  <1>7. logOps' = [logOps EXCEPT ![o] = y]
    BY <1>2, <1>3, <1>6
  <1>8. logs[g].pending \in Seq(Records) /\ logs[g].epoch \in Nat
    BY <1>3, <1>4, StoreTypes
  <1>9. /\ y \in OpType /\ y.gen = g /\ y.kind = logOps[o].kind /\ y.upto = logOps[o].upto /\ y.tail = logOps[o].tail
        /\ y.next = logOps[o].next /\ y.pc = "writing" /\ y.batch = logs[g].pending /\ y.epoch = logs[g].epoch
    BY <1>1, <1>3, <1>6, <1>8 DEF OpType
  <1>10. y.pc \in Active /\ y.pc # "replacing" /\ OpOK(logs, y)
    BY <1>2, <1>3, <1>4, <1>9 DEF OpOK, Active
  <1>11. /\ LogInv /\ o \in LogOps /\ logOps[o].gen = g /\ logOps[o].pc \in {"lock", "drain"} /\ logOps[o].pc = "drain"
         /\ UNCHANGED <<lines, logs, accepted, acked, gone, disturbed, admission>> /\ logs[g].failure = "no"
    BY <1>1, <1>2
  <1> QED BY ONLY <1>4, <1>5, <1>7, <1>9, <1>10, <1>11, AdvanceKeeps

\* The append was done, and no rewrite was called meanwhile.
LEMMA AppendedKeeps ==
    ASSUME LogInv, NEW o \in LogOps, NEW g, g = logOps[o].gen, logOps[o].pc = "writing",
           lines' = Written(lines, logOps[o].batch), logs[g].epoch = logOps[o].epoch,
           logs' = [logs EXCEPT ![g].pending = SubSeq(@, Len(logOps[o].batch) + 1, Len(@))],
           logOps' = [logOps EXCEPT ![o].pc = "drain", ![o].batch = <<>>, ![o].epoch = 0],
           UNCHANGED <<admission, accepted, acked, gone, disturbed>>
    PROVE  LogInv'
  <1>1. /\ logs \in Seq(LogType) /\ logOps \in [LogOps -> OpType] /\ StoreOK(logs, logOps) /\ logOps[o] \in OpType
        /\ OpOK(logs, logOps[o]) /\ accepted \in 0 .. MaxRecords /\ accepted \in Nat /\ lines \in Seq(Lines)
        /\ logOps[o].batch \in Seq(Records) /\ acked \subseteq Records
    <2>1. acked \subseteq Records
      BY DEF LogInv, HistoryOK
    <2>2. logOps[o].batch \in Seq(Records)
      BY Known, StoreTypes
    <2> QED BY <2>1, <2>2, Known
  <1>2. g \in Gens(logs) /\ Len(logs[g].lockq) >= 1 /\ logs[g].lockq[1] = o
    BY HeadHolds DEF Queued, Active
  <1>3. PICK x : x = [logs[g] EXCEPT !.pending = SubSeq(@, Len(logOps[o].batch) + 1, Len(@))]
    OBVIOUS
  <1>4. PICK y : y = [logOps[o] EXCEPT !.pc = "drain", !.batch = <<>>, !.epoch = 0]
    OBVIOUS
  <1>5. logs' = [logs EXCEPT ![g] = x] /\ logOps' = [logOps EXCEPT ![o] = y]
    BY <1>1, <1>2, <1>3, <1>4 DEF Gens
  <1>6. /\ x \in LogType /\ x.lockq = logs[g].lockq /\ x.settled = logs[g].settled /\ x.retired = logs[g].retired
        /\ x.scheduled = logs[g].scheduled /\ x.failure = logs[g].failure /\ x.epoch = logs[g].epoch
        /\ x.pending = SubSeq(logs[g].pending, Len(logOps[o].batch) + 1, Len(logs[g].pending))
    <2>1. logs[g] \in LogType /\ logs[g].pending \in Seq(Records) /\ Len(logs[g].pending) \in Nat /\ Len(logOps[o].batch) \in Nat
      BY <1>1, <1>2, StoreTypes
    <2>2. Len(logOps[o].batch) <= Len(logs[g].pending)
      BY <1>1 DEF StoreOK, Writes, WriteOK
    <2>3. SubSeq(logs[g].pending, Len(logOps[o].batch) + 1, Len(logs[g].pending)) \in Seq(Records)
      BY <2>1, <2>2, FrontAndRest
    <2> QED BY <2>1, <2>3, <1>3 DEF LogType
  <1>7. /\ y \in OpType /\ y.pc = "drain" /\ y.gen = g /\ y.kind = logOps[o].kind /\ y.batch = <<>>
        /\ y.next = logOps[o].next /\ y.tail = logOps[o].tail /\ y.upto = logOps[o].upto
    <2>1. <<>> \in Seq(Records) /\ 0 \in Nat
      OBVIOUS
    <2> QED BY <2>1, <1>1, <1>4 DEF OpType
  <1>8. OneLog(logs, logs', g) /\ logs'[g] = x /\ Gens(logs') = Gens(logs)
    <2>0. logs' = [logs EXCEPT ![g] = x] /\ g \in Gens(logs) /\ x \in LogType /\ logs \in Seq(LogType)
      BY <1>1, <1>2, <1>5, <1>6
    <2>1. logs' \in Seq(LogType) /\ Len(logs') = Len(logs)
      BY ONLY <2>0 DEF Gens
    <2>2. logs'[g] = x /\ \A h \in Gens(logs) : h # g => logs'[h] = logs[h]
      BY ONLY <2>0 DEF Gens
    <2> QED BY <2>1, <2>2 DEF OneLog, Gens
  <1>9. OneOp(logOps, logOps', o) /\ logOps'[o] = y
    BY <1>1, <1>5, <1>7, OneOpIs
  <1>10. StoreOK(logs', logOps')
    <2>1. /\ StoreOK(logs, logOps) /\ o \in LogOps /\ g \in Gens(logs) /\ OneLog(logs, logs', g) /\ OneOp(logOps, logOps', o)
          /\ logOps[o].gen = g /\ logOps[o].pc \in Queued /\ Len(logs[g].lockq) >= 1 /\ logs[g].lockq[1] = o
      BY <1>1, <1>2, <1>8, <1>9 DEF Queued
    <2>2. /\ logs'[g].lockq = logs[g].lockq /\ logs'[g].settled = logs[g].settled /\ logs'[g].retired = logs[g].retired
          /\ logs'[g].scheduled = logs[g].scheduled
      BY <1>6, <1>8
    <2>3. /\ logOps'[o].gen = g /\ logOps'[o].kind = logOps[o].kind /\ logOps'[o].pc \in Active /\ logOps'[o].pc # "writing"
      BY <1>7, <1>9 DEF Active
    <2>4. OpOK(logs, logOps'[o])
      BY <1>1, <1>2, <1>7, <1>9 DEF OpOK
    <2>5. \A h \in Gens(logs) : h < g => logs[h].settled = "yes"
      BY <1>1 DEF StoreOK, Releases, Active
    <2> QED BY ONLY <2>1, <2>2, <2>3, <2>4, <2>5, AdvanceStep
  <1>11. lines' \in Seq(Lines)
    BY <1>1, WrittenGrows DEF Grown
  <1>12. HistoryOK' /\ AdmissionOK(admission', logs')
    BY <1>8, <1>11, AdmissionStays DEF LogInv, HistoryOK
  <1>13. ASSUME "latePush" \notin disturbed'
         PROVE  DataOK(lines', logs', logOps', accepted', gone', "cutover" \in disturbed')
    <2>1. DataOK(lines, logs, logOps, accepted, gone, "cutover" \in disturbed)
      BY <1>13 DEF LogInv
    <2>2. PICK cut : cut = ("cutover" \in disturbed)
      OBVIOUS
    <2>3. cut \in BOOLEAN /\ DataOK(lines, logs, logOps, accepted, gone, cut)
      BY <2>1, <2>2
    <2>4. /\ logOps[o].gen = g /\ logOps[o].pc = "writing" /\ logOps[o].epoch = logs[g].epoch
          /\ o \in LogOps /\ g \in Gens(logs) /\ OneLog(logs, logs', g) /\ OneOp(logOps, logOps', o)
      BY <1>2, <1>8, <1>9
    <2>5. /\ Grown(lines, lines', logOps[o].batch) /\ (Clean(lines) => Clean(lines'))
          /\ (Whole(lines') \/ Clean(lines) => \A i \in 1 .. Len(logOps[o].batch) : InFile(lines', logOps[o].batch[i]))
      BY <1>1, WrittenGrows
    <2>6. /\ logs'[g].pending = SubSeq(logs[g].pending, Len(logOps[o].batch) + 1, Len(logs[g].pending))
          /\ logs'[g].failure = logs[g].failure /\ logs'[g].settled = logs[g].settled
          /\ logs'[g].lockq = logs[g].lockq /\ logs'[g].epoch = logs[g].epoch
      BY <1>6, <1>8
    <2>7. /\ logOps'[o].pc = "drain" /\ logOps'[o].gen = g /\ logOps'[o].kind = logOps[o].kind
          /\ logOps'[o].next = logOps[o].next /\ logOps'[o].tail = logOps[o].tail /\ logOps'[o].upto = logOps[o].upto
      BY <1>7, <1>9
    <2>8. DataOK(lines', logs', logOps', accepted, gone, cut)
      BY ONLY <1>1, <1>11, <2>3, <2>4, <2>5, <2>6, <2>7, WrittenData
    <2> QED BY <2>2, <2>8
  <1> QED BY <1>10, <1>12, <1>13 DEF LogInv

\* Whatever part of a batch got to the file, it is behind what was there and
\* before what later generations have pending.
LEMMA GrownFirst ==
    ASSUME NEW f \in Seq(Lines), NEW w, NEW ls, NEW ops, NEW acc \in Nat, NEW cut \in BOOLEAN, StoreOK(ls, ops),
           SettledIsDone(ls), PendingInOrder(ls, acc), LinesFirst(f, ls, acc, cut),
           NEW o \in LogOps, ops[o].pc = "writing", Grown(f, w, ops[o].batch)
    PROVE  /\ \A i \in 1 .. Len(w) : w[i] <= acc
           /\ ~cut => /\ Rising(w)
                      /\ \A h \in Gens(ls) : h # ops[o].gen /\ ls[h].failure = "no" =>
                            \A i \in 1 .. Len(w), j \in Batched(ls, h) : w[i] < ls[h].pending[j]
  <1>1. PICK b, g : b = ops[o].batch /\ g = ops[o].gen
    OBVIOUS
  <1>2. /\ b \in Seq(Records) /\ Len(b) \in Nat /\ g \in Gens(ls) /\ Len(b) <= Len(ls[g].pending)
        /\ \A i \in 1 .. Len(b) : b[i] = ls[g].pending[i]
    <2>1. g \in Gens(ls)
      BY <1>1 DEF StoreOK, OpsOK, OpOK
    <2>2. WriteOK(ls, ops, o)
      BY DEF StoreOK, Writes
    <2>3. b \in Seq(Records) /\ Len(b) \in Nat
      BY <1>1, StoreTypes
    <2>4. Len(b) <= Len(ls[g].pending) /\ \A i \in 1 .. Len(b) : b[i] = ls[g].pending[i]
      BY <2>2, <1>1 DEF WriteOK
    <2> QED BY <2>1, <2>3, <2>4
  <1>3. \A i \in 1 .. Len(b) : b[i] <= acc /\ b[i] \in Records /\ i \in Batched(ls, g)
    <2>1. \A i \in 1 .. Len(b) : i \in Batched(ls, g)
      BY <1>2, StoreTypes DEF Batched
    <2> QED BY <2>1, <1>2 DEF PendingInOrder
  <1>4. w \in Seq(Lines) /\ \A i \in 1 .. Len(w) : w[i] \in Int /\ (w[i] > 0 => InFile(f, w[i]) \/ InFile(b, w[i]))
    <2>1. w \in Seq(Lines) /\ \A i \in 1 .. Len(w) : w[i] > 0 => InFile(f, w[i]) \/ InFile(b, w[i])
      BY <1>1 DEF Grown
    <2>2. \A i \in 1 .. Len(w) : w[i] \in Lines
      BY <2>1
    <2>3. \A i \in 1 .. Len(w) : w[i] \in Int
      BY ONLY <2>2, LineKinds
    <2> QED BY <2>1, <2>3
  <1>5. \A i \in 1 .. Len(f) : f[i] <= acc
    BY DEF LinesFirst
  <1>6. ASSUME NEW i \in 1 .. Len(w) PROVE w[i] <= acc
    <2>1. CASE w[i] > 0
      BY <2>1, <1>3, <1>4, <1>5 DEF InFile
    <2>2. CASE ~(w[i] > 0)
      BY <2>2, <1>4
    <2> QED BY <2>1, <2>2
  <1>7. ASSUME ~cut PROVE Rising(w)
    <2>1. Rising(b) /\ Rising(f) /\ \A i \in 1 .. Len(f), j \in 1 .. Len(b) : f[i] < b[j]
      <3>1. /\ Rising(ops[o].batch) /\ Rising(f)
            /\ \A i \in 1 .. Len(f), j \in 1 .. Len(ops[o].batch) : f[i] < ops[o].batch[j]
        BY <1>7, BatchRises
      <3> QED BY <3>1, <1>1
    <2> QED BY <2>1, <1>1 DEF Grown
  <1>8. ASSUME ~cut, NEW h \in Gens(ls), h # g, ls[h].failure = "no", NEW i \in 1 .. Len(w), NEW j \in Batched(ls, h)
        PROVE  w[i] < ls[h].pending[j]
    <2>1. h \in Nat /\ g \in Nat /\ ls[h].pending[j] \in Records /\ ls[h].pending \in Seq(Records)
      BY <1>2, <1>8, StoreTypes
    <2>2. ls[h].pending[j] \in Nat /\ ls[h].pending[j] > 0
      BY <2>1, LineKinds
    <2>3. ~(h < g)
      <3>1. ASSUME h < g PROVE FALSE
        <4>1. ls[h].settled = "yes"
          BY <3>1, <1>1, <1>8 DEF StoreOK, Releases, Active
        <4>2. ls[h].pending = <<>>
          BY <4>1, <1>8 DEF SettledIsDone
        <4>3. Len(ls[h].pending) = 0
          BY <4>2
        <4> QED BY <4>3, <1>8 DEF Batched
      <3> QED BY <3>1
    <2>4. g < h
      BY <2>1, <2>3, <1>8
    <2>5. CASE InFile(f, w[i])
      BY <2>5, <1>8 DEF LinesFirst, InFile
    <2>6. CASE InFile(b, w[i])
      <3>1. PICK k \in 1 .. Len(b) : b[k] = w[i]
        BY <2>6 DEF InFile
      <3>2. ls[g].pending[k] < ls[h].pending[j]
        BY <3>1, <2>4, <1>2, <1>3, <1>8 DEF PendingInOrder
      <3> QED BY <3>1, <3>2, <1>2
    <2>7. CASE ~(w[i] > 0)
      BY <2>2, <2>7, <1>4
    <2> QED BY <2>5, <2>6, <2>7, <1>4
  <1> QED BY <1>1, <1>6, <1>7, <1>8

\* The order of the file w, fl being the failure of generation g then.
LeavesOrder(w, g, fl, cut2) ==
    /\ \A i \in 1 .. Len(w) : w[i] <= accepted
    /\ ~cut2 =>
          /\ Rising(w)
          /\ \A h \in Gens(logs) : (IF h = g THEN fl ELSE logs[h].failure) = "no" =>
                \A i \in 1 .. Len(w), j \in Batched(logs, h) : w[i] < logs[h].pending[j]

(***************************************************************************)
(* Whoever has the mutex leaves; w is the file then, cut2 whether a batch  *)
(* was written that stays pending.                                         *)
(***************************************************************************)
LEMMA Leaves ==
    ASSUME LogInv, NEW o \in LogOps, NEW g, g = logOps[o].gen, logOps[o].pc \in Active,
           NEW ls, NEW fl \in {"no", "yes"}, NEW outcome,
           (ls = logs /\ fl = logs[g].failure) \/ (ls = [logs EXCEPT ![g].failure = "yes"] /\ fl = "yes"),
           Ends(o, ls, outcome),
           \/ fl = "yes"
           \/ logs[g].pending = <<>>
           \/ logOps[o].kind # "release" /\ \E p \in LogOps : p # o /\ logOps[p].gen = g /\ logOps[p].pc = "lock",
           NEW w, NEW cut2, w \in Seq(Lines), \A r \in Records : InFile(lines, r) => InFile(w, r), Whole(w) => Whole(lines),
           w = lines \/ logOps[o].pc = "writing", UNCHANGED admission,
           "latePush" \notin disturbed => LeavesOrder(w, g, fl, cut2)
    PROVE  /\ StoreOK(logs', logOps') /\ acked' \subseteq Records /\ AdmissionOK(admission', logs')
           /\ Gens(logs') = Gens(logs) /\ \A h \in Gens(logs) : logs'[h].pending = logs[h].pending
           /\ "latePush" \notin disturbed => DataOK(w, logs', logOps', accepted, gone, cut2)
  <1>1. /\ logs \in Seq(LogType) /\ logOps \in [LogOps -> OpType] /\ StoreOK(logs, logOps) /\ logOps[o] \in OpType
        /\ accepted \in 0 .. MaxRecords /\ acked \subseteq Records /\ gone \subseteq Records
    BY Known DEF LogInv, HistoryOK
  <1>2. g \in Gens(logs) /\ Len(logs[g].lockq) >= 1 /\ logs[g].lockq[1] = o /\ logs[g] \in LogType
    <2>1. logOps[o].pc \in Queued
      BY DEF Active, Queued
    <2> QED BY <2>1, Known, HeadHolds
  <1>3. PICK st : st = IF logOps[o].kind = "release" THEN "yes" ELSE logs[g].settled
    OBVIOUS
  <1>4. PICK x : x = [logs[g] EXCEPT !.failure = fl, !.lockq = Tail(@), !.settled = st]
    OBVIOUS
  <1>5. logs' = [logs EXCEPT ![g] = x] /\ logOps' = [logOps EXCEPT ![o] = NoOp]
    <2>1. ls \in Seq(LogType) /\ Len(ls) = Len(logs) /\ ls[g].settled = logs[g].settled /\ ls[g].lockq = logs[g].lockq
          /\ ls[g] = [logs[g] EXCEPT !.failure = fl] /\ (\A h \in Gens(logs) : h # g => ls[h] = logs[h])
      <3>1. CASE ls = logs /\ fl = logs[g].failure
        BY <3>1, <1>1, <1>2 DEF LogType
      <3>2. CASE ls = [logs EXCEPT ![g].failure = "yes"] /\ fl = "yes"
        <4>1. PICK z : z = [logs[g] EXCEPT !.failure = "yes"]
          OBVIOUS
        <4>2. z \in LogType /\ z.settled = logs[g].settled /\ z.lockq = logs[g].lockq
          BY <4>1, <1>2 DEF LogType
        <4>3. ls = [logs EXCEPT ![g] = z] /\ g \in Gens(logs) /\ logs \in Seq(LogType)
          BY <3>2, <4>1, <1>1, <1>2
        <4>4. ls \in Seq(LogType) /\ Len(ls) = Len(logs)
          BY ONLY <4>2, <4>3 DEF Gens
        <4>5. ls[g] = z /\ \A h \in Gens(logs) : h # g => ls[h] = logs[h]
          BY ONLY <4>2, <4>3 DEF Gens
        <4> QED BY <4>1, <4>2, <4>4, <4>5, <3>2
      <3> QED BY <3>1, <3>2
    <2>2. logs' = [ls EXCEPT ![g].lockq = Tail(@), ![g].settled = st] /\ logOps' = [logOps EXCEPT ![o] = NoOp]
      BY <2>1, <1>3 DEF Ends
    <2>3. [ls[g] EXCEPT !.lockq = Tail(@), !.settled = st] = x
      BY <2>1, <1>2, <1>4 DEF LogType
    <2>4. logs' = [ls EXCEPT ![g] = x]
      <3>1. g \in DOMAIN ls
        BY <2>1, <1>2 DEF Gens
      <3>2. [ls EXCEPT ![g].lockq = Tail(@), ![g].settled = st] =
               [ls EXCEPT ![g] = [ls[g] EXCEPT !.lockq = Tail(@), !.settled = st]]
        BY ONLY <3>1
      <3> QED BY <2>2, <2>3, <3>2, Zenon
    <2>5. [ls EXCEPT ![g] = x] = [logs EXCEPT ![g] = x]
      BY <2>1, <1>1, <1>2 DEF Gens
    <2> QED BY <2>2, <2>4, <2>5
  <1>6. /\ x \in LogType /\ x.lockq = Tail(logs[g].lockq) /\ x.pending = logs[g].pending /\ x.retired = logs[g].retired
        /\ x.scheduled = logs[g].scheduled /\ x.epoch = logs[g].epoch /\ x.failure = fl /\ x.settled = st
    <2>1. logs[g].lockq \in Seq(LogOps) /\ logs[g].lockq # <<>>
      BY <1>2 DEF LogType
    <2>2. Tail(logs[g].lockq) \in Seq(LogOps)
      BY <2>1, TailOf
    <2>3. st \in {"no", "yes"}
      BY <1>2, <1>3 DEF LogType
    <2> QED BY <2>2, <2>3, <1>2, <1>4 DEF LogType
  <1>7. OneLog(logs, logs', g) /\ logs'[g] = x /\ Gens(logs') = Gens(logs)
    <2>0. logs' = [logs EXCEPT ![g] = x] /\ g \in Gens(logs) /\ x \in LogType /\ logs \in Seq(LogType)
      BY <1>1, <1>2, <1>5, <1>6
    <2>1. logs' \in Seq(LogType) /\ Len(logs') = Len(logs)
      BY ONLY <2>0 DEF Gens
    <2>2. logs'[g] = x /\ \A h \in Gens(logs) : h # g => logs'[h] = logs[h]
      BY ONLY <2>0 DEF Gens
    <2> QED BY <2>1, <2>2 DEF OneLog, Gens
  <1>8. OneOp(logOps, logOps', o) /\ logOps'[o] = NoOp
    <2>1. NoOp \in OpType
      BY LogAssumption DEF NoOp, OpType
    <2> QED BY <2>1, <1>1, <1>5, OneOpIs
  <1>9. /\ StoreOK(logs, logOps) /\ o \in LogOps /\ g \in Gens(logs) /\ OneLog(logs, logs', g) /\ OneOp(logOps, logOps', o)
        /\ logOps[o].gen = g /\ logOps[o].pc \in Active /\ logOps'[o] = NoOp
        /\ logs'[g].lockq = Tail(logs[g].lockq) /\ logs'[g].pending = logs[g].pending
        /\ (logs'[g].failure = logs[g].failure \/ logs'[g].failure = "yes")
        /\ logs'[g].settled = IF logOps[o].kind = "release" THEN "yes" ELSE logs[g].settled
    BY <1>1, <1>2, <1>3, <1>6, <1>7, <1>8
  <1>10. StoreOK(logs', logOps')
    <2>1. /\ logs'[g].retired = logs[g].retired /\ logs'[g].scheduled = logs[g].scheduled /\ logs'[g].epoch = logs[g].epoch
      BY <1>6, <1>7
    <2>2. \/ logs'[g].failure = "yes" \/ logs[g].pending = <<>>
          \/ \E p \in LogOps : p # o /\ logOps[p].gen = g /\ logOps[p].pc = "lock"
      BY <1>6, <1>7
    <2> QED BY ONLY <1>9, <2>1, <2>2, LeaveStep
  <1>11. /\ acked' = IF outcome = "ok" /\ logOps[o].kind = "call" THEN acked \cup ((1 .. logOps[o].upto) \ gone) ELSE acked
    BY DEF Ends
  <1>12. acked' \subseteq Records /\ AdmissionOK(admission', logs')
    <2>1. 1 .. logOps[o].upto \subseteq Records
      BY <1>1, LogAssumption DEF OpType, Records
    <2> QED BY <2>1, <1>1, <1>7, <1>11, AdmissionStays DEF LogInv
  <1>13. ASSUME "latePush" \notin disturbed PROVE DataOK(w, logs', logOps', accepted, gone, cut2)
    <2>1. DataOK(lines, logs, logOps, accepted, gone, "cutover" \in disturbed)
      BY <1>13 DEF LogInv
    <2>2. PICK cut : cut = ("cutover" \in disturbed)
      OBVIOUS
    <2>3. DataOK(lines, logs, logOps, accepted, gone, cut)
      BY <2>1, <2>2
    <2>4. logOps[o].kind = "release" => logs'[g].failure = "yes" \/ logs[g].pending = <<>>
      BY <1>6, <1>7
    <2>5. LinesFirst(w, logs', accepted, cut2)
      <3>1. \A h \in Gens(logs) : /\ Batched(logs', h) = Batched(logs, h) /\ logs'[h].pending = logs[h].pending
                                  /\ logs'[h].failure = IF h = g THEN fl ELSE logs[h].failure
        <4>1. \A h \in Gens(logs) : h # g => logs'[h] = logs[h]
          BY <1>7 DEF OneLog
        <4> QED BY <4>1, <1>6, <1>7 DEF Batched
      <3>2. \A i \in 1 .. Len(w) : w[i] <= accepted
        BY <1>13 DEF LeavesOrder
      <3>3. ASSUME ~cut2
            PROVE  /\ Rising(w)
                   /\ \A h \in Gens(logs) : (IF h = g THEN fl ELSE logs[h].failure) = "no" =>
                          \A i \in 1 .. Len(w), j \in Batched(logs, h) : w[i] < logs[h].pending[j]
        BY <3>3, <1>13 DEF LeavesOrder
      <3> QED BY <3>1, <3>2, <3>3, <1>7 DEF LinesFirst
    <2>6. /\ \A r \in Records : InFile(lines, r) => InFile(w, r)
          /\ (Whole(w) => Whole(lines)) /\ (w = lines \/ logOps[o].pc = "writing")
      OBVIOUS
    <2> QED BY ONLY <1>1, <1>9, <2>3, <2>4, <2>5, <2>6, LeaveData
  <1>14. \A h \in Gens(logs) : logs'[h].pending = logs[h].pending
    BY <1>6, <1>7 DEF OneLog
  <1> QED BY <1>7, <1>10, <1>12, <1>13, <1>14

\* The same, where lines' is the file that is left.
LEMMA LeaveKeeps ==
    ASSUME LogInv, NEW o \in LogOps, NEW g, g = logOps[o].gen, logOps[o].pc \in Active,
           NEW ls, NEW fl \in {"no", "yes"}, NEW outcome,
           (ls = logs /\ fl = logs[g].failure) \/ (ls = [logs EXCEPT ![g].failure = "yes"] /\ fl = "yes"),
           Ends(o, ls, outcome),
           \/ fl = "yes"
           \/ logs[g].pending = <<>>
           \/ logOps[o].kind # "release" /\ \E p \in LogOps : p # o /\ logOps[p].gen = g /\ logOps[p].pc = "lock",
           lines' \in Seq(Lines), \A r \in Records : InFile(lines, r) => InFile(lines', r), Whole(lines') => Whole(lines),
           lines' = lines \/ logOps[o].pc = "writing",
           UNCHANGED <<admission, accepted, gone>>, disturbed' \in {disturbed, disturbed \cup {"cutover"}},
           "latePush" \notin disturbed =>
              /\ \A i \in 1 .. Len(lines') : lines'[i] <= accepted
              /\ "cutover" \notin disturbed' =>
                    /\ Rising(lines')
                    /\ \A h \in Gens(logs) : (IF h = g THEN fl ELSE logs[h].failure) = "no" =>
                          \A i \in 1 .. Len(lines'), j \in Batched(logs, h) : lines'[i] < logs[h].pending[j]
    PROVE  LogInv'
  <1>1. PICK w, cut2 : w = lines' /\ cut2 = ("cutover" \in disturbed')
    OBVIOUS
  <1>2. /\ w \in Seq(Lines) /\ (\A r \in Records : InFile(lines, r) => InFile(w, r)) /\ (Whole(w) => Whole(lines))
        /\ (w = lines \/ logOps[o].pc = "writing")
        /\ "latePush" \notin disturbed => LeavesOrder(w, g, fl, cut2)
    BY <1>1 DEF LeavesOrder
  <1>3. /\ LogInv /\ o \in LogOps /\ g = logOps[o].gen /\ logOps[o].pc \in Active /\ UNCHANGED admission
        /\ fl \in {"no", "yes"} /\ Ends(o, ls, outcome)
        /\ ((ls = logs /\ fl = logs[g].failure) \/ (ls = [logs EXCEPT ![g].failure = "yes"] /\ fl = "yes"))
        /\ \/ fl = "yes"
           \/ logs[g].pending = <<>>
           \/ logOps[o].kind # "release" /\ \E p \in LogOps : p # o /\ logOps[p].gen = g /\ logOps[p].pc = "lock"
    OBVIOUS
  <1>4. /\ StoreOK(logs', logOps') /\ acked' \subseteq Records /\ AdmissionOK(admission', logs')
        /\ "latePush" \notin disturbed => DataOK(w, logs', logOps', accepted, gone, cut2)
    BY ONLY <1>2, <1>3, Leaves, ZenonT(40)
  <1>5. HistoryOK'
    BY <1>4 DEF LogInv, HistoryOK
  <1> QED BY <1>1, <1>4, <1>5 DEF LogInv

\* What a call vouches for is in the file, or belongs to a generation whose
\* failure is known.
LEMMA CallVouches ==
    ASSUME LogInv, "latePush" \notin disturbed, NEW o \in LogOps, logOps[o].pc \in Active, logOps[o].kind = "call",
           NEW w, Whole(w), Whole(w) => Whole(lines), \A r \in Records : InFile(lines, r) => InFile(w, r),
           \/ logs[logOps[o].gen].pending = <<>>
           \/ /\ logOps[o].pc = "writing"
              /\ \A i \in 1 .. Len(logOps[o].batch) : InFile(w, logOps[o].batch[i])
    PROVE  \A r \in 1 .. logOps[o].upto : \/ r \in gone \/ InFile(w, r)
                                          \/ \E h \in Gens(logs) : logs[h].failure = "yes" /\ InGen(logs, h, r)
  <1> SUFFICES ASSUME NEW r \in 1 .. logOps[o].upto, r \notin gone, ~InFile(w, r)
               PROVE  \E h \in Gens(logs) : logs[h].failure = "yes" /\ InGen(logs, h, r)
    OBVIOUS
  <1>1. DataOK(lines, logs, logOps, accepted, gone, "cutover" \in disturbed) /\ StoreOK(logs, logOps)
    BY DEF LogInv
  <1>2. CallOK(logs, logOps[o], accepted) /\ accepted \in Nat /\ logOps[o] \in OpType /\ accepted \in 0 .. MaxRecords
    BY <1>1, Known DEF DataOK, CallsCover
  <1>3. r \in 1 .. accepted /\ r \in Records
    <2>1. logOps[o].upto \in 0 .. MaxRecords /\ logOps[o].upto <= accepted
      BY <1>2 DEF CallOK, OpType
    <2> QED BY <2>1, <1>2, LogAssumption DEF Records
  <1>4. PICK h \in Gens(logs) : InGen(logs, h, r)
    BY <1>1, <1>3 DEF DataOK, NothingLost
  <1>5. PICK i \in Batched(logs, h) : logs[h].pending[i] = r
    BY <1>4 DEF InGen
  <1>6. PICK g : g = logOps[o].gen
    OBVIOUS
  <1>7. h <= g /\ (logOps[o].pc = "writing" /\ h = g => i <= Len(logOps[o].batch))
    <2>1. r <= logOps[o].upto
      BY <1>2 DEF OpType
    <2> QED BY <2>1, <1>2, <1>5, <1>6 DEF CallOK
  <1>8. h \in Nat /\ g \in Nat /\ Len(logs[h].pending) \in Nat
    BY <1>1, <1>4, <1>6, StoreTypes
  <1>9. logs[h].pending # <<>>
    <2>1. ASSUME logs[h].pending = <<>> PROVE FALSE
      <3>1. Len(logs[h].pending) = 0
        BY <2>1
      <3> QED BY <3>1, <1>5 DEF Batched
    <2> QED BY <2>1
  <1>10. CASE h < g
    <2>1. logs[h].settled = "yes"
      BY <1>1, <1>6, <1>10 DEF StoreOK, Releases
    <2>2. logs[h].failure = "yes"
      BY <2>1, <1>1, <1>9 DEF DataOK, SettledIsDone
    <2> QED BY <2>2, <1>4
  <1>11. CASE h = g
    <2>1. logOps[o].pc = "writing" /\ \A j \in 1 .. Len(logOps[o].batch) : InFile(w, logOps[o].batch[j])
      BY <1>6, <1>9, <1>11
    <2>2. i \in 1 .. Len(logOps[o].batch)
      <3>1. Len(logOps[o].batch) \in Nat
        BY <1>1, StoreTypes
      <3> QED BY <3>1, <2>1, <1>5, <1>7, <1>8, <1>11 DEF Batched
    <2>3. logOps[o].batch[i] = logs[g].pending[i]
      BY <2>1, <2>2, <1>1, <1>6 DEF StoreOK, Writes, WriteOK
    <2> QED BY <2>1, <2>2, <2>3, <1>5, <1>11
  <1> QED BY <1>7, <1>8, <1>10, <1>11

\* The file is as it was.
LEMMA SameLines ==
    ASSUME LogInv, "latePush" \notin disturbed, NEW g, NEW fl, fl = logs[g].failure \/ fl = "yes"
    PROVE  /\ \A i \in 1 .. Len(lines) : lines[i] <= accepted
           /\ "cutover" \notin disturbed =>
                 /\ Rising(lines)
                 /\ \A h \in Gens(logs) : (IF h = g THEN fl ELSE logs[h].failure) = "no" =>
                       \A i \in 1 .. Len(lines), j \in Batched(logs, h) : lines[i] < logs[h].pending[j]
  <1>1. LinesFirst(lines, logs, accepted, "cutover" \in disturbed)
    BY DEF LogInv, DataOK
  <1> QED BY <1>1 DEF LinesFirst

\* drain_locked finds nothing to write, or a failure, and the mutex is released.
LEMMA DrainEndsKeeps == ASSUME LogInv, NEW o \in LogOps, DrainEnds(o) PROVE LogInv'
  <1>1. PICK g, fl : g = logOps[o].gen /\ fl = logs[g].failure
    OBVIOUS
  <1>2. PICK outcome : /\ Ends(o, logs, outcome)
                       /\ \/ logs[g].failure = "yes" /\ outcome = "error"
                          \/ logs[g].failure = "no" /\ logs[g].pending = <<>> /\ outcome = "ok"
    BY <1>1 DEF DrainEnds
  <1>3. /\ logOps[o].pc = "drain" /\ logOps[o].pc \in Active /\ UNCHANGED <<lines, admission, accepted, gone, disturbed>>
    BY DEF DrainEnds, Active
  <1>4. /\ fl \in {"no", "yes"} /\ lines' \in Seq(Lines) /\ lines' = lines
    BY <1>1, <1>2, <1>3, Known
  <1>5. "latePush" \notin disturbed =>
          /\ \A i \in 1 .. Len(lines') : lines'[i] <= accepted
          /\ "cutover" \notin disturbed' =>
                /\ Rising(lines')
                /\ \A h \in Gens(logs) : (IF h = g THEN fl ELSE logs[h].failure) = "no" =>
                      \A i \in 1 .. Len(lines'), j \in Batched(logs, h) : lines'[i] < logs[h].pending[j]
    BY <1>1, <1>3, <1>4, SameLines
  <1>0. PICK ls : ls = logs
    OBVIOUS
  <1>7. /\ LogInv /\ o \in LogOps /\ g = logOps[o].gen /\ logOps[o].pc \in Active
        /\ (fl = "yes" \/ logs[g].pending = <<>>) /\ Ends(o, ls, outcome)
        /\ ((ls = logs /\ fl = logs[g].failure) \/ (ls = [logs EXCEPT ![g].failure = "yes"] /\ fl = "yes"))
    <2>1. Ends(o, ls, outcome)
      BY <1>0, <1>2 DEF Ends
    <2>2. (ls = logs /\ fl = logs[g].failure) \/ (ls = [logs EXCEPT ![g].failure = "yes"] /\ fl = "yes")
      BY <1>0, <1>1
    <2>3. fl = "yes" \/ logs[g].pending = <<>>
      BY <1>1, <1>2
    <2>4. g = logOps[o].gen
      BY <1>1
    <2> QED BY ONLY <2>1, <2>2, <2>3, <2>4, LogInv, o \in LogOps, <1>3
  <1>8. /\ UNCHANGED <<admission, accepted, gone>> /\ disturbed' \in {disturbed, disturbed \cup {"cutover"}}
        /\ (\A r \in Records : InFile(lines, r) => InFile(lines', r)) /\ (Whole(lines') => Whole(lines))
    BY <1>3
  <1> QED BY ONLY <1>4, <1>5, <1>7, <1>8, LeaveKeeps

\* The storage fails in the middle of an append.
LEMMA AppendFailsKeeps == ASSUME LogInv, NEW o \in LogOps, AppendFails(o) PROVE LogInv'
  <1>1. PICK g, fl, outcome, ls : /\ g = logOps[o].gen /\ fl = "yes" /\ outcome = "error"
                                  /\ ls = [logs EXCEPT ![g].failure = "yes"]
    OBVIOUS
  <1>2. /\ logOps[o].pc = "writing" /\ logOps[o].pc \in Active /\ UNCHANGED <<admission, accepted, gone, disturbed>>
        /\ Ends(o, ls, outcome) /\ lines' \in CutShort(lines, logOps[o].batch)
    BY <1>1 DEF AppendFails, Active
  <1>3. Grown(lines, lines', logOps[o].batch) /\ lines \in Seq(Lines) /\ logOps[o].batch \in Seq(Records)
    <2>1. lines \in Seq(Lines) /\ logOps[o].batch \in Seq(Records)
      BY Known, StoreTypes
    <2> QED BY <2>1, <1>2, CutShortGrows
  <1>4. /\ fl \in {"no", "yes"} /\ lines' \in Seq(Lines) /\ fl = "yes"
        /\ (\A r \in Records : InFile(lines, r) => InFile(lines', r)) /\ (Whole(lines') => Whole(lines))
    BY <1>1, <1>3 DEF Grown
  <1>5. "latePush" \notin disturbed =>
          /\ \A i \in 1 .. Len(lines') : lines'[i] <= accepted
          /\ "cutover" \notin disturbed' =>
                /\ Rising(lines')
                /\ \A h \in Gens(logs) : (IF h = g THEN fl ELSE logs[h].failure) = "no" =>
                      \A i \in 1 .. Len(lines'), j \in Batched(logs, h) : lines'[i] < logs[h].pending[j]
    <2> SUFFICES ASSUME "latePush" \notin disturbed
                 PROVE  /\ \A i \in 1 .. Len(lines') : lines'[i] <= accepted
                        /\ "cutover" \notin disturbed' =>
                              /\ Rising(lines')
                              /\ \A h \in Gens(logs) : h # g /\ logs[h].failure = "no" =>
                                    \A i \in 1 .. Len(lines'), j \in Batched(logs, h) : lines'[i] < logs[h].pending[j]
      BY <1>4
    <2>1. PICK cut : cut = ("cutover" \in disturbed)
      OBVIOUS
    <2>2. /\ cut \in BOOLEAN /\ StoreOK(logs, logOps) /\ SettledIsDone(logs) /\ PendingInOrder(logs, accepted)
          /\ LinesFirst(lines, logs, accepted, cut) /\ accepted \in Nat
      BY <2>1, Known DEF LogInv, DataOK
    <2>3. /\ \A i \in 1 .. Len(lines') : lines'[i] <= accepted
          /\ ~cut => /\ Rising(lines')
                     /\ \A h \in Gens(logs) : h # logOps[o].gen /\ logs[h].failure = "no" =>
                           \A i \in 1 .. Len(lines'), j \in Batched(logs, h) : lines'[i] < logs[h].pending[j]
      <3>1. o \in LogOps
        OBVIOUS
      <3> QED BY ONLY <3>1, <2>2, <1>2, <1>3, GrownFirst
    <2> QED BY <2>1, <2>3, <1>1, <1>2
  <1>6. /\ LogInv /\ o \in LogOps /\ g = logOps[o].gen /\ logOps[o].pc \in Active /\ outcome # "ok"
        /\ ((ls = logs /\ fl = logs[g].failure) \/ (ls = [logs EXCEPT ![g].failure = "yes"] /\ fl = "yes"))
        /\ Ends(o, ls, outcome) /\ logOps[o].pc = "writing"
    BY <1>1, <1>2
  <1>7. /\ UNCHANGED <<admission, accepted, gone>> /\ disturbed' \in {disturbed, disturbed \cup {"cutover"}}
    BY <1>2
  <1> QED BY ONLY <1>4, <1>5, <1>6, <1>7, LeaveKeeps

\* A rewrite was called while the batch was written: the batch stays pending.
LEMMA CutOverKeeps ==
    ASSUME LogInv, NEW o \in LogOps, logOps[o].pc = "writing", lines' = Written(lines, logOps[o].batch),
           logs[logOps[o].gen].epoch # logOps[o].epoch, Ends(o, logs, "ok"), disturbed' = disturbed \cup {"cutover"},
           UNCHANGED <<admission, accepted, gone>>
    PROVE  LogInv'
  <1>1. PICK g, fl, outcome, ls : g = logOps[o].gen /\ fl = logs[g].failure /\ outcome = "ok" /\ ls = logs
    OBVIOUS
  <1>2. /\ StoreOK(logs, logOps) /\ logOps[o].batch \in Seq(Records) /\ lines \in Seq(Lines) /\ accepted \in Nat
        /\ OpOK(logs, logOps[o])
    BY Known, StoreTypes
  <1>3. g \in Gens(logs) /\ logs[g].lockq[1] = o /\ logs[g] \in LogType /\ Len(logs[g].lockq) \in Nat
        /\ Len(logs[g].lockq) >= 1
    <2>1. g \in Gens(logs) /\ logs[g].lockq[1] = o /\ Len(logs[g].lockq) >= 1
      BY <1>1, HeadHolds DEF Queued, Active
    <2> QED BY <2>1, <1>2, StoreTypes
  <1>4. PICK p \in LogOps : logOps[p].kind = "rewrite" /\ logOps[p].gen = g /\ logOps[p].pc = "lock"
    <2>1. WriteOK(logs, logOps, o)
      BY <1>2 DEF StoreOK, Writes
    <2>2. logOps[o].epoch \in Nat /\ logs[g].epoch \in Nat
      BY <1>2, <1>3, StoreTypes
    <2>3. logOps[o].epoch < logs[g].epoch
      BY <2>1, <2>2, <1>1 DEF WriteOK
    <2> QED BY <2>1, <2>3, <1>1 DEF WriteOK
  <1>5. logOps[o].kind # "release"
    <2>1. PICK i \in Places(logs, g) : logs[g].lockq[i] = p
      BY <1>2, <1>4 DEF StoreOK, Queues, Queued
    <2>2. i # 1 /\ i > 1 /\ 1 \in Places(logs, g)
      BY <2>1, <1>3, <1>4 DEF Places
    <2> QED BY <2>1, <2>2, <1>2, <1>3, <1>4 DEF StoreOK, Releases
  <1>6. /\ Grown(lines, lines', logOps[o].batch)
        /\ Whole(lines') => \A i \in 1 .. Len(logOps[o].batch) : InFile(lines', logOps[o].batch[i])
    BY <1>2, WrittenGrows
  <1>7. /\ fl \in {"no", "yes"} /\ lines' \in Seq(Lines)
        /\ (\A r \in Records : InFile(lines, r) => InFile(lines', r)) /\ (Whole(lines') => Whole(lines))
    <2>1. fl \in {"no", "yes"}
      BY <1>1, <1>3 DEF LogType
    <2> QED BY <2>1, <1>6 DEF Grown
  <1>8. ASSUME "latePush" \notin disturbed PROVE \A i \in 1 .. Len(lines') : lines'[i] <= accepted
    <2>1. PICK cut : cut = ("cutover" \in disturbed)
      OBVIOUS
    <2>2. /\ cut \in BOOLEAN /\ SettledIsDone(logs) /\ PendingInOrder(logs, accepted)
          /\ LinesFirst(lines, logs, accepted, cut) /\ o \in LogOps /\ logOps[o].pc = "writing"
      BY <2>1, <1>8 DEF LogInv, DataOK
    <2> QED BY ONLY <2>2, <1>2, <1>6, GrownFirst
  <1>9. "latePush" \notin disturbed =>
          /\ \A i \in 1 .. Len(lines') : lines'[i] <= accepted
          /\ "cutover" \notin disturbed' =>
                /\ Rising(lines')
                /\ \A h \in Gens(logs) : (IF h = g THEN fl ELSE logs[h].failure) = "no" =>
                      \A i \in 1 .. Len(lines'), j \in Batched(logs, h) : lines'[i] < logs[h].pending[j]
    BY <1>8
  <1>11. /\ LogInv /\ o \in LogOps /\ g = logOps[o].gen /\ logOps[o].pc \in Active /\ logOps[o].pc = "writing"
         /\ Ends(o, ls, outcome)
         /\ ((ls = logs /\ fl = logs[g].failure) \/ (ls = [logs EXCEPT ![g].failure = "yes"] /\ fl = "yes"))
         /\ logOps[o].kind # "release" /\ \E q \in LogOps : q # o /\ logOps[q].gen = g /\ logOps[q].pc = "lock"
    <2>1. Ends(o, ls, outcome)
      BY <1>1 DEF Ends
    <2>2. ls = logs /\ fl = logs[g].failure /\ g = logOps[o].gen
      BY <1>1
    <2>3. \E q \in LogOps : q # o /\ logOps[q].gen = g /\ logOps[q].pc = "lock"
      BY <1>4
    <2>4. LogInv /\ o \in LogOps /\ logOps[o].pc \in Active /\ logOps[o].pc = "writing"
      BY DEF Active
    <2> QED BY ONLY <2>1, <2>2, <2>3, <2>4, <1>5
  <1>12. /\ UNCHANGED <<admission, accepted, gone>> /\ disturbed' \in {disturbed, disturbed \cup {"cutover"}}
    OBVIOUS
  <1> QED BY ONLY <1>7, <1>9, <1>11, <1>12, LeaveKeeps

\* The batch is in the file; it is dropped from what is pending unless a rewrite
\* was called meanwhile.
LEMMA AppendDoneKeeps == ASSUME LogInv, NEW o \in LogOps, AppendDone(o) PROVE LogInv'
  <1>1. PICK g : g = logOps[o].gen
    OBVIOUS
  <1>2. /\ logOps[o].pc = "writing" /\ lines' = Written(lines, logOps[o].batch) /\ UNCHANGED <<admission, accepted, gone>>
        /\ \/ logs[g].epoch # logOps[o].epoch /\ Ends(o, logs, "ok") /\ disturbed' = disturbed \cup {"cutover"}
           \/ /\ logs[g].epoch = logOps[o].epoch
              /\ logs' = [logs EXCEPT ![g].pending = SubSeq(@, Len(logOps[o].batch) + 1, Len(@))]
              /\ logOps' = [logOps EXCEPT ![o].pc = "drain", ![o].batch = <<>>, ![o].epoch = 0]
              /\ UNCHANGED <<acked, disturbed>>
    BY <1>1 DEF AppendDone
  <1>3. CASE logs[g].epoch # logOps[o].epoch
    BY <1>1, <1>2, <1>3, CutOverKeeps
  <1>4. CASE logs[g].epoch = logOps[o].epoch
    BY <1>1, <1>2, <1>4, AppendedKeeps
  <1> QED BY <1>3, <1>4

\* The file is replaced; only one worker writes at a time, so that nobody else
\* relies on what was there.
LEMMA ReplacedData ==
    ASSUME NEW w, w = <<Base>>, NEW f, NEW ls, NEW ops, NEW ms, NEW ps, NEW acc \in Nat, NEW gn, NEW gn2, NEW cut,
           StoreOK(ls, ops), DataOK(f, ls, ops, acc, gn, cut),
           NEW o \in LogOps, NEW g \in Gens(ls), OneLog(ls, ms, g), OneOp(ops, ps, o),
           ops[o].gen = g, ops[o].pc = "replacing",
           ms[g].pending = ls[g].pending, ms[g].settled = ls[g].settled, ms[g].lockq = ls[g].lockq,
           ms[g].epoch = ls[g].epoch,
           ps[o].pc = "drain", ps[o].gen = g, ps[o].kind = ops[o].kind, ps[o].tail = ops[o].tail,
           ps[o].next = ops[o].next,
           \A r \in 1 .. acc : r \in gn2 \/ \E h \in Gens(ls) : InGen(ls, h, r)
    PROVE  DataOK(w, ms, ps, acc, gn2, FALSE)
  <1>1. (\A h \in Gens(ls) : h # g => ms[h] = ls[h]) /\ (\A p \in LogOps : p # o => ps[p] = ops[p]) /\ Gens(ms) = Gens(ls)
    BY DEF OneLog, OneOp, Gens
  <1>2. \A h \in Gens(ls) : /\ ms[h].pending = ls[h].pending /\ ms[h].settled = ls[h].settled
                            /\ ms[h].lockq = ls[h].lockq /\ ms[h].epoch = ls[h].epoch
                            /\ Batched(ms, h) = Batched(ls, h)
    BY <1>1 DEF Batched
  <1>3. Len(w) = 1 /\ w[1] = Base /\ \A i \in 1 .. Len(w) : i = 1
    OBVIOUS
  <1>4. SettledIsDone(ls) /\ PendingInOrder(ls, acc) /\ CallsCover(ls, ops, acc) /\ TailsKept(f, ls, ops)
    BY DEF DataOK
  <1>5. ops[o].kind = "rewrite" /\ ops[o].pc \in Active
    BY DEF StoreOK, OpsOK, OpOK, Active
  <1>6. \A p \in LogOps : ops[p].pc \in Active /\ (ops[p].pc = "writing" \/ ops[p].kind = "rewrite") => p = o
    BY <1>4, <1>5, OneWorker
  <1>7. \A h \in Gens(ls) : \A r : InGen(ms, h, r) <=> InGen(ls, h, r)
    BY <1>2 DEF InGen
  <1>a. SettledIsDone(ms)
    <2>1. ls[g].settled # "yes"
      BY <1>4, <1>5, WorkerNotSettled
    <2> QED BY <2>1, <1>1, <1>2, <1>4 DEF SettledIsDone
  <1>b. PendingInOrder(ms, acc)
    BY <1>1, <1>2, <1>4 DEF PendingInOrder
  <1>c. LinesFirst(w, ms, acc, FALSE)
    <2>1. \A h \in Gens(ls) : \A j \in Batched(ls, h) : ls[h].pending[j] \in Nat /\ ls[h].pending[j] > 0
      BY StoreTypes, LineKinds
    <2>2. Rising(w)
      BY <1>3 DEF Rising
    <2>3. \A i \in 1 .. Len(w) : w[i] = 0
      BY <1>3 DEF Base
    <2> QED BY <2>1, <2>2, <2>3, <1>1, <1>2 DEF LinesFirst
  <1>d. NothingLost(w, ms, acc, gn2)
    BY <1>1, <1>7 DEF NothingLost
  <1>e. CallsCover(ms, ps, acc)
    <2>1. \A op : CallOK(ls, op, acc) => CallOK(ms, op, acc)
      BY <1>1, <1>2 DEF CallOK
    <2>2. ps[o].kind # "call"
      BY <1>5
    <2> QED BY <2>1, <2>2, <1>1, <1>4 DEF CallsCover
  <1>f. TailsKept(w, ms, ps)
    <2> SUFFICES ASSUME NEW p \in LogOps, ps[p].next = "yes" PROVE TailOK(w, ms, ps, p)
      BY DEF TailsKept
    <2>1. CASE p = o
      <3>1. TailIn(f, ls, ops[o])
        BY <2>1, <1>4 DEF TailsKept, TailOK
      <3>2. \A r \in ps[o].tail : InGen(ms, g, r)
        BY <3>1, <1>7 DEF TailIn
      <3> QED BY <2>1, <3>2 DEF TailOK, TailIn
    <2>2. CASE p # o
      <3>1. ps[p] = ops[p] /\ TailOK(f, ls, ops, p) /\ ops[p].kind = "rewrite" /\ OpOK(ls, ops[p]) /\ ops[p] \in OpType
        BY <2>2, <1>1, <1>4, StoreTypes DEF TailsKept, StoreOK, OpsOK, OpOK
      <3>2. ops[p].pc = "lock" /\ ops[p].gen \in Gens(ls)
        <4>1. ops[p].pc \notin Active
          BY <3>1, <2>2, <1>6
        <4>2. ops[p].pc \notin {"idle", "spawned"}
          BY <3>1 DEF OpOK, NoOp
        <4>3. ops[p].pc = "lock"
          BY <4>1, <4>2, <3>1 DEF OpType, Active
        <4> QED BY <4>3, <3>1 DEF OpOK
      <3>3. \A r \in ops[p].tail : InGen(ms, ops[p].gen, r)
        BY <3>1, <3>2, <1>7 DEF TailOK, TailIn
      <3>4. ASSUME ops[p].tail # {} PROVE NextInLine(ms, ps, p)
        <4>1. PICK h : h = ops[p].gen
          OBVIOUS
        <4>2. PICK q : q = ls[h].lockq
          OBVIOUS
        <4>3. \/ q[1] = p
              \/ Len(q) >= 2 /\ q[2] = p /\ ops[q[1]].pc = "writing" /\ ops[q[1]].epoch < ls[h].epoch
          BY <4>1, <4>2, <3>1, <3>2, <3>4 DEF TailOK, NextInLine
        <4>4. h \in Gens(ls) /\ ms[h].lockq = q /\ ms[h].epoch = ls[h].epoch /\ ps[p].gen = h
          BY <4>1, <4>2, <3>1, <3>2, <1>2
        <4>5. CASE q[1] = p
          BY <4>4, <4>5 DEF NextInLine
        <4>6. CASE Len(q) >= 2 /\ q[2] = p /\ ops[q[1]].pc = "writing" /\ ops[q[1]].epoch < ls[h].epoch
          <5>1. q[1] \in LogOps
            <6>1. q \in Seq(LogOps) /\ Len(q) \in Nat
              BY <4>2, <4>4, StoreTypes
            <6>2. 1 \in 1 .. Len(q)
              BY <6>1, <4>6
            <6> QED BY ONLY <6>1, <6>2
          <5>2. q[1] # o
            BY <4>6
          <5>3. ps[q[1]] = ops[q[1]]
            BY <5>1, <5>2, <1>1
          <5> QED BY <5>3, <4>4, <4>6 DEF NextInLine
        <4> QED BY <4>3, <4>5, <4>6
      <3> QED BY <3>1, <3>3, <3>4 DEF TailOK, TailIn
    <2> QED BY <2>1, <2>2
  <1>g. RewriteIsClean(w, ps)
    BY <1>3, LineKinds DEF RewriteIsClean, Clean
  <1> QED BY <1>a, <1>b, <1>c, <1>d, <1>e, <1>f, <1>g DEF DataOK

\* What is pending, as a set.
LEMMA PendingIs ==
    ASSUME LogInv
    PROVE  /\ \A r : r \in Pending <=> r \in Records /\ \E g \in Gens(logs) : InGen(logs, g, r)
           /\ \A r : r \in FailedPending <=> r \in Records /\ \E g \in Gens(logs) : logs[g].failure = "yes" /\ InGen(logs, g, r)
           /\ \A r : r \in LiveTail <=> r \in Records /\ \E o \in LogOps : Rewrites(logOps[o]) /\ InGen(logs, logOps[o].gen, r)
           /\ \A r : r \in RecordsIn(lines) <=> r \in Records /\ InFile(lines, r)
  <1>1. DOMAIN logs = Gens(logs) /\ lines \in Seq(Lines) /\ StoreOK(logs, logOps)
    BY Known
  <1>2. ASSUME NEW g \in Gens(logs)
        PROVE  \A r : r \in RecordsIn(logs[g].pending) <=> r \in Records /\ InGen(logs, g, r)
    <2>1. logs[g].pending \in Seq(Records)
      BY <1>1, <1>2, StoreTypes
    <2>2. DOMAIN logs[g].pending = Batched(logs, g)
      BY <2>1 DEF Batched
    <2> QED BY <2>2 DEF RecordsIn, InGen
  <1>3. \A r : r \in Pending <=> r \in Records /\ \E g \in Gens(logs) : InGen(logs, g, r)
    BY <1>1, <1>2 DEF Pending
  <1>4. \A r : r \in FailedPending <=> r \in Records /\ \E g \in Gens(logs) : logs[g].failure = "yes" /\ InGen(logs, g, r)
    BY <1>1, <1>2 DEF FailedPending
  <1>5. \A r : r \in RecordsIn(lines) <=> r \in Records /\ InFile(lines, r)
    BY <1>1 DEF RecordsIn, InFile
  <1>6. \A r : r \in LiveTail <=> r \in Records /\ \E o \in LogOps : Rewrites(logOps[o]) /\ InGen(logs, logOps[o].gen, r)
    <2>1. \A o \in LogOps : Rewrites(logOps[o]) => logOps[o].gen \in Gens(logs)
      BY Known DEF Rewrites, OpOK
    <2>2. LiveTail = UNION {RecordsIn(logs[logOps[o].gen].pending) : o \in {p \in LogOps : Rewrites(logOps[p])}}
      BY DEF LiveTail, Rewrites
    <2> QED BY <2>1, <2>2, <1>2
  <1> QED BY <1>3, <1>4, <1>5, <1>6

\* The storage refuses the replacement of the file.
LEMMA NotReplacedKeeps ==
    ASSUME LogInv, NEW o \in LogOps, ReplaceFails(o), UNCHANGED <<lines, gone, disturbed>>
    PROVE  LogInv'
  <1>1. PICK g, fl, outcome, ls : /\ g = logOps[o].gen /\ fl = "yes" /\ outcome = "error"
                                  /\ ls = [logs EXCEPT ![g].failure = "yes"]
    OBVIOUS
  <1>2. /\ logOps[o].pc \in Active /\ UNCHANGED <<lines, admission, accepted, gone, disturbed>> /\ Ends(o, ls, outcome)
    BY <1>1 DEF ReplaceFails, Active
  <1>3. /\ fl \in {"no", "yes"} /\ lines' \in Seq(Lines) /\ lines' = lines /\ fl = "yes"
    BY <1>1, <1>2, Known
  <1>4. "latePush" \notin disturbed =>
          /\ \A i \in 1 .. Len(lines') : lines'[i] <= accepted
          /\ "cutover" \notin disturbed' =>
                /\ Rising(lines')
                /\ \A h \in Gens(logs) : (IF h = g THEN fl ELSE logs[h].failure) = "no" =>
                      \A i \in 1 .. Len(lines'), j \in Batched(logs, h) : lines'[i] < logs[h].pending[j]
    BY <1>2, <1>3, SameLines
  <1>5. /\ LogInv /\ o \in LogOps /\ g = logOps[o].gen /\ logOps[o].pc \in Active /\ outcome # "ok"
        /\ ((ls = logs /\ fl = logs[g].failure) \/ (ls = [logs EXCEPT ![g].failure = "yes"] /\ fl = "yes"))
        /\ Ends(o, ls, outcome)
    BY <1>1, <1>2
  <1>6. /\ UNCHANGED <<admission, accepted, gone>> /\ disturbed' \in {disturbed, disturbed \cup {"cutover"}}
        /\ (\A r \in Records : InFile(lines, r) => InFile(lines', r)) /\ (Whole(lines') => Whole(lines))
    BY <1>2
  <1> QED BY ONLY <1>3, <1>4, <1>5, <1>6, LeaveKeeps

\* Nobody relies on the file, and it is replaced.
LEMMA FileReplaced ==
    ASSUME NEW w, w = <<Base>>, NEW f, NEW ls, NEW ops, NEW acc \in Nat, NEW gn, NEW gn2, NEW cut,
           StoreOK(ls, ops), DataOK(f, ls, ops, acc, gn, cut), \A p \in LogOps : ~Rewrites(ops[p]),
           \A r \in 1 .. acc : r \in gn2 \/ \E h \in Gens(ls) : InGen(ls, h, r)
    PROVE  DataOK(w, ls, ops, acc, gn2, FALSE)
  <1>1. Len(w) = 1 /\ w[1] = Base /\ \A i \in 1 .. Len(w) : i = 1
    OBVIOUS
  <1>2. LinesFirst(w, ls, acc, FALSE)
    <2>1. \A h \in Gens(ls) : \A j \in Batched(ls, h) : ls[h].pending[j] \in Nat /\ ls[h].pending[j] > 0
      BY StoreTypes, LineKinds
    <2>2. Rising(w)
      BY <1>1 DEF Rising
    <2>3. \A i \in 1 .. Len(w) : w[i] = 0
      BY <1>1 DEF Base
    <2> QED BY <2>1, <2>2, <2>3 DEF LinesFirst
  <1>3. NothingLost(w, ls, acc, gn2)
    BY DEF NothingLost
  <1>4. TailsKept(w, ls, ops)
    <2> SUFFICES ASSUME NEW p \in LogOps, ops[p].next = "yes" PROVE TailOK(w, ls, ops, p)
      BY DEF TailsKept
    <2>1. TailOK(f, ls, ops, p) /\ OpOK(ls, ops[p]) /\ ops[p] \in OpType
      BY StoreTypes DEF DataOK, TailsKept, StoreOK, OpsOK
    <2>2. ops[p].pc \in {"lock", "replacing"}
      <3>1. ops[p].kind = "rewrite" /\ ops[p].pc # "idle" /\ ops[p].pc # "spawned"
        BY <2>1 DEF OpOK, NoOp
      <3> QED BY <3>1, <2>1 DEF OpType, Rewrites
    <2> QED BY <2>1, <2>2 DEF TailOK, TailIn
  <1>5. RewriteIsClean(w, ops)
    BY DEF RewriteIsClean, Rewrites
  <1> QED BY <1>2, <1>3, <1>4, <1>5 DEF DataOK

\* The file is replaced, and then the storage reports an error.
LEMMA ReplacedAndFailsKeeps ==
    ASSUME LogInv, NEW o \in LogOps, ReplaceFails(o), Replaced
    PROVE  LogInv'
  <1>1. PICK g, fl, outcome, ls, w, cut : /\ g = logOps[o].gen /\ fl = "yes" /\ outcome = "error"
                                          /\ ls = [logs EXCEPT ![g].failure = "yes"]
                                          /\ w = lines /\ cut = ("cutover" \in disturbed)
    OBVIOUS
  <1>2. /\ logOps[o].pc = "replacing" /\ logOps[o].pc \in Active /\ UNCHANGED <<admission, accepted>> /\ Ends(o, ls, outcome)
        /\ lines' = <<Base>> /\ gone' = gone \cup ((1 .. accepted) \ Pending) /\ disturbed' = disturbed \ {"cutover"}
    BY <1>1 DEF ReplaceFails, Replaced, Active
  <1>3. /\ fl \in {"no", "yes"} /\ w \in Seq(Lines) /\ w = lines /\ fl = "yes"
        /\ (\A r \in Records : InFile(lines, r) => InFile(w, r)) /\ (Whole(w) => Whole(lines))
    BY <1>1, Known
  <1>4. "latePush" \notin disturbed => LeavesOrder(w, g, fl, cut)
    BY <1>1, <1>3, SameLines DEF LeavesOrder
  <1>5. /\ LogInv /\ o \in LogOps /\ g = logOps[o].gen /\ logOps[o].pc \in Active /\ UNCHANGED admission
        /\ ((ls = logs /\ fl = logs[g].failure) \/ (ls = [logs EXCEPT ![g].failure = "yes"] /\ fl = "yes"))
        /\ Ends(o, ls, outcome)
    BY <1>1, <1>2
  <1>6. /\ StoreOK(logs', logOps') /\ acked' \subseteq Records /\ AdmissionOK(admission', logs')
        /\ Gens(logs') = Gens(logs) /\ (\A h \in Gens(logs) : logs'[h].pending = logs[h].pending)
        /\ ("latePush" \notin disturbed => DataOK(w, logs', logOps', accepted, gone, cut))
    BY ONLY <1>3, <1>4, <1>5, Leaves
  <1>7. accepted \in Nat /\ accepted \in 0 .. MaxRecords
    BY Known
  <1>8. HistoryOK'
    <2>1. lines' \in Seq(Lines)
      BY <1>2, LineKinds
    <2>2. gone \subseteq Records /\ 1 .. accepted \subseteq Records
      BY <1>7, LogAssumption DEF LogInv, HistoryOK, Records
    <2>3. gone' \subseteq Records
      BY <2>2, <1>2
    <2> QED BY <2>1, <2>3, <1>2, <1>6 DEF LogInv, HistoryOK
  <1>9. ASSUME "latePush" \notin disturbed'
        PROVE  DataOK(lines', logs', logOps', accepted', gone', "cutover" \in disturbed')
    <2>1. "latePush" \notin disturbed
      BY <1>2, <1>9
    <2>2. \A p \in LogOps : ~Rewrites(logOps'[p])
      <3>1. ASSUME NEW p \in LogOps, p # o, Rewrites(logOps[p]) PROVE FALSE
        <4>1. logOps[o].kind = "rewrite" /\ StoreOK(logs, logOps) /\ SettledIsDone(logs)
          BY <1>2, <2>1, Known DEF LogInv, DataOK, OpOK
        <4> QED BY <3>1, <4>1, <1>2, OneWorker DEF Rewrites, Active
      <3>2. logOps' = [logOps EXCEPT ![o] = NoOp] /\ logOps \in [LogOps -> OpType]
        BY <1>5, Known DEF Ends
      <3>3. \A p \in LogOps : p # o => logOps'[p] = logOps[p]
        BY <3>2
      <3>4. ~Rewrites(logOps'[o])
        BY <3>2 DEF Rewrites, NoOp
      <3> QED BY <3>1, <3>3, <3>4
    <2>3. \A r \in 1 .. accepted : r \in gone' \/ \E h \in Gens(logs') : InGen(logs', h, r)
      <3>1. \A r \in 1 .. accepted : r \in gone' \/ \E h \in Gens(logs) : InGen(logs, h, r)
        BY <1>2, PendingIs
      <3>2. \A h \in Gens(logs) : \A r : InGen(logs', h, r) <=> InGen(logs, h, r)
        BY <1>6 DEF InGen, Batched
      <3> QED BY <3>1, <3>2, <1>6
    <2>4. DataOK(w, logs', logOps', accepted, gone, cut)
      BY <2>1, <1>6
    <2>5. DataOK(lines', logs', logOps', accepted, gone', FALSE)
      BY ONLY <2>2, <2>3, <2>4, <1>2, <1>6, <1>7, FileReplaced
    <2>6. ("cutover" \in disturbed') = FALSE /\ accepted' = accepted
      BY <1>2
    <2> QED BY <2>5, <2>6
  <1> QED BY <1>6, <1>8, <1>9 DEF LogInv

\* The storage refuses the replacement of the file, or reports it too late.
LEMMA ReplaceFailsKeeps == ASSUME LogInv, NEW o \in LogOps, ReplaceFails(o) PROVE LogInv'
  BY NotReplacedKeeps, ReplacedAndFailsKeeps DEF ReplaceFails

\* The file is replaced by the content of the rewrite.
LEMMA ReplaceDoneKeeps == ASSUME LogInv, NEW o \in LogOps, ReplaceDone(o) PROVE LogInv'
  <1>1. PICK g : g = logOps[o].gen
    OBVIOUS
  <1>2. /\ logOps[o].pc = "replacing" /\ lines' = <<Base>> /\ logs' = [logs EXCEPT ![g].failure = "no"]
        /\ logOps' = [logOps EXCEPT ![o].pc = "drain"] /\ gone' = gone \cup ((1 .. accepted) \ Pending)
        /\ disturbed' = disturbed \ {"cutover"} /\ UNCHANGED <<admission, accepted, acked>>
    BY <1>1 DEF ReplaceDone, Replaced
  <1>3. /\ logs \in Seq(LogType) /\ logOps \in [LogOps -> OpType] /\ StoreOK(logs, logOps) /\ logOps[o] \in OpType
        /\ OpOK(logs, logOps[o]) /\ accepted \in 0 .. MaxRecords /\ accepted \in Nat
    BY Known
  <1>4. g \in Gens(logs) /\ Len(logs[g].lockq) >= 1 /\ logs[g].lockq[1] = o /\ logs[g] \in LogType
    <2>1. g \in Gens(logs) /\ Len(logs[g].lockq) >= 1 /\ logs[g].lockq[1] = o
      BY <1>1, <1>2, HeadHolds DEF Queued, Active
    <2> QED BY <2>1, Known
  <1>5. PICK x : x = [logs[g] EXCEPT !.failure = "no"]
    OBVIOUS
  <1>6. PICK y : y = [logOps[o] EXCEPT !.pc = "drain"]
    OBVIOUS
  <1>7. logs' = [logs EXCEPT ![g] = x] /\ logOps' = [logOps EXCEPT ![o] = y]
    BY <1>2, <1>3, <1>4, <1>5, <1>6 DEF Gens
  <1>8. /\ x \in LogType /\ x.pending = logs[g].pending /\ x.lockq = logs[g].lockq /\ x.settled = logs[g].settled
        /\ x.retired = logs[g].retired /\ x.scheduled = logs[g].scheduled /\ x.epoch = logs[g].epoch
    BY <1>4, <1>5 DEF LogType
  <1>9. /\ y \in OpType /\ y.pc = "drain" /\ y.gen = g /\ y.kind = logOps[o].kind /\ y.batch = logOps[o].batch
        /\ y.tail = logOps[o].tail /\ y.next = logOps[o].next
    BY <1>1, <1>3, <1>6 DEF OpType
  <1>10. OneLog(logs, logs', g) /\ logs'[g] = x /\ Gens(logs') = Gens(logs)
    <2>0. logs' = [logs EXCEPT ![g] = x] /\ g \in Gens(logs) /\ x \in LogType /\ logs \in Seq(LogType)
      BY <1>3, <1>4, <1>7, <1>8
    <2>1. logs' \in Seq(LogType) /\ Len(logs') = Len(logs)
      BY ONLY <2>0 DEF Gens
    <2>2. logs'[g] = x /\ \A h \in Gens(logs) : h # g => logs'[h] = logs[h]
      BY ONLY <2>0 DEF Gens
    <2> QED BY <2>1, <2>2 DEF OneLog, Gens
  <1>11. OneOp(logOps, logOps', o) /\ logOps'[o] = y
    BY <1>3, <1>7, <1>9, OneOpIs
  <1>12. StoreOK(logs', logOps')
    <2>1. /\ StoreOK(logs, logOps) /\ o \in LogOps /\ g \in Gens(logs) /\ OneLog(logs, logs', g) /\ OneOp(logOps, logOps', o)
          /\ logOps[o].gen = g /\ logOps[o].pc \in Queued /\ Len(logs[g].lockq) >= 1 /\ logs[g].lockq[1] = o
      BY <1>1, <1>2, <1>3, <1>4, <1>10, <1>11 DEF Queued
    <2>2. /\ logs'[g].lockq = logs[g].lockq /\ logs'[g].settled = logs[g].settled /\ logs'[g].retired = logs[g].retired
          /\ logs'[g].scheduled = logs[g].scheduled
      BY <1>8, <1>10
    <2>3. /\ logOps'[o].gen = g /\ logOps'[o].kind = logOps[o].kind /\ logOps'[o].pc \in Active /\ logOps'[o].pc # "writing"
      BY <1>9, <1>11 DEF Active
    <2>4. OpOK(logs, logOps'[o])
      BY <1>2, <1>3, <1>4, <1>9, <1>11 DEF OpOK
    <2>5. \A h \in Gens(logs) : h < g => logs[h].settled = "yes"
      BY <1>1, <1>2, <1>3 DEF StoreOK, Releases, Active
    <2> QED BY ONLY <2>1, <2>2, <2>3, <2>4, <2>5, AdvanceStep
  <1>13. HistoryOK' /\ AdmissionOK(admission', logs')
    <2>1. lines' \in Seq(Lines)
      BY <1>2, LineKinds
    <2>2. gone' \subseteq Records
      BY <1>2, <1>3, LogAssumption DEF LogInv, HistoryOK, Records
    <2> QED BY <2>1, <2>2, <1>2, <1>10, AdmissionStays DEF LogInv, HistoryOK
  <1>14. ASSUME "latePush" \notin disturbed'
         PROVE  DataOK(lines', logs', logOps', accepted', gone', "cutover" \in disturbed')
    <2>1. DataOK(lines, logs, logOps, accepted, gone, "cutover" \in disturbed)
      BY <1>2, <1>14 DEF LogInv
    <2>2. PICK cut : cut = ("cutover" \in disturbed)
      OBVIOUS
    <2>3. DataOK(lines, logs, logOps, accepted, gone, cut)
      BY <2>1, <2>2
    <2>4. \A r \in 1 .. accepted : r \in gone' \/ \E h \in Gens(logs) : InGen(logs, h, r)
      BY <1>2, PendingIs
    <2>5. /\ o \in LogOps /\ logOps[o].gen = g /\ logOps[o].pc = "replacing" /\ lines' = <<Base>>
          /\ OneLog(logs, logs', g) /\ OneOp(logOps, logOps', o)
          /\ logs'[g].pending = logs[g].pending /\ logs'[g].settled = logs[g].settled
          /\ logs'[g].lockq = logs[g].lockq /\ logs'[g].epoch = logs[g].epoch
      BY <1>1, <1>2, <1>8, <1>10, <1>11
    <2>6. /\ logOps'[o].pc = "drain" /\ logOps'[o].gen = g /\ logOps'[o].kind = logOps[o].kind
          /\ logOps'[o].tail = logOps[o].tail /\ logOps'[o].next = logOps[o].next
      BY <1>9, <1>11
    <2>7. DataOK(lines', logs', logOps', accepted, gone', FALSE)
      BY ONLY <1>3, <1>4, <2>3, <2>4, <2>5, <2>6, ReplacedData
    <2>8. ("cutover" \in disturbed') = FALSE /\ accepted' = accepted
      BY <1>2
    <2> QED BY <2>7, <2>8
  <1> QED BY <1>12, <1>13, <1>14 DEF LogInv

\* What a crash may leave of the file.
LEMMA CrashLines ==
    ASSUME LogInv, CrashLog
    PROVE  /\ lines' \in Seq(Lines)
           /\ "latePush" \notin disturbed =>
                 /\ \A i \in 1 .. Len(lines') : lines'[i] <= accepted
                 /\ "cutover" \notin disturbed => Rising(lines')
           /\ \/ gone' = 1 .. accepted
              \/ /\ gone' = gone \cup FailedPending \cup LiveTail \cup ((1 .. accepted) \ (RecordsIn(lines') \cup acked))
                 /\ \A r \in Records : InFile(lines, r) => InFile(lines', r)
                 /\ Whole(lines') => Whole(lines)
  <1> DEFINE Lost == gone \cup FailedPending \cup LiveTail \cup ((1 .. accepted) \ (RecordsIn(lines') \cup acked))
  <1>1. lines \in Seq(Lines) /\ accepted \in Nat /\ StoreOK(logs, logOps)
    BY Known
  <1>2. "latePush" \notin disturbed =>
           /\ SettledIsDone(logs) /\ PendingInOrder(logs, accepted)
           /\ LinesFirst(lines, logs, accepted, "cutover" \in disturbed)
    BY DEF LogInv, DataOK
  <1>3. CASE UNCHANGED lines /\ gone' = Lost
    BY <1>1, <1>2, <1>3 DEF LinesFirst
  <1>4. ASSUME NEW o \in LogOps, logOps[o].pc = "writing", lines' \in CutShort(lines, logOps[o].batch)
        PROVE  /\ lines' \in Seq(Lines)
               /\ "latePush" \notin disturbed =>
                     /\ \A i \in 1 .. Len(lines') : lines'[i] <= accepted
                     /\ "cutover" \notin disturbed => Rising(lines')
               /\ \A r \in Records : InFile(lines, r) => InFile(lines', r)
               /\ Whole(lines') => Whole(lines)
    <2>1. logOps[o].batch \in Seq(Records)
      BY <1>1, StoreTypes
    <2>2. Grown(lines, lines', logOps[o].batch)
      BY <2>1, <1>1, <1>4, CutShortGrows
    <2>3. /\ lines' \in Seq(Lines) /\ (\A r \in Records : InFile(lines, r) => InFile(lines', r))
          /\ (Whole(lines') => Whole(lines))
      BY <2>2 DEF Grown
    <2>4. ASSUME "latePush" \notin disturbed
          PROVE  /\ \A i \in 1 .. Len(lines') : lines'[i] <= accepted
                 /\ "cutover" \notin disturbed => Rising(lines')
      <3>1. PICK cut : cut = ("cutover" \in disturbed)
        OBVIOUS
      <3>2. /\ cut \in BOOLEAN /\ SettledIsDone(logs) /\ PendingInOrder(logs, accepted)
            /\ LinesFirst(lines, logs, accepted, cut)
        BY <3>1, <2>4, <1>2
      <3>3. o \in LogOps /\ logOps[o].pc = "writing"
        BY <1>4
      <3>4. (\A i \in 1 .. Len(lines') : lines'[i] <= accepted) /\ (~cut => Rising(lines'))
        BY ONLY <3>2, <3>3, <2>2, <1>1, GrownFirst
      <3> QED BY <3>1, <3>4
    <2> QED BY <2>3, <2>4
  <1>5. CASE lines' = <<Base>> /\ gone' = 1 .. accepted
    <2>1. lines' \in Seq(Lines)
      BY <1>5, LineKinds
    <2>2. Len(lines') = 1 /\ lines'[1] = Base /\ \A i \in 1 .. Len(lines') : i = 1
      BY <1>5
    <2>3. Rising(lines')
      BY <2>2 DEF Rising
    <2>4. \A i \in 1 .. Len(lines') : lines'[i] <= accepted
      BY <2>2, <1>1 DEF Base
    <2> QED BY <2>1, <2>3, <2>4, <1>5
  <1> QED BY <1>3, <1>4, <1>5 DEF CrashLog

\* After a crash a record is in the file or given up.
LEMMA CrashLoses ==
    ASSUME LogInv, VouchInv, CrashLog, "latePush" \notin disturbed, Whole(lines'), NEW r \in 1 .. accepted
    PROVE  r \in gone' \/ InFile(lines', r)
  <1>1. r \in Records /\ lines' \in Seq(Lines)
    BY Known, CrashLines, LogAssumption DEF Records
  <1>2. CASE gone' = 1 .. accepted
    BY <1>2
  <1>3. CASE /\ gone' = gone \cup FailedPending \cup LiveTail \cup ((1 .. accepted) \ (RecordsIn(lines') \cup acked))
             /\ \A x \in Records : InFile(lines, x) => InFile(lines', x)
             /\ Whole(lines') => Whole(lines)
    <2>1. CASE r \in acked
      <3>1. Kept(lines, logs, logOps, gone, r)
        BY <2>1, <1>3 DEF VouchInv, VouchedOK
      <3>2. r \in gone \/ InFile(lines, r) \/ r \in FailedPending \/ r \in LiveTail
        BY <3>1, <1>1, PendingIs DEF Kept
      <3> QED BY <3>2, <1>1, <1>3
    <2>2. CASE r \in RecordsIn(lines')
      BY <2>2, <1>1 DEF RecordsIn, InFile
    <2>3. CASE r \notin RecordsIn(lines') /\ r \notin acked
      BY <2>3, <1>3
    <2> QED BY <2>1, <2>2, <2>3
  <1> QED BY <1>2, <1>3, CrashLines

\* After a crash only the file is left, perhaps with a torn or cut batch.
LEMMA CrashLogKeeps == ASSUME LogInv, VouchInv, CrashLog PROVE LogInv'
  <1>1. /\ logs' = <<>> /\ logOps' = [o \in LogOps |-> NoOp] /\ admission' = NoAdmission
        /\ UNCHANGED <<accepted, acked, disturbed>>
    BY DEF CrashLog
  <1>2. /\ accepted \in 0 .. MaxRecords /\ accepted \in Nat /\ acked \subseteq Records /\ gone \subseteq Records
        /\ disturbed \subseteq {"latePush", "cutover"}
    BY Known DEF LogInv, HistoryOK
  <1>3. lines' \in Seq(Lines)
    BY CrashLines
  <1>4. Len(logs') = 0 /\ Gens(logs') = {}
    BY <1>1 DEF Gens
  <1>5. HistoryOK' /\ AdmissionOK(admission', logs')
    <2>1. gone' \subseteq Records
      <3>1. 1 .. accepted \subseteq Records
        BY <1>2, LogAssumption DEF Records
      <3>2. FailedPending \subseteq Records /\ LiveTail \subseteq Records
        BY PendingIs
      <3> QED BY <3>1, <3>2, <1>2, CrashLines
    <2>2. AdmissionOK(admission', logs')
      BY <1>1 DEF AdmissionOK, NoAdmission
    <2> QED BY <2>1, <2>2, <1>1, <1>2, <1>3 DEF HistoryOK
  <1>6. StoreOK(logs', logOps')
    BY <1>1, EmptyStore
  <1>7. ASSUME "latePush" \notin disturbed'
        PROVE  DataOK(lines', logs', logOps', accepted', gone', "cutover" \in disturbed')
    <2>1. LinesFirst(lines', logs', accepted', "cutover" \in disturbed')
      BY <1>1, <1>4, <1>7, CrashLines DEF LinesFirst
    <2>2. NothingLost(lines', logs', accepted', gone')
      BY <1>1, <1>7, CrashLoses DEF NothingLost
    <2> QED BY <2>1, <2>2, <1>1, EmptyStore
  <1> QED BY <1>5, <1>6, <1>7 DEF LogInv

-----------------------------------------------------------------------------
\* Every step keeps the invariant.
LEMMA LogInvStep == LogInv /\ VouchInv /\ [LogStep]_logVars => LogInv'
  <1> SUFFICES ASSUME LogInv, VouchInv, [LogStep]_logVars PROVE LogInv'
    OBVIOUS
  <1>1. CASE AdmitAppend \/ AdmitAcquire
    BY <1>1, AdmitKeeps DEF AdmitAppend, AdmitAcquire
  <1>2. CASE Acquire
    BY <1>2, AcquireKeeps
  <1>3. ASSUME NEW o \in LogOps,
               AppendValue(o) \/ FlushCall(o) \/ ReadCall(o) \/ RewriteCall(o) \/ AppendFails(o) \/ ReplaceFails(o)
               \/ CloseFlushes(o)
        PROVE  LogInv'
    BY <1>3, AppendValueKeeps, FlushCallKeeps, ReadCallKeeps, RewriteCallKeeps, AppendFailsKeeps, ReplaceFailsKeeps,
       CloseFlushesKeeps
  <1>4. ASSUME NEW o \in LogOps, LogOpStep(o) PROVE LogInv'
    BY <1>4, FlushBeginsKeeps, ReleaseBeginsKeeps, LockedKeeps, DrainEndsKeeps, DrainTakesKeeps, AppendDoneKeeps,
       ReplaceDoneKeeps DEF LogOpStep
  <1>5. ASSUME NEW o \in LogOps, NEW g \in DOMAIN logs, DisposeHandle(o, g) PROVE LogInv'
    BY <1>5, DisposeHandleKeeps
  <1>6. CASE CloseStore \/ UNCHANGED logVars
    BY <1>6 DEF CloseStore, logVars, history, LogInv, HistoryOK
  <1>7. CASE CrashLog
    BY <1>7, CrashLogKeeps
  <1> QED BY <1>1, <1>2, <1>3, <1>4, <1>5, <1>6, <1>7 DEF LogStep

-----------------------------------------------------------------------------
(***************************************************************************)
(* What a flush has vouched for.                                           *)
(***************************************************************************)
\* Nothing happens to the records up to acc.
SameRecords(ls, ms, acc) ==
    /\ Gens(ls) \subseteq Gens(ms)
    /\ \A g \in Gens(ls) : ms[g].failure = ls[g].failure /\ ms[g].settled = ls[g].settled
    /\ \A g \in Gens(ls) : \A r : InGen(ls, g, r) => InGen(ms, g, r)
    /\ \A g \in Gens(ms) : \A r \in 1 .. acc : InGen(ms, g, r) => g \in Gens(ls) /\ InGen(ls, g, r)

\* Nobody who writes begins, ends or changes, but for one who takes the whole of what is pending.
SameWriters(ls, ops, ps) ==
    \A p \in LogOps :
        /\ Rewrites(ops[p]) => Rewrites(ps[p]) /\ ps[p].gen = ops[p].gen
        /\ ps[p].pc = "writing" => ps[p] = ops[p] \/ \A r : InGen(ls, ps[p].gen, r) => InFile(ps[p].batch, r)

\* A step that neither writes nor vouches keeps what was vouched for.
LEMMA QuietVouches ==
    ASSUME NEW f, NEW ls, NEW ops, NEW ms, NEW ps, NEW acc \in Nat, NEW acc2 \in Nat, acc <= acc2, NEW ack, NEW gn,
           StoreOK(ls, ops), StoreOK(ms, ps), VouchedOK(f, ls, ops, acc, ack, gn),
           SameRecords(ls, ms, acc), SameWriters(ls, ops, ps)
    PROVE  VouchedOK(f, ms, ps, acc2, ack, gn)
  <1>1. ack \subseteq 1 .. acc /\ ack \subseteq 1 .. acc2
    BY DEF VouchedOK
  <1>2. ASSUME NEW r \in ack PROVE WrittenNext(ms, ps, r)
    <2> SUFFICES ASSUME NEW g \in Gens(ms), InGen(ms, g, r)
                 PROVE  /\ \A h \in Gens(ms) : h < g => ms[h].settled = "yes"
                        /\ \A o \in LogOps : ps[o].pc = "writing" /\ ps[o].gen = g => InFile(ps[o].batch, r)
      BY DEF WrittenNext
    <2>1. g \in Gens(ls) /\ InGen(ls, g, r)
      BY <1>1 DEF SameRecords
    <2>2. /\ \A h \in Gens(ls) : h < g => ls[h].settled = "yes"
          /\ \A o \in LogOps : ops[o].pc = "writing" /\ ops[o].gen = g => InFile(ops[o].batch, r)
      BY <2>1 DEF VouchedOK, WrittenNext
    <2>3. ASSUME NEW h \in Gens(ms), h < g PROVE h \in Gens(ls)
      BY <2>1, <2>3, StoreTypes DEF Gens
    <2>4. \A h \in Gens(ms) : h < g => ms[h].settled = "yes"
      BY <2>2, <2>3 DEF SameRecords
    <2>5. \A o \in LogOps : ps[o].pc = "writing" /\ ps[o].gen = g => InFile(ps[o].batch, r)
      BY <2>1, <2>2 DEF SameWriters
    <2> QED BY <2>4, <2>5
  <1>3. ASSUME Whole(f), NEW r \in ack PROVE Kept(f, ms, ps, gn, r)
    <2>1. Kept(f, ls, ops, gn, r)
      BY <1>3 DEF VouchedOK
    <2>2. CASE r \in gn \/ InFile(f, r)
      BY <2>2 DEF Kept
    <2>3. ASSUME NEW g \in Gens(ls), ls[g].failure = "yes", InGen(ls, g, r) PROVE Kept(f, ms, ps, gn, r)
      <3>1. g \in Gens(ms) /\ ms[g].failure = "yes" /\ InGen(ms, g, r)
        BY <2>3 DEF SameRecords
      <3> QED BY <3>1 DEF Kept
    <2>4. ASSUME NEW o \in LogOps, Rewrites(ops[o]), InGen(ls, ops[o].gen, r) PROVE Kept(f, ms, ps, gn, r)
      <3>1. ops[o].gen \in Gens(ls)
        BY <2>4 DEF StoreOK, OpsOK, OpOK, Rewrites
      <3>2. Rewrites(ps[o]) /\ InGen(ms, ps[o].gen, r)
        BY <2>4, <3>1 DEF SameRecords, SameWriters
      <3> QED BY <3>2 DEF Kept
    <2> QED BY <2>1, <2>2, <2>3, <2>4 DEF Kept
  <1> QED BY <1>1, <1>2, <1>3 DEF VouchedOK

\* The generations are the same, but for what has nothing to do with records.
LEMMA SameLogs ==
    ASSUME NEW ls, NEW ms, NEW acc, Gens(ls) \subseteq Gens(ms),
           \A g \in Gens(ls) : /\ ms[g].pending = ls[g].pending /\ ms[g].failure = ls[g].failure
                               /\ ms[g].settled = ls[g].settled,
           \A g \in Gens(ms) : g \notin Gens(ls) => ms[g].pending = <<>>
    PROVE  SameRecords(ls, ms, acc)
  <1>1. \A g \in Gens(ls) : \A r : InGen(ls, g, r) <=> InGen(ms, g, r)
    BY DEF InGen, Batched
  <1>2. ASSUME NEW g \in Gens(ms), g \notin Gens(ls), NEW r, InGen(ms, g, r) PROVE FALSE
    <2>1. Len(ms[g].pending) = 0
      BY <1>2
    <2> QED BY <2>1, <1>2 DEF InGen, Batched
  <1> QED BY <1>1, <1>2 DEF SameRecords

\* state() may add a generation.
LEMMA StateSame ==
    ASSUME LogInv
    PROVE  /\ StateLogs \in Seq(LogType) /\ Gens(logs) \subseteq Gens(StateLogs)
           /\ \A g \in Gens(logs) : StateLogs[g] = logs[g]
           /\ \A g \in Gens(StateLogs) : g \notin Gens(logs) => StateLogs[g].pending = <<>>
  <1>1. logs \in Seq(LogType)
    BY Known
  <1>2. NewLog \in LogType /\ NewLog.pending = <<>>
    BY LogAssumption DEF NewLog, LogType
  <1>3. CASE InUse
    BY <1>1, <1>3 DEF StateLogs, Gens
  <1>4. CASE ~InUse
    <2>1. StateLogs = Append(logs, NewLog) /\ Len(logs) \in Nat
      BY <1>1, <1>4 DEF StateLogs
    <2>2. StateLogs \in Seq(LogType) /\ Len(StateLogs) = Len(logs) + 1
      BY <2>1, <1>1, <1>2
    <2>3. (\A g \in 1 .. Len(logs) : StateLogs[g] = logs[g]) /\ StateLogs[Len(logs) + 1] = NewLog
      BY <2>1, <1>1, <1>2
    <2>4. \A g \in 1 .. Len(logs) + 1 : g \notin 1 .. Len(logs) => g = Len(logs) + 1
      BY <2>1
    <2> QED BY <2>1, <2>2, <2>3, <2>4, <1>2 DEF Gens
  <1> QED BY <1>3, <1>4

\* One generation of ls changes, in nothing that has to do with records.
LEMMA OneSame ==
    ASSUME LogInv, NEW ls \in Seq(LogType), Gens(logs) \subseteq Gens(ls),
           \A g \in Gens(logs) : /\ ls[g].pending = logs[g].pending /\ ls[g].failure = logs[g].failure
                                 /\ ls[g].settled = logs[g].settled,
           \A g \in Gens(ls) : g \notin Gens(logs) => ls[g].pending = <<>>,
           NEW g \in Gens(ls), NEW x \in LogType, x.pending = ls[g].pending, x.failure = ls[g].failure,
           x.settled = ls[g].settled, NEW ms, ms = [ls EXCEPT ![g] = x]
    PROVE  SameRecords(logs, ms, accepted)
  <1>1. Gens(ms) = Gens(ls)
    BY DEF Gens
  <1>2. \A h \in Gens(ls) : ms[h] = IF h = g THEN x ELSE ls[h]
    BY DEF Gens
  <1>3. \A h \in Gens(ls) : ms[h].pending = ls[h].pending /\ ms[h].failure = ls[h].failure /\ ms[h].settled = ls[h].settled
    BY <1>2
  <1>4. /\ Gens(logs) \subseteq Gens(ms)
        /\ \A h \in Gens(logs) : /\ ms[h].pending = logs[h].pending /\ ms[h].failure = logs[h].failure
                                 /\ ms[h].settled = logs[h].settled
        /\ \A h \in Gens(ms) : h \notin Gens(logs) => ms[h].pending = <<>>
    BY <1>1, <1>3
  <1> QED BY ONLY <1>4, SameLogs

\* One task or call changes that is not at work, and does not write then.
LEMMA OneSameWriter ==
    ASSUME LogInv, NEW o \in LogOps, NEW ps, ps = logOps \/ \E y : ps = [logOps EXCEPT ![o] = y] /\ y.pc # "writing",
           logOps[o].pc \in {"idle", "spawned", "lock"}
    PROVE  SameWriters(logs, logOps, ps)
  <1>1. logOps \in [LogOps -> OpType] /\ ~Rewrites(logOps[o])
    BY Known DEF Rewrites
  <1>2. CASE ps = logOps
    BY <1>2 DEF SameWriters
  <1>3. ASSUME NEW y, ps = [logOps EXCEPT ![o] = y], y.pc # "writing" PROVE SameWriters(logs, logOps, ps)
    BY <1>1, <1>3 DEF SameWriters
  <1> QED BY <1>2, <1>3

\* A step that neither writes nor vouches.
LEMMA QuietKeeps ==
    ASSUME LogInv, LogInv', VouchInv, SameRecords(logs, logs', accepted), SameWriters(logs, logOps, logOps'),
           UNCHANGED <<lines, acked, gone>>, accepted' \in Nat, accepted <= accepted', disturbed \subseteq disturbed'
    PROVE  VouchInv'
  <1>1. StoreOK(logs, logOps) /\ StoreOK(logs', logOps') /\ accepted \in Nat
    BY Known DEF LogInv
  <1>2. ASSUME "latePush" \notin disturbed' PROVE VouchedOK(lines', logs', logOps', accepted', acked', gone')
    <2>1. VouchedOK(lines, logs, logOps, accepted, acked, gone)
      BY <1>2 DEF VouchInv
    <2>2. /\ SameRecords(logs, logs', accepted) /\ SameWriters(logs, logOps, logOps') /\ accepted <= accepted'
          /\ accepted' \in Nat
      OBVIOUS
    <2>3. VouchedOK(lines, logs', logOps', accepted', acked, gone)
      BY ONLY <2>1, <2>2, <1>1, QuietVouches
    <2> QED BY <2>3
  <1> QED BY <1>2 DEF VouchInv

\* The same, where the generations stay as state() gives them but for one.
LEMMA QuietLogKeeps ==
    ASSUME LogInv, LogInv', VouchInv, NEW ls \in {logs, StateLogs}, NEW g \in Gens(ls), NEW x \in LogType,
           logs' = [ls EXCEPT ![g] = x], x.pending = ls[g].pending, x.failure = ls[g].failure, x.settled = ls[g].settled,
           SameWriters(logs, logOps, logOps'), UNCHANGED <<lines, accepted, acked, gone, disturbed>>
    PROVE  VouchInv'
  <1>1. /\ ls \in Seq(LogType) /\ Gens(logs) \subseteq Gens(ls)
        /\ \A h \in Gens(logs) : /\ ls[h].pending = logs[h].pending /\ ls[h].failure = logs[h].failure
                                 /\ ls[h].settled = logs[h].settled
        /\ \A h \in Gens(ls) : h \notin Gens(logs) => ls[h].pending = <<>>
    BY Known, StateSame
  <1>2. SameRecords(logs, logs', accepted)
    BY <1>1, OneSame
  <1>3. accepted' \in Nat /\ accepted <= accepted' /\ disturbed \subseteq disturbed'
    BY Known
  <1> QED BY <1>2, <1>3, QuietKeeps

\* state() for append_value and acquire.
LEMMA AdmitVouches == ASSUME LogInv, LogInv', VouchInv, NEW kind, NEW cost, Admit(kind, cost) PROVE VouchInv'
  <1>1. logs' = StateLogs /\ UNCHANGED <<lines, logOps, accepted, acked, gone, disturbed>>
    BY DEF Admit, history
  <1>2. SameRecords(logs, logs', accepted)
    <2>1. /\ Gens(logs) \subseteq Gens(logs')
          /\ \A g \in Gens(logs) : /\ logs'[g].pending = logs[g].pending /\ logs'[g].failure = logs[g].failure
                                   /\ logs'[g].settled = logs[g].settled
          /\ \A g \in Gens(logs') : g \notin Gens(logs) => logs'[g].pending = <<>>
      BY <1>1, StateSame
    <2> QED BY ONLY <2>1, SameLogs
  <1>3. SameWriters(logs, logOps, logOps')
    BY <1>1 DEF SameWriters
  <1>4. accepted' \in Nat /\ accepted <= accepted' /\ disturbed \subseteq disturbed'
    BY <1>1, Known
  <1> QED BY <1>1, <1>2, <1>3, <1>4, QuietKeeps

\* The push: the new record has not been vouched for.
LEMMA AppendValueVouches == ASSUME LogInv, LogInv', VouchInv, NEW o \in LogOps, AppendValue(o) PROVE VouchInv'
  <1>0. PICK g : g = admission.gen
    OBVIOUS
  <1>1. /\ logOps[o].pc = "idle" /\ accepted' = accepted + 1
        /\ logs' = [logs EXCEPT ![g].pending = Append(@, accepted + 1), ![g].scheduled = "yes"]
        /\ logOps' = logOps \/ logOps' = [logOps EXCEPT ![o] = Op("flush", g, "spawned")]
        /\ disturbed \subseteq disturbed' /\ UNCHANGED <<lines, acked, gone>>
    BY <1>0 DEF AppendValue, Free
  <1>2. g \in Gens(logs) /\ logs \in Seq(LogType) /\ logs[g] \in LogType /\ accepted \in Nat /\ logs[g].pending \in Seq(Records)
    <2>1. g \in Gens(logs)
      BY <1>0 DEF AppendValue, LogInv, AdmissionOK
    <2> QED BY <2>1, Known DEF LogType
  <1>3. PICK s, n : s = logs[g].pending /\ n = Len(s) /\ n \in Nat
    BY <1>2
  <1>4. /\ Gens(logs') = Gens(logs)
        /\ \A h \in Gens(logs) : h # g => logs'[h] = logs[h]
        /\ logs'[g].failure = logs[g].failure /\ logs'[g].settled = logs[g].settled
        /\ logs'[g].pending = Append(s, accepted + 1)
    <2>1. PICK x : x = [logs[g] EXCEPT !.pending = Append(@, accepted + 1), !.scheduled = "yes"]
      OBVIOUS
    <2>2. x.failure = logs[g].failure /\ x.settled = logs[g].settled /\ x.pending = Append(s, accepted + 1)
      BY <2>1, <1>2, <1>3 DEF LogType
    <2>3. logs' = [logs EXCEPT ![g] = x]
      BY <2>1, <1>1, <1>2 DEF Gens
    <2> QED BY <2>2, <2>3, <1>2 DEF Gens
  <1>5. /\ Len(logs'[g].pending) = n + 1 /\ logs'[g].pending[n + 1] = accepted + 1
        /\ \A i \in 1 .. n : logs'[g].pending[i] = s[i]
    <2>1. accepted + 1 \in Records
      <3>1. accepted < MaxRecords
        BY DEF AppendValue
      <3> QED BY ONLY <3>1, <1>2, LogAssumption DEF Records
    <2> QED BY <2>1, <1>2, <1>3, <1>4
  <1>6. \A r : InGen(logs, g, r) => InGen(logs', g, r)
    BY <1>3, <1>5 DEF InGen, Batched
  <1>7. \A r \in 1 .. accepted : InGen(logs', g, r) => InGen(logs, g, r)
    <2> SUFFICES ASSUME NEW r \in 1 .. accepted, NEW i \in 1 .. n + 1, logs'[g].pending[i] = r PROVE InGen(logs, g, r)
      BY <1>5 DEF InGen, Batched
    <2>1. i # n + 1
      BY <1>2, <1>5
    <2>2. i \in 1 .. n
      BY <2>1, <1>3
    <2> QED BY <2>2, <1>3, <1>5 DEF InGen, Batched
  <1>8. SameRecords(logs, logs', accepted)
    <2>1. \A h \in Gens(logs) : h # g => \A r : InGen(logs', h, r) <=> InGen(logs, h, r)
      BY ONLY <1>4 DEF InGen, Batched
    <2>2. \A h \in Gens(logs) : logs'[h].failure = logs[h].failure /\ logs'[h].settled = logs[h].settled
      BY ONLY <1>4
    <2> QED BY ONLY <2>1, <2>2, <1>4, <1>6, <1>7 DEF SameRecords
  <1>9. SameWriters(logs, logOps, logOps')
    <2>1. Op("flush", g, "spawned").pc # "writing"
      BY Known, <1>2, OpIs DEF Gens
    <2> QED BY <2>1, <1>1, OneSameWriter
  <1>10. accepted' \in Nat /\ accepted <= accepted'
    BY <1>1, <1>2
  <1> QED BY <1>1, <1>8, <1>9, <1>10, QuietKeeps

\* acquire counts a handle.
LEMMA AcquireVouches == ASSUME LogInv, LogInv', VouchInv, Acquire PROVE VouchInv'
  <1>1. PICK g : g = admission.gen
    OBVIOUS
  <1>2. g \in Gens(logs) /\ logs \in Seq(LogType) /\ logs[g] \in LogType
    <2>1. g \in Gens(logs)
      BY <1>1 DEF Acquire, LogInv, AdmissionOK
    <2> QED BY <2>1, Known
  <1>3. PICK x : x = [logs[g] EXCEPT !.refs = @ + 1, !.held = @ + 1]
    OBVIOUS
  <1>4. x \in LogType /\ x.pending = logs[g].pending /\ x.failure = logs[g].failure /\ x.settled = logs[g].settled
    <2>1. logs[g].refs \in Nat /\ logs[g].held \in Nat
      BY <1>2 DEF LogType
    <2>2. logs[g].refs + 1 \in Nat /\ logs[g].held + 1 \in Nat
      BY <2>1
    <2> QED BY <2>2, <1>2, <1>3 DEF LogType
  <1>5. logs' = [logs EXCEPT ![g] = x] /\ UNCHANGED <<lines, logOps, accepted, acked, gone, disturbed>>
    BY <1>1, <1>2, <1>3 DEF Acquire, history, Gens
  <1>6. SameWriters(logs, logOps, logOps')
    BY <1>5 DEF SameWriters
  <1> QED BY <1>2, <1>4, <1>5, <1>6, QuietLogKeeps

\* A handle is disposed of.
LEMMA DisposeVouches ==
    ASSUME LogInv, LogInv', VouchInv, NEW o \in LogOps, NEW g \in DOMAIN logs, DisposeHandle(o, g) PROVE VouchInv'
  <1>1. g \in Gens(logs) /\ logs \in Seq(LogType) /\ logs[g] \in LogType
    BY Known
  <1>2. PICK x : x = [logs[g] EXCEPT !.held = @ - 1]
    OBVIOUS
  <1>3. x \in LogType /\ x.pending = logs[g].pending /\ x.failure = logs[g].failure /\ x.settled = logs[g].settled
    <2>1. logs[g].held - 1 \in Nat
      <3>1. logs[g].held > 0
        BY DEF DisposeHandle
      <3>2. logs[g].held \in Nat
        BY ONLY <1>1 DEF LogType
      <3> QED BY ONLY <3>1, <3>2
    <2> QED BY <2>1, <1>1, <1>2 DEF LogType
  <1>4. logs' = [logs EXCEPT ![g] = x] /\ UNCHANGED <<lines, accepted, acked, gone, disturbed>>
    BY <1>1, <1>2 DEF DisposeHandle, history, Gens
  <1>5. SameWriters(logs, logOps, logOps')
    <2>1. Op("release", g, "spawned").pc # "writing"
      BY Known, <1>1, OpIs DEF Gens
    <2>2. logOps' = [logOps EXCEPT ![o] = Op("release", g, "spawned")] /\ logOps[o].pc = "idle"
      BY DEF DisposeHandle, Free
    <2> QED BY <2>1, <2>2, OneSameWriter
  <1> QED BY <1>1, <1>3, <1>4, <1>5, QuietLogKeeps

\* A task or call joins the queue of a generation; z is the generation as it is joined.
LEMMA JoinVouches ==
    ASSUME LogInv, LogInv', VouchInv, NEW o \in LogOps, logOps[o].pc \in {"idle", "spawned"},
           NEW ls \in {logs, StateLogs}, NEW g \in Gens(ls), NEW z \in LogType, z.pending = ls[g].pending,
           z.failure = ls[g].failure, z.settled = ls[g].settled,
           logs' = [ls EXCEPT ![g] = [z EXCEPT !.lockq = Append(@, o)]],
           NEW y, y.pc # "writing", logOps' = [logOps EXCEPT ![o] = y],
           UNCHANGED <<lines, accepted, acked, gone, disturbed>>
    PROVE  VouchInv'
  <1>1. PICK x : x = [z EXCEPT !.lockq = Append(@, o)]
    OBVIOUS
  <1>2. x \in LogType /\ x.pending = ls[g].pending /\ x.failure = ls[g].failure /\ x.settled = ls[g].settled
    <2>1. Append(z.lockq, o) \in Seq(LogOps)
      BY DEF LogType
    <2> QED BY <2>1, <1>1 DEF LogType
  <1>3. SameWriters(logs, logOps, logOps')
    BY OneSameWriter
  <1> QED BY <1>1, <1>2, <1>3, QuietLogKeeps

\* The task of schedule_flush joins the queue.
LEMMA FlushBeginsVouches == ASSUME LogInv, LogInv', VouchInv, NEW o \in LogOps, FlushBegins(o) PROVE VouchInv'
  <1>1. PICK g : g = logOps[o].gen
    OBVIOUS
  <1>2. /\ logOps[o].pc = "spawned" /\ logs' = Joined([logs EXCEPT ![g].scheduled = "no"], o, g)
        /\ logOps' = [logOps EXCEPT ![o].pc = "lock"] /\ UNCHANGED <<lines, accepted, acked, gone, disturbed>>
    BY <1>1 DEF FlushBegins, history
  <1>3. g \in Gens(logs) /\ logs \in Seq(LogType) /\ logs[g] \in LogType /\ logOps[o] \in OpType
    BY <1>1, <1>2, Known DEF OpOK
  <1>4. PICK z, y : z = [logs[g] EXCEPT !.scheduled = "no"] /\ y = [logOps[o] EXCEPT !.pc = "lock"]
    OBVIOUS
  <1>5. z \in LogType /\ z.pending = logs[g].pending /\ z.failure = logs[g].failure /\ z.settled = logs[g].settled
    BY <1>3, <1>4 DEF LogType
  <1>6. logs' = [logs EXCEPT ![g] = [z EXCEPT !.lockq = Append(@, o)]]
    BY <1>2, <1>3, <1>4 DEF Joined, Gens
  <1>7. y.pc # "writing" /\ logOps' = [logOps EXCEPT ![o] = y]
    BY <1>2, <1>3, <1>4 DEF OpType
  <1> QED BY <1>2, <1>3, <1>5, <1>6, <1>7, JoinVouches

\* A release leaves, or retires the generation and joins the queue.
LEMMA ReleaseBeginsVouches == ASSUME LogInv, LogInv', VouchInv, NEW o \in LogOps, ReleaseBegins(o) PROVE VouchInv'
  <1>1. PICK g : g = logOps[o].gen
    OBVIOUS
  <1>2. PICK n : n = IF logs[g].refs = 0 THEN 0 ELSE logs[g].refs - 1
    OBVIOUS
  <1>3. /\ logOps[o].pc = "spawned" /\ UNCHANGED <<lines, accepted, acked, gone, disturbed>>
        /\ \/ logs' = [logs EXCEPT ![g].refs = n] /\ logOps' = [logOps EXCEPT ![o] = NoOp]
           \/ /\ logs' = Joined([[logs EXCEPT ![g].refs = n] EXCEPT ![g].retired = "yes"], o, g)
              /\ logOps' = [logOps EXCEPT ![o].pc = "lock"]
    BY <1>1, <1>2 DEF ReleaseBegins, history
  <1>4. g \in Gens(logs) /\ logs \in Seq(LogType) /\ logs[g] \in LogType /\ logOps[o] \in OpType /\ n \in Nat
    <2>1. g \in Gens(logs) /\ logs \in Seq(LogType) /\ logs[g] \in LogType /\ logOps[o] \in OpType
      BY <1>1, <1>3, Known DEF OpOK
    <2>2. logs[g].refs \in Nat
      BY <2>1 DEF LogType
    <2> QED BY <2>1, <2>2, <1>2
  <1>5. CASE logs' = [logs EXCEPT ![g].refs = n] /\ logOps' = [logOps EXCEPT ![o] = NoOp]
    <2>1. PICK x : x = [logs[g] EXCEPT !.refs = n]
      OBVIOUS
    <2>2. x \in LogType /\ x.pending = logs[g].pending /\ x.failure = logs[g].failure /\ x.settled = logs[g].settled
      BY <2>1, <1>4 DEF LogType
    <2>3. logs' = [logs EXCEPT ![g] = x]
      BY <2>1, <1>4, <1>5 DEF Gens
    <2>4. SameWriters(logs, logOps, logOps')
      <3>1. NoOp.pc # "writing"
        BY DEF NoOp
      <3> QED BY <3>1, <1>3, <1>5, OneSameWriter
    <2> QED BY <2>2, <2>3, <2>4, <1>3, <1>4, QuietLogKeeps
  <1>6. CASE /\ logs' = Joined([[logs EXCEPT ![g].refs = n] EXCEPT ![g].retired = "yes"], o, g)
             /\ logOps' = [logOps EXCEPT ![o].pc = "lock"]
    <2>1. PICK z, y : z = [logs[g] EXCEPT !.refs = n, !.retired = "yes"] /\ y = [logOps[o] EXCEPT !.pc = "lock"]
      OBVIOUS
    <2>2. z \in LogType /\ z.pending = logs[g].pending /\ z.failure = logs[g].failure /\ z.settled = logs[g].settled
      BY <2>1, <1>4 DEF LogType
    <2>3. logs' = [logs EXCEPT ![g] = [z EXCEPT !.lockq = Append(@, o)]]
      BY <2>1, <1>4, <1>6 DEF Joined, Gens
    <2>4. y.pc # "writing" /\ logOps' = [logOps EXCEPT ![o] = y]
      BY <2>1, <1>4, <1>6 DEF OpType
    <2> QED BY <2>2, <2>3, <2>4, <1>3, <1>4, JoinVouches
  <1> QED BY <1>3, <1>5, <1>6

\* flush, read_values, rewrite_values and close.
LEMMA CallVouchesNothing ==
    ASSUME LogInv, LogInv', VouchInv, NEW o \in LogOps, FlushCall(o) \/ ReadCall(o) \/ RewriteCall(o) \/ CloseFlushes(o)
    PROVE  VouchInv'
  <1>1. /\ logs \in Seq(LogType) /\ (\A g \in Gens(logs) : logs[g] \in LogType) /\ accepted \in 0 .. MaxRecords
        /\ StateLogs \in Seq(LogType) /\ (\A g \in Gens(StateLogs) : StateLogs[g] \in LogType)
    BY Known, StateSame DEF Gens
  <1>2. /\ UNCHANGED <<lines, accepted, acked, gone, disturbed>>
        /\ logOps[o].pc = "idle"
    BY DEF FlushCall, ReadCall, RewriteCall, CloseFlushes, history, Free
  <1>3. ASSUME NEW g \in Gens(logs), logs' = Joined(logs, o, g), logOps' = [logOps EXCEPT ![o] = Op("call", g, "lock")]
        PROVE  VouchInv'
    <2>1. Op("call", g, "lock").pc # "writing"
      BY <1>1, OpIs DEF Gens
    <2>2. logs' = [logs EXCEPT ![g] = [logs[g] EXCEPT !.lockq = Append(@, o)]]
      BY <1>3 DEF Joined
    <2> QED BY <2>1, <2>2, <1>1, <1>2, <1>3, JoinVouches
  <1>4. CASE FlushCall(o)
    <2>1. Len(logs) \in Gens(logs) /\ logs' = Joined(logs, o, Len(logs))
          /\ logOps' = [logOps EXCEPT ![o] = Op("call", Len(logs), "lock")]
      BY <1>1, <1>4 DEF FlushCall, Mapped, Gens
    <2> QED BY <2>1, <1>3
  <1>5. CASE CloseFlushes(o)
    <2>1. CASE ~Mapped /\ UNCHANGED <<logs, logOps>>
      BY <2>1, <1>2 DEF VouchInv
    <2>2. CASE Mapped
      <3>1. Len(logs) \in Gens(logs) /\ logs' = Joined(logs, o, Len(logs))
            /\ logOps' = [logOps EXCEPT ![o] = Op("call", Len(logs), "lock")]
        BY <1>1, <1>5, <2>2 DEF CloseFlushes, Mapped, Gens
      <3> QED BY <3>1, <1>3
    <2> QED BY <2>1, <2>2, <1>5 DEF CloseFlushes
  <1>6. ASSUME StateGiven PROVE Len(StateLogs) \in Gens(StateLogs)
    <2>1. CASE InUse
      BY <2>1, <1>1 DEF StateLogs, InUse, Gens
    <2>2. CASE ~InUse
      <3>1. StateLogs = Append(logs, NewLog) /\ Len(logs) \in Nat
        BY <2>2, <1>1 DEF StateLogs
      <3>2. Len(StateLogs) = Len(logs) + 1
        BY <3>1, <1>1
      <3> QED BY <3>1, <3>2 DEF Gens
    <2> QED BY <2>1, <2>2
  <1>7. PICK g, ls : g = Len(StateLogs) /\ ls = StateLogs
    OBVIOUS
  <1>8. CASE ReadCall(o)
    <2>1. g \in Gens(ls) /\ ls[g] \in LogType
      BY <1>1, <1>6, <1>7, <1>8 DEF ReadCall
    <2>2. logs' = [ls EXCEPT ![g] = [ls[g] EXCEPT !.lockq = Append(@, o)]]
      BY <1>7, <1>8 DEF ReadCall, Joined
    <2>3. logOps' = [logOps EXCEPT ![o] = Op("call", g, "lock")] /\ Op("call", g, "lock").pc # "writing"
      BY <2>1, <1>1, <1>7, <1>8, OpIs DEF ReadCall, Gens
    <2> QED BY <2>1, <2>2, <2>3, <1>1, <1>2, <1>7, JoinVouches
  <1>9. CASE RewriteCall(o)
    <2>1. g \in Gens(ls) /\ ls[g] \in LogType /\ ls \in Seq(LogType)
      BY <1>1, <1>6, <1>7, <1>9 DEF RewriteCall
    <2>2. PICK z, y : z = [ls[g] EXCEPT !.epoch = @ + 1] /\ y = Rewriter(g)
      OBVIOUS
    <2>3. z \in LogType /\ z.pending = ls[g].pending /\ z.failure = ls[g].failure /\ z.settled = ls[g].settled
      <3>1. ls[g].epoch + 1 \in Nat
        <4>1. ls[g].epoch \in Nat
          BY ONLY <2>1 DEF LogType
        <4> QED BY ONLY <4>1
      <3> QED BY <3>1, <2>1, <2>2 DEF LogType
    <2>4. logs' = [ls EXCEPT ![g] = [z EXCEPT !.lockq = Append(@, o)]]
      BY <2>1, <2>2, <1>7, <1>9 DEF RewriteCall, Joined, Gens
    <2>5. logOps' = [logOps EXCEPT ![o] = y] /\ y.pc # "writing"
      <3>1. PICK u : u = Op("rewrite", g, "lock")
        OBVIOUS
      <3>2. u \in OpType /\ u.pc = "lock"
        BY <3>1, <2>1, <1>1, OpIs DEF Gens
      <3>3. PICK t, n : y = [u EXCEPT !.tail = t, !.next = n]
        BY <2>2, <3>1 DEF Rewriter
      <3>4. y.pc = "lock"
        BY <3>2, <3>3 DEF OpType
      <3> QED BY <3>4, <2>2, <1>7, <1>9 DEF RewriteCall
    <2> QED BY <2>1, <2>3, <2>4, <2>5, <1>2, <1>7, JoinVouches
  <1> QED BY <1>4, <1>5, <1>8, <1>9

\* The mutex is held and the generation before has settled.
LEMMA LockedVouches == ASSUME LogInv, LogInv', VouchInv, NEW o \in LogOps, Locked(o) PROVE VouchInv'
  <1>1. PICK y : y = [logOps[o] EXCEPT !.pc = IF logOps[o].kind = "rewrite" THEN "replacing" ELSE "drain"]
    OBVIOUS
  <1>2. /\ logOps[o].pc = "lock" /\ logOps' = [logOps EXCEPT ![o] = y]
        /\ UNCHANGED <<lines, logs, accepted, acked, gone, disturbed>>
    BY <1>1 DEF Locked, history
  <1>3. y.pc # "writing" /\ accepted \in Nat
    BY <1>1, Known DEF OpType
  <1>4. SameWriters(logs, logOps, logOps')
    BY <1>2, <1>3, OneSameWriter
  <1>5. SameRecords(logs, logs', accepted)
    BY <1>2 DEF SameRecords
  <1> QED BY <1>2, <1>3, <1>4, <1>5, QuietKeeps

\* drain_locked takes all that is pending.
LEMMA DrainTakesVouches == ASSUME LogInv, LogInv', VouchInv, NEW o \in LogOps, DrainTakes(o) PROVE VouchInv'
  <1>1. PICK g : g = logOps[o].gen
    OBVIOUS
  <1>2. PICK y : y = [logOps[o] EXCEPT !.pc = "writing", !.batch = logs[g].pending, !.epoch = logs[g].epoch]
    OBVIOUS
  <1>3. /\ logOps[o] \in OpType /\ logOps \in [LogOps -> OpType] /\ accepted \in Nat
        /\ logOps[o].pc = "drain" /\ UNCHANGED <<lines, logs, accepted, acked, gone, disturbed>>
    BY Known DEF DrainTakes, history
  <1>4. logOps' = [logOps EXCEPT ![o] = y]
    BY <1>1, <1>2, <1>3 DEF DrainTakes
  <1>5. y.pc = "writing" /\ y.gen = g /\ y.kind = logOps[o].kind /\ y.batch = logs[g].pending
    BY <1>1, <1>2, <1>3 DEF OpType
  <1>6. SameWriters(logs, logOps, logOps')
    <2>1. logOps'[o] = y /\ \A p \in LogOps : p # o => logOps'[p] = logOps[p]
      BY <1>3, <1>4
    <2>2. Rewrites(logOps[o]) => Rewrites(y)
      BY <1>5 DEF Rewrites
    <2>3. \A r : InGen(logs, g, r) => InFile(y.batch, r)
      BY <1>5 DEF InGen, InFile, Batched
    <2> QED BY <2>1, <2>2, <2>3, <1>1, <1>5 DEF SameWriters
  <1>7. SameRecords(logs, logs', accepted)
    BY <1>3 DEF SameRecords
  <1> QED BY <1>3, <1>6, <1>7, QuietKeeps

\* The batch is in the file, and no longer pending.
LEMMA AppendedVouches ==
    ASSUME LogInv, LogInv', VouchInv, NEW o \in LogOps, NEW g, g = logOps[o].gen, logOps[o].pc = "writing",
           lines' = Written(lines, logOps[o].batch),
           logs' = [logs EXCEPT ![g].pending = SubSeq(@, Len(logOps[o].batch) + 1, Len(@))],
           logOps' = [logOps EXCEPT ![o].pc = "drain", ![o].batch = <<>>, ![o].epoch = 0],
           UNCHANGED <<accepted, acked, gone, disturbed>>
    PROVE  VouchInv'
  <1> SUFFICES ASSUME "latePush" \notin disturbed
               PROVE  VouchedOK(lines', logs', logOps', accepted, acked, gone)
    BY DEF VouchInv
  <1>1. /\ g \in Gens(logs) /\ logs \in Seq(LogType) /\ logs[g] \in LogType /\ logOps[o] \in OpType
        /\ logOps \in [LogOps -> OpType] /\ StoreOK(logs, logOps) /\ StoreOK(logs', logOps') /\ lines \in Seq(Lines)
    BY Known DEF OpOK, LogInv
  <1>2. VouchedOK(lines, logs, logOps, accepted, acked, gone)
    BY DEF VouchInv
  <1>3. PICK b, s, n, x, y : /\ b = logOps[o].batch /\ s = logs[g].pending /\ n = Len(b)
                             /\ x = [logs[g] EXCEPT !.pending = SubSeq(@, Len(b) + 1, Len(@))]
                             /\ y = [logOps[o] EXCEPT !.pc = "drain", !.batch = <<>>, !.epoch = 0]
    OBVIOUS
  <1>4. /\ b \in Seq(Records) /\ s \in Seq(Records) /\ n \in Nat /\ Len(s) \in Nat /\ n <= Len(s)
        /\ \A i \in 1 .. n : b[i] = s[i]
    <2>1. WriteOK(logs, logOps, o)
      BY <1>1 DEF StoreOK, Writes
    <2>2. b \in Seq(Records) /\ s \in Seq(Records)
      BY <1>1, <1>3 DEF OpType, LogType
    <2>3. Len(b) <= Len(s) /\ \A i \in 1 .. Len(b) : b[i] = s[i]
      BY <2>1, <1>3, Zenon DEF WriteOK
    <2> QED BY ONLY <2>2, <2>3, <1>3
  <1>5. /\ logs' = [logs EXCEPT ![g] = x] /\ logOps' = [logOps EXCEPT ![o] = y]
        /\ x.failure = logs[g].failure /\ x.settled = logs[g].settled /\ x.pending = SubSeq(s, n + 1, Len(s))
        /\ y.pc = "drain" /\ y.gen = g /\ y.kind = logOps[o].kind
    <2>1. logs' = [logs EXCEPT ![g] = x]
      BY <1>1, <1>3 DEF Gens
    <2>2. logOps' = [logOps EXCEPT ![o] = y]
      BY <1>1, <1>3
    <2>3. x.failure = logs[g].failure /\ x.settled = logs[g].settled /\ x.pending = SubSeq(s, n + 1, Len(s))
      BY <1>1, <1>3 DEF LogType
    <2>4. y.pc = "drain" /\ y.gen = g /\ y.kind = logOps[o].kind
      BY <1>1, <1>3 DEF OpType
    <2> QED BY <2>1, <2>2, <2>3, <2>4
  <1>6. /\ Gens(logs') = Gens(logs) /\ logs'[g] = x /\ (\A h \in Gens(logs) : h # g => logs'[h] = logs[h])
        /\ logOps'[o] = y /\ \A p \in LogOps : p # o => logOps'[p] = logOps[p]
    <2>1. logs \in Seq(LogType) /\ g \in 1 .. Len(logs) /\ logs' = [logs EXCEPT ![g] = x]
      BY <1>1, <1>5 DEF Gens
    <2>2. Len(logs') = Len(logs)
      BY ONLY <2>1
    <2>3. logs'[g] = x /\ \A h \in 1 .. Len(logs) : h # g => logs'[h] = logs[h]
      BY ONLY <2>1
    <2>4. logOps'[o] = y /\ \A p \in LogOps : p # o => logOps'[p] = logOps[p]
      BY <1>1, <1>5
    <2> QED BY <2>2, <2>3, <2>4 DEF Gens
  <1>7. /\ Len(x.pending) = Len(s) - n /\ \A i \in 1 .. Len(s) - n : x.pending[i] = s[n + i]
    BY <1>4, <1>5, FrontAndRest
  <1>8. \A r : InGen(logs', g, r) => InGen(logs, g, r)
    <2> SUFFICES ASSUME NEW r, NEW i \in 1 .. Len(s) - n, x.pending[i] = r PROVE InGen(logs, g, r)
      BY <1>6, <1>7 DEF InGen, Batched
    <2>1. n + i \in 1 .. Len(s) /\ s[n + i] = r
      BY <1>4, <1>7
    <2> QED BY <2>1, <1>3 DEF InGen, Batched
  <1>9. \A r : InGen(logs, g, r) => InGen(logs', g, r) \/ InFile(b, r)
    <2> SUFFICES ASSUME NEW r, NEW i \in 1 .. Len(s), s[i] = r PROVE InGen(logs', g, r) \/ InFile(b, r)
      BY <1>3 DEF InGen, Batched
    <2>1. CASE i <= n
      BY <2>1, <1>3, <1>4 DEF InFile
    <2>2. CASE i > n
      <3>0. i - n \in 1 .. Len(s) - n /\ i = n + (i - n)
        BY <2>2, <1>4
      <3>1. PICK j \in 1 .. Len(s) - n : i = n + j
        BY <3>0
      <3>2. x.pending[j] = r
        BY <3>1, <1>7
      <3> QED BY <3>1, <3>2, <1>6, <1>7 DEF InGen, Batched
    <2> QED BY <2>1, <2>2, <1>4
  <1>10. \A h \in Gens(logs) : /\ logs'[h].failure = logs[h].failure /\ logs'[h].settled = logs[h].settled
                               /\ \A r : InGen(logs', h, r) => InGen(logs, h, r)
                               /\ h # g => \A r : InGen(logs, h, r) => InGen(logs', h, r)
    <2>1. \A h \in Gens(logs) : h # g => \A r : InGen(logs, h, r) <=> InGen(logs', h, r)
      BY <1>6 DEF InGen, Batched
    <2> QED BY <2>1, <1>5, <1>6, <1>8
  <1>11. /\ \A r \in Records : InFile(lines, r) => InFile(lines', r)
         /\ Whole(lines') => Whole(lines) /\ \A i \in 1 .. Len(b) : InFile(lines', b[i])
    BY <1>1, <1>3, <1>4, WrittenGrows DEF Grown
  <1>12. ASSUME NEW r \in acked PROVE WrittenNext(logs', logOps', r)
    <2> SUFFICES ASSUME NEW h \in Gens(logs'), InGen(logs', h, r)
                 PROVE  /\ \A k \in Gens(logs') : k < h => logs'[k].settled = "yes"
                        /\ \A p \in LogOps : logOps'[p].pc = "writing" /\ logOps'[p].gen = h => InFile(logOps'[p].batch, r)
      BY DEF WrittenNext
    <2>1. /\ \A k \in Gens(logs) : k < h => logs[k].settled = "yes"
          /\ \A p \in LogOps : logOps[p].pc = "writing" /\ logOps[p].gen = h => InFile(logOps[p].batch, r)
      BY <1>2, <1>6, <1>10, <1>12 DEF VouchedOK, WrittenNext
    <2>2. \A k \in Gens(logs') : k < h => logs'[k].settled = "yes"
      BY ONLY <2>1, <1>6, <1>10
    <2>3. ASSUME NEW p \in LogOps, logOps'[p].pc = "writing", logOps'[p].gen = h PROVE InFile(logOps'[p].batch, r)
      <3>1. logOps'[p] = logOps[p]
        BY ONLY <2>3, <1>5, <1>6
      <3> QED BY ONLY <3>1, <2>1, <2>3
    <2> QED BY <2>2, <2>3
  <1>13. ASSUME Whole(lines'), NEW r \in acked PROVE Kept(lines', logs', logOps', gone, r)
    <2>1. Kept(lines, logs, logOps, gone, r)
      BY <1>2, <1>11, <1>13 DEF VouchedOK
    <2>2. r \in Records
      BY DEF LogInv, HistoryOK
    <2>3. CASE r \in gone \/ InFile(lines, r)
      BY <2>2, <2>3, <1>11 DEF Kept
    <2>4. ASSUME InFile(b, r) PROVE Kept(lines', logs', logOps', gone, r)
      BY <2>4, <1>11, <1>13 DEF Kept, InFile
    <2>5. ASSUME NEW h \in Gens(logs), logs[h].failure = "yes", InGen(logs, h, r) PROVE Kept(lines', logs', logOps', gone, r)
      <3>1. InGen(logs', h, r) \/ InFile(b, r)
        BY <2>5, <1>9, <1>10
      <3>2. CASE InGen(logs', h, r)
        BY <3>2, <2>5, <1>6, <1>10 DEF Kept
      <3> QED BY <3>1, <3>2, <2>4
    <2>6. ASSUME NEW p \in LogOps, Rewrites(logOps[p]), InGen(logs, logOps[p].gen, r)
          PROVE  Kept(lines', logs', logOps', gone, r)
      <3>1. logOps[p].gen \in Gens(logs)
        BY <2>6, Known DEF OpOK, Rewrites
      <3>2. InGen(logs', logOps[p].gen, r) \/ InFile(b, r)
        BY <2>6, <3>1, <1>9, <1>10
      <3>3. Rewrites(logOps'[p]) /\ logOps'[p].gen = logOps[p].gen
        <4>1. CASE p = o
          <5>1. logOps'[p].pc = "drain" /\ logOps'[p].gen = logOps[p].gen /\ logOps'[p].kind = logOps[p].kind
            BY <4>1, <1>5, <1>6
          <5> QED BY ONLY <5>1, <2>6 DEF Rewrites
        <4>2. CASE p # o
          BY <4>2, <2>6, <1>6
        <4> QED BY <4>1, <4>2
      <3>4. CASE InGen(logs', logOps[p].gen, r)
        BY <3>3, <3>4 DEF Kept
      <3> QED BY <3>2, <3>4, <2>4
    <2> QED BY <2>1, <2>3, <2>5, <2>6 DEF Kept
  <1> QED BY <1>2, <1>12, <1>13 DEF VouchedOK

\* What o, which has the mutex of generation g, changes when it leaves.
Left(ls, ops, ms, ps, o, g) ==
    /\ ops[o].gen = g /\ ops[o].pc \in Active
    /\ \A p \in LogOps : p # o => ps[p] = ops[p]
    /\ ps[o] = NoOp /\ Gens(ms) = Gens(ls)
    /\ \A h \in Gens(ls) : /\ ms[h].pending = ls[h].pending
                           /\ ls[h].failure = "yes" => ms[h].failure = "yes"
                           /\ ls[h].settled = "yes" => ms[h].settled = "yes"

\* What becomes of a record vouched for, where the file was f and is w.
LeftOver(f, w, ls, ms, g, ack, gn, r) ==
    \/ r \in gn \/ InFile(w, r)
    \/ r \in ack /\ Whole(f) /\ ~InFile(f, r) /\ ~InGen(ls, g, r)
    \/ \E h \in Gens(ls) : ms[h].failure = "yes" /\ InGen(ls, h, r)

\* ack2 has what was vouched for and what a call vouches for as it ends.
Vouches(ops, o, ack, ack2) ==
    /\ ack \subseteq ack2
    /\ \A r \in ack2 : r \in ack \/ (ops[o].kind = "call" /\ r \in 1 .. ops[o].upto)

(***************************************************************************)
(* Whoever has the mutex leaves, w being the file then and gn2 the records *)
(* given up: a record that the file no longer has, or that it leaves       *)
(* behind, is pending in a generation that has failed.                     *)
(***************************************************************************)
LEMMA LeaveVouches ==
    ASSUME NEW f, NEW w, NEW ls, NEW ops, NEW ms, NEW ps, NEW acc \in Nat, NEW ack, NEW ack2, NEW gn, NEW gn2,
           StoreOK(ls, ops), SettledIsDone(ls), CallsCover(ls, ops, acc), VouchedOK(f, ls, ops, acc, ack, gn),
           NEW o \in LogOps, NEW g \in Gens(ls), Left(ls, ops, ms, ps, o, g),
           gn \subseteq gn2, Vouches(ops, o, ack, ack2),
           Whole(w) => \A r \in ack2 : LeftOver(f, w, ls, ms, g, ack, gn2, r)
    PROVE  VouchedOK(w, ms, ps, acc, ack2, gn2)
  <1> USE DEF Left, Vouches
  <1>1. \A h \in Gens(ls) : \A r : InGen(ms, h, r) <=> InGen(ls, h, r)
    BY DEF InGen, Batched
  <1>2. ack2 \subseteq 1 .. acc
    <2>1. ops[o].kind = "call" => ops[o].upto <= acc /\ ops[o].upto \in 0 .. MaxRecords
      BY StoreTypes DEF CallsCover, CallOK, OpType
    <2>2. ASSUME ops[o].kind = "call" PROVE 1 .. ops[o].upto \subseteq 1 .. acc
      BY <2>1, <2>2
    <2> QED BY <2>2 DEF VouchedOK
  <1>3. ASSUME NEW r \in ack2 PROVE WrittenNext(ms, ps, r)
    <2> SUFFICES ASSUME NEW h \in Gens(ls), InGen(ls, h, r)
                 PROVE  /\ \A k \in Gens(ls) : k < h => ms[k].settled = "yes"
                        /\ \A p \in LogOps : ps[p].pc = "writing" /\ ps[p].gen = h => InFile(ps[p].batch, r)
      BY <1>1 DEF WrittenNext
    <2>1. CASE r \in ack
      <3>1. /\ \A k \in Gens(ls) : k < h => ls[k].settled = "yes"
            /\ \A p \in LogOps : ops[p].pc = "writing" /\ ops[p].gen = h => InFile(ops[p].batch, r)
        BY <2>1 DEF VouchedOK, WrittenNext
      <3>2. ps[o].pc # "writing"
        BY DEF NoOp
      <3> QED BY <3>1, <3>2
    <2>2. CASE ops[o].kind = "call" /\ r \in 1 .. ops[o].upto
      <3>1. CallOK(ls, ops[o], acc) /\ ops[o].upto \in Nat
        BY <2>2, StoreTypes DEF CallsCover, OpType
      <3>2. PICK i \in Batched(ls, h) : ls[h].pending[i] = r
        BY DEF InGen
      <3>3. h <= g
        BY <3>1, <3>2, <2>2 DEF CallOK
      <3>4. \A k \in Gens(ls) : k < g => ls[k].settled = "yes"
        BY DEF StoreOK, Releases
      <3>5. h \in Nat /\ g \in Nat /\ \A k \in Gens(ls) : k \in Nat
        BY DEF Gens
      <3>6. ASSUME NEW k \in Gens(ls), k < h PROVE k < g
        <4>1. k \in Nat /\ k < h
          BY <3>5, <3>6
        <4> QED BY ONLY <4>1, <3>3, <3>5
      <3>7. \A p \in LogOps : ~(ps[p].pc = "writing" /\ ps[p].gen = h)
        <4> SUFFICES ASSUME NEW p \in LogOps, ps[p].pc = "writing", ps[p].gen = h PROVE FALSE
          OBVIOUS
        <4>1. p # o /\ ops[p] = ps[p]
          BY DEF NoOp
        <4>2. ls[h].settled # "yes"
          BY <4>1, WorkerNotSettled DEF Active
        <4>3. h = g
          BY <4>2, <3>3, <3>4, <3>5
        <4> QED BY <4>1, <4>3, HeadIsUnique DEF Active
      <3> QED BY <3>4, <3>6, <3>7
    <2> QED BY <2>1, <2>2
  <1>4. ASSUME Whole(w), NEW r \in ack2 PROVE Kept(w, ms, ps, gn2, r)
    <2>1. CASE r \in gn2 \/ InFile(w, r)
      BY <2>1 DEF Kept
    <2>2. ASSUME NEW h \in Gens(ls), ms[h].failure = "yes", InGen(ls, h, r) PROVE Kept(w, ms, ps, gn2, r)
      <3>1. h \in Gens(ms) /\ ms[h].failure = "yes" /\ InGen(ms, h, r)
        BY <2>2, <1>1
      <3> QED BY <3>1 DEF Kept
    <2>3. CASE r \in ack /\ Whole(f) /\ ~InFile(f, r) /\ ~InGen(ls, g, r)
      <3>1. Kept(f, ls, ops, gn, r) /\ ~InFile(f, r) /\ ~InGen(ls, g, r)
        BY <2>3, <1>4 DEF VouchedOK
      <3>2. CASE r \in gn
        BY <3>2 DEF Kept
      <3>3. ASSUME NEW p \in LogOps, Rewrites(ops[p]), InGen(ls, ops[p].gen, r) PROVE Kept(w, ms, ps, gn2, r)
        <4>1. p # o /\ ps[p] = ops[p] /\ ops[p].gen \in Gens(ls)
          BY <3>1, <3>3 DEF StoreOK, OpsOK, OpOK, Rewrites
        <4>2. Rewrites(ps[p]) /\ InGen(ms, ps[p].gen, r)
          BY <4>1, <3>3, <1>1
        <4> QED BY <4>2 DEF Kept
      <3>4. ASSUME NEW h \in Gens(ls), ls[h].failure = "yes", InGen(ls, h, r) PROVE Kept(w, ms, ps, gn2, r)
        BY <3>4, <2>2
      <3> QED BY <3>1, <3>2, <3>3, <3>4 DEF Kept
    <2> QED BY <2>1, <2>2, <2>3, <1>4 DEF LeftOver
  <1> QED BY <1>2, <1>3, <1>4 DEF VouchedOK

\* What the end of a task or a call changes.
LEMMA EndsIs ==
    ASSUME LogInv, NEW o \in LogOps, logOps[o].pc \in Active, NEW g, g = logOps[o].gen, NEW ls, NEW outcome,
           ls = logs \/ ls = [logs EXCEPT ![g].failure = "yes"], Ends(o, ls, outcome)
    PROVE  /\ g \in Gens(logs) /\ Gens(logs') = Gens(logs)
           /\ \A h \in Gens(logs) : /\ logs'[h].pending = logs[h].pending
                                    /\ logs[h].failure = "yes" => logs'[h].failure = "yes"
                                    /\ logs[h].settled = "yes" => logs'[h].settled = "yes"
           /\ logs'[g].failure = ls[g].failure
           /\ logOps'[o] = NoOp /\ \A p \in LogOps : p # o => logOps'[p] = logOps[p]
           /\ acked' = IF outcome = "ok" /\ logOps[o].kind = "call" THEN acked \cup ((1 .. logOps[o].upto) \ gone) ELSE acked
  <1>1. /\ g \in Gens(logs) /\ logs \in Seq(LogType) /\ logs[g] \in LogType /\ logOps \in [LogOps -> OpType]
        /\ g \in 1 .. Len(logs)
    BY Known DEF OpOK, Active, Gens
  <1>2. /\ ls \in Seq(LogType) /\ Len(ls) = Len(logs) /\ ls[g] \in LogType
        /\ ls[g].pending = logs[g].pending /\ (logs[g].failure = "yes" => ls[g].failure = "yes")
        /\ ls[g].settled = logs[g].settled /\ \A h \in 1 .. Len(logs) : h # g => ls[h] = logs[h]
    <2>1. CASE ls = logs
      BY <2>1, <1>1
    <2>2. CASE ls = [logs EXCEPT ![g].failure = "yes"]
      <3>1. PICK z : z = [logs[g] EXCEPT !.failure = "yes"]
        OBVIOUS
      <3>2. z \in LogType /\ z.pending = logs[g].pending /\ z.failure = "yes" /\ z.settled = logs[g].settled
        BY <3>1, <1>1 DEF LogType
      <3>3. ls = [logs EXCEPT ![g] = z] /\ g \in 1 .. Len(logs) /\ logs \in Seq(LogType) /\ z \in LogType
        BY <3>1, <3>2, <2>2, <1>1
      <3>4. ls \in Seq(LogType) /\ Len(ls) = Len(logs)
        BY ONLY <3>3
      <3>5. ls[g] = z /\ \A h \in 1 .. Len(logs) : h # g => ls[h] = logs[h]
        BY ONLY <3>3
      <3> QED BY <3>2, <3>4, <3>5
    <2> QED BY <2>1, <2>2
  <1>3. PICK st, x : /\ st = IF logOps[o].kind = "release" THEN "yes" ELSE ls[g].settled
                     /\ x = [ls[g] EXCEPT !.lockq = Tail(@), !.settled = st]
    OBVIOUS
  <1>4. x.pending = logs[g].pending /\ x.failure = ls[g].failure /\ x.settled = st
    BY <1>2, <1>3 DEF LogType
  <1>5. logs' = [ls EXCEPT ![g] = x] /\ logOps' = [logOps EXCEPT ![o] = NoOp]
    <2>1. logs' = [ls EXCEPT ![g].lockq = Tail(@), ![g].settled = st] /\ logOps' = [logOps EXCEPT ![o] = NoOp]
      BY <1>3 DEF Ends
    <2>2. g \in DOMAIN ls
      BY <1>1, <1>2
    <2>3. [ls EXCEPT ![g].lockq = Tail(@), ![g].settled = st] =
             [ls EXCEPT ![g] = [ls[g] EXCEPT !.lockq = Tail(@), !.settled = st]]
      BY ONLY <2>2
    <2> QED BY <2>1, <2>3, <1>3, Zenon
  <1>6. Len(logs') = Len(logs) /\ logs'[g] = x /\ \A h \in 1 .. Len(logs) : h # g => logs'[h] = logs[h]
    <2>1. ls \in Seq(LogType) /\ g \in 1 .. Len(ls) /\ logs' = [ls EXCEPT ![g] = x]
      BY <1>1, <1>2, <1>5
    <2>2. Len(logs') = Len(ls)
      BY ONLY <2>1
    <2>3. logs'[g] = x /\ \A h \in 1 .. Len(ls) : h # g => logs'[h] = ls[h]
      BY ONLY <2>1
    <2> QED BY <2>2, <2>3, <1>2
  <1>7. \A h \in Gens(logs) : /\ logs'[h].pending = logs[h].pending
                              /\ logs[h].failure = "yes" => logs'[h].failure = "yes"
                              /\ logs[h].settled = "yes" => logs'[h].settled = "yes"
    <2> SUFFICES ASSUME NEW h \in 1 .. Len(logs)
                 PROVE  /\ logs'[h].pending = logs[h].pending
                        /\ logs[h].failure = "yes" => logs'[h].failure = "yes"
                        /\ logs[h].settled = "yes" => logs'[h].settled = "yes"
      BY DEF Gens
    <2>1. CASE h = g
      BY ONLY <2>1, <1>2, <1>3, <1>4, <1>6
    <2>2. CASE h # g
      BY ONLY <2>2, <1>2, <1>6
    <2> QED BY <2>1, <2>2
  <1>8. logOps'[o] = NoOp /\ \A p \in LogOps : p # o => logOps'[p] = logOps[p]
    BY <1>1, <1>5
  <1>9. acked' = IF outcome = "ok" /\ logOps[o].kind = "call" THEN acked \cup ((1 .. logOps[o].upto) \ gone) ELSE acked
    BY DEF Ends
  <1> QED BY <1>1, <1>4, <1>6, <1>7, <1>8, <1>9 DEF Gens

\* The same for the invariant.  What the file and the failed generations have
\* then is left to the actions.
LEMMA EndVouches ==
    ASSUME LogInv, VouchInv, NEW o \in LogOps, logOps[o].pc \in Active, NEW g, g = logOps[o].gen, NEW ls, NEW outcome,
           ls = logs \/ ls = [logs EXCEPT ![g].failure = "yes"], Ends(o, ls, outcome),
           accepted' = accepted, gone \subseteq gone', "latePush" \in disturbed => "latePush" \in disturbed',
           "latePush" \notin disturbed /\ Whole(lines') =>
              \A r \in acked' : LeftOver(lines, lines', logs, logs', g, acked, gone', r)
    PROVE  VouchInv'
  <1> SUFFICES ASSUME "latePush" \notin disturbed PROVE VouchedOK(lines', logs', logOps', accepted, acked', gone')
    BY DEF VouchInv
  <1>1. /\ g \in Gens(logs) /\ Gens(logs') = Gens(logs)
        /\ \A h \in Gens(logs) : /\ logs'[h].pending = logs[h].pending
                                 /\ logs[h].failure = "yes" => logs'[h].failure = "yes"
                                 /\ logs[h].settled = "yes" => logs'[h].settled = "yes"
        /\ logOps'[o] = NoOp /\ (\A p \in LogOps : p # o => logOps'[p] = logOps[p])
        /\ acked' = IF outcome = "ok" /\ logOps[o].kind = "call" THEN acked \cup ((1 .. logOps[o].upto) \ gone) ELSE acked
    BY EndsIs
  <1>2. /\ StoreOK(logs, logOps) /\ SettledIsDone(logs) /\ CallsCover(logs, logOps, accepted) /\ accepted \in Nat
        /\ VouchedOK(lines, logs, logOps, accepted, acked, gone)
    BY Known DEF LogInv, DataOK, VouchInv
  <1>3. PICK w, ms, ps, ack2, gn2 : w = lines' /\ ms = logs' /\ ps = logOps' /\ ack2 = acked' /\ gn2 = gone'
    OBVIOUS
  <1>4. Left(logs, logOps, ms, ps, o, g)
    BY <1>1, <1>3 DEF Left
  <1>5. Vouches(logOps, o, acked, ack2)
    BY <1>1, <1>3 DEF Vouches
  <1>6. /\ gone \subseteq gn2 /\ o \in LogOps /\ g \in Gens(logs)
        /\ Whole(w) => \A r \in ack2 : LeftOver(lines, w, logs, ms, g, acked, gn2, r)
    BY <1>1, <1>3
  <1>7. VouchedOK(w, ms, ps, accepted, ack2, gn2)
    BY ONLY <1>2, <1>4, <1>5, <1>6, LeaveVouches
  <1> QED BY <1>3, <1>7

\* A file that is replaced or written to leaves behind what it left behind.
LEMMA StillLeft ==
    ASSUME NEW g \in Gens(logs), NEW r \in acked, Whole(lines), InFile(lines, r) => InFile(lines', r),
           InGen(logs, g, r) => logs'[g].failure = "yes" \/ InFile(lines', r)
    PROVE  LeftOver(lines, lines', logs, logs', g, acked, gone', r)
  BY DEF LeftOver

\* What a call vouches for.
LEMMA CallLeft ==
    ASSUME LogInv, "latePush" \notin disturbed, NEW o \in LogOps, logOps[o].pc \in Active, logOps[o].kind = "call",
           NEW g, g = logOps[o].gen, NEW outcome, Ends(o, logs, outcome), gone' = gone,
           Whole(lines'), Whole(lines), \A r \in Records : InFile(lines, r) => InFile(lines', r),
           \/ logs[g].pending = <<>>
           \/ logOps[o].pc = "writing" /\ \A i \in 1 .. Len(logOps[o].batch) : InFile(lines', logOps[o].batch[i]),
           NEW r \in 1 .. logOps[o].upto
    PROVE  LeftOver(lines, lines', logs, logs', g, acked, gone', r)
  <1>1. PICK w, ls : w = lines' /\ ls = logs
    OBVIOUS
  <1>2. /\ Whole(w) /\ (Whole(w) => Whole(lines)) /\ (\A x \in Records : InFile(lines, x) => InFile(w, x))
        /\ \/ logs[logOps[o].gen].pending = <<>>
           \/ logOps[o].pc = "writing" /\ \A i \in 1 .. Len(logOps[o].batch) : InFile(w, logOps[o].batch[i])
    BY <1>1
  <1>3. r \in gone \/ InFile(w, r) \/ \E h \in Gens(logs) : logs[h].failure = "yes" /\ InGen(logs, h, r)
    BY <1>2, CallVouches
  <1>4. Ends(o, ls, outcome)
    BY <1>1 DEF Ends
  <1>5. \A h \in Gens(logs) : logs[h].failure = "yes" => logs'[h].failure = "yes"
    BY <1>1, <1>4, EndsIs
  <1> QED BY <1>1, <1>3, <1>5 DEF LeftOver

\* drain_locked finds nothing to write, or a failure.
LEMMA DrainEndsVouches == ASSUME LogInv, VouchInv, NEW o \in LogOps, DrainEnds(o) PROVE VouchInv'
  <1>1. PICK g, ls : g = logOps[o].gen /\ ls = logs
    OBVIOUS
  <1>2. PICK outcome : /\ Ends(o, logs, outcome)
                       /\ \/ logs[g].failure = "yes" /\ outcome = "error"
                          \/ logs[g].failure = "no" /\ logs[g].pending = <<>> /\ outcome = "ok"
    BY <1>1 DEF DrainEnds
  <1>3. Ends(o, ls, outcome) /\ (ls = logs \/ ls = [logs EXCEPT ![g].failure = "yes"])
    BY <1>1, <1>2 DEF Ends
  <1>4. logOps[o].pc \in Active /\ UNCHANGED <<lines, accepted, gone, disturbed>>
    BY DEF DrainEnds, Active
  <1>5. /\ g \in Gens(logs) /\ logs'[g].failure = logs[g].failure
        /\ acked' = IF outcome = "ok" /\ logOps[o].kind = "call" THEN acked \cup ((1 .. logOps[o].upto) \ gone) ELSE acked
    BY <1>1, <1>3, <1>4, EndsIs
  <1>6. ASSUME "latePush" \notin disturbed, Whole(lines'), NEW r \in acked'
        PROVE  LeftOver(lines, lines', logs, logs', g, acked, gone', r)
    <2>1. CASE r \in acked
      <3>1. ASSUME InGen(logs, g, r) PROVE logs'[g].failure = "yes"
        <4>1. ASSUME logs[g].pending = <<>> PROVE FALSE
          <5>1. Len(logs[g].pending) = 0
            BY <4>1
          <5> QED BY <5>1, <3>1 DEF InGen, Batched
        <4> QED BY <4>1, <1>2, <1>5
      <3> QED BY <2>1, <3>1, <1>4, <1>5, <1>6, StillLeft
    <2>2. CASE outcome = "ok" /\ logOps[o].kind = "call" /\ r \in 1 .. logOps[o].upto
      <3>1. Whole(lines) /\ (\A x \in Records : InFile(lines, x) => InFile(lines', x)) /\ gone' = gone /\ logs[g].pending = <<>>
        BY <2>2, <1>2, <1>4, <1>6
      <3> QED BY <3>1, <2>2, <1>1, <1>2, <1>4, <1>6, CallLeft
    <2> QED BY <2>1, <2>2, <1>5
  <1> QED BY <1>1, <1>3, <1>4, <1>6, EndVouches

\* A rewrite was called while the batch was written.
LEMMA CutOverVouches ==
    ASSUME LogInv, VouchInv, NEW o \in LogOps, logOps[o].pc = "writing", lines' = Written(lines, logOps[o].batch),
           Ends(o, logs, "ok"), disturbed' = disturbed \cup {"cutover"}, UNCHANGED <<accepted, gone>>
    PROVE  VouchInv'
  <1>1. PICK g, ls, outcome, b : g = logOps[o].gen /\ ls = logs /\ outcome = "ok" /\ b = logOps[o].batch
    OBVIOUS
  <1>2. Ends(o, ls, outcome) /\ Ends(o, logs, outcome) /\ (ls = logs \/ ls = [logs EXCEPT ![g].failure = "yes"])
    BY <1>1 DEF Ends
  <1>3. logOps[o].pc \in Active /\ lines \in Seq(Lines) /\ b \in Seq(Records)
    BY <1>1, Known, StoreTypes DEF Active
  <1>4. /\ g \in Gens(logs)
        /\ acked' = IF outcome = "ok" /\ logOps[o].kind = "call" THEN acked \cup ((1 .. logOps[o].upto) \ gone) ELSE acked
    BY <1>1, <1>2, <1>3, EndsIs
  <1>5. /\ \A r \in Records : InFile(lines, r) => InFile(lines', r)
        /\ Whole(lines') => Whole(lines) /\ \A i \in 1 .. Len(b) : InFile(lines', b[i])
    BY <1>1, <1>3, WrittenGrows DEF Grown
  <1>6. ASSUME "latePush" \notin disturbed, Whole(lines'), NEW r \in acked'
        PROVE  LeftOver(lines, lines', logs, logs', g, acked, gone', r)
    <2>1. CASE r \in acked
      <3>1. r \in Records
        BY <2>1 DEF LogInv, HistoryOK
      <3>2. ASSUME InGen(logs, g, r) PROVE InFile(lines', r)
        <4>1. InFile(b, r)
          BY <3>2, <2>1, <1>1, <1>4, <1>6 DEF VouchInv, VouchedOK, WrittenNext
        <4> QED BY <4>1, <1>5, <1>6 DEF InFile
      <3> QED BY <2>1, <3>1, <3>2, <1>4, <1>5, <1>6, StillLeft
    <2>2. CASE logOps[o].kind = "call" /\ r \in 1 .. logOps[o].upto
      <3>1. /\ Whole(lines) /\ gone' = gone
            /\ logOps[o].pc = "writing" /\ \A i \in 1 .. Len(logOps[o].batch) : InFile(lines', logOps[o].batch[i])
        BY <1>1, <1>5, <1>6
      <3> QED BY <3>1, <2>2, <1>1, <1>2, <1>3, <1>5, <1>6, CallLeft
    <2> QED BY <2>1, <2>2, <1>4
  <1>7. /\ accepted' = accepted /\ gone \subseteq gone' /\ ("latePush" \in disturbed => "latePush" \in disturbed')
    OBVIOUS
  <1> QED BY <1>1, <1>2, <1>3, <1>6, <1>7, EndVouches

\* The append succeeded, with or without a cut-over.
LEMMA AppendDoneVouches == ASSUME LogInv, LogInv', VouchInv, NEW o \in LogOps, AppendDone(o) PROVE VouchInv'
  <1>1. PICK g : g = logOps[o].gen
    OBVIOUS
  <1>2. /\ logOps[o].pc = "writing" /\ lines' = Written(lines, logOps[o].batch) /\ UNCHANGED <<accepted, gone>>
        /\ \/ Ends(o, logs, "ok") /\ disturbed' = disturbed \cup {"cutover"}
           \/ /\ logs' = [logs EXCEPT ![g].pending = SubSeq(@, Len(logOps[o].batch) + 1, Len(@))]
              /\ logOps' = [logOps EXCEPT ![o].pc = "drain", ![o].batch = <<>>, ![o].epoch = 0]
              /\ UNCHANGED <<acked, disturbed>>
    BY <1>1 DEF AppendDone
  <1>3. CASE Ends(o, logs, "ok") /\ disturbed' = disturbed \cup {"cutover"}
    BY <1>2, <1>3, CutOverVouches
  <1>4. CASE /\ logs' = [logs EXCEPT ![g].pending = SubSeq(@, Len(logOps[o].batch) + 1, Len(@))]
             /\ logOps' = [logOps EXCEPT ![o].pc = "drain", ![o].batch = <<>>, ![o].epoch = 0]
             /\ UNCHANGED <<acked, disturbed>>
    BY <1>1, <1>2, <1>4, AppendedVouches
  <1> QED BY <1>2, <1>3, <1>4

\* What an end with an error changes.
LEMMA FailedEnd ==
    ASSUME LogInv, NEW o \in LogOps, logOps[o].pc \in Active, NEW g, g = logOps[o].gen,
           Ends(o, [logs EXCEPT ![g].failure = "yes"], "error")
    PROVE  /\ g \in Gens(logs) /\ logs'[g].failure = "yes" /\ acked' = acked
           /\ \A h \in Gens(logs) : logs[h].failure = "yes" => logs'[h].failure = "yes"
  <1>1. PICK ls, outcome : ls = [logs EXCEPT ![g].failure = "yes"] /\ outcome = "error"
    OBVIOUS
  <1>2. Ends(o, ls, outcome)
    BY <1>1 DEF Ends
  <1>3. g \in Gens(logs) /\ logs \in Seq(LogType) /\ logs[g] \in LogType
    BY Known DEF OpOK, Active
  <1>4. ls[g].failure = "yes"
    BY <1>1, <1>3 DEF LogType, Gens
  <1>5. LogInv /\ o \in LogOps /\ logOps[o].pc \in Active /\ g = logOps[o].gen
    OBVIOUS
  <1>6. ls = logs \/ ls = [logs EXCEPT ![g].failure = "yes"]
    BY <1>1
  <1>7. /\ logs'[g].failure = ls[g].failure
        /\ \A h \in Gens(logs) : logs[h].failure = "yes" => logs'[h].failure = "yes"
        /\ acked' = IF outcome = "ok" /\ logOps[o].kind = "call" THEN acked \cup ((1 .. logOps[o].upto) \ gone) ELSE acked
    BY ONLY <1>2, <1>5, <1>6, EndsIs
  <1>8. outcome # "ok"
    BY <1>1
  <1> QED BY ONLY <1>3, <1>4, <1>7, <1>8

\* The storage fails, and the file keeps what it had.
LEMMA FailureVouches ==
    ASSUME LogInv, VouchInv, NEW o \in LogOps, logOps[o].pc \in Active, NEW g, g = logOps[o].gen,
           Ends(o, [logs EXCEPT ![g].failure = "yes"], "error"), accepted' = accepted, UNCHANGED <<gone, disturbed>>,
           \A r \in Records : InFile(lines, r) => InFile(lines', r), Whole(lines') => Whole(lines)
    PROVE  VouchInv'
  <1>1. PICK ls, outcome : ls = [logs EXCEPT ![g].failure = "yes"] /\ outcome = "error"
    OBVIOUS
  <1>2. Ends(o, ls, outcome) /\ (ls = logs \/ ls = [logs EXCEPT ![g].failure = "yes"])
    BY <1>1 DEF Ends
  <1>3. g \in Gens(logs) /\ logs'[g].failure = "yes" /\ acked' = acked
    BY FailedEnd
  <1>6. ASSUME "latePush" \notin disturbed, Whole(lines'), NEW r \in acked'
        PROVE  LeftOver(lines, lines', logs, logs', g, acked, gone', r)
    <2>1. r \in acked /\ r \in Records
      BY <1>3 DEF LogInv, HistoryOK
    <2> QED BY <2>1, <1>3, <1>6, StillLeft
  <1>7. gone \subseteq gone' /\ ("latePush" \in disturbed => "latePush" \in disturbed')
    OBVIOUS
  <1> QED BY <1>2, <1>6, <1>7, EndVouches

\* The append failed: its records stay pending in a generation that has failed.
LEMMA AppendFailsVouches == ASSUME LogInv, VouchInv, NEW o \in LogOps, AppendFails(o) PROVE VouchInv'
  <1>1. PICK g : g = logOps[o].gen
    OBVIOUS
  <1>2. /\ logOps[o].pc \in Active /\ UNCHANGED <<accepted, gone, disturbed>>
        /\ Ends(o, [logs EXCEPT ![g].failure = "yes"], "error") /\ lines' \in CutShort(lines, logOps[o].batch)
    BY <1>1 DEF AppendFails, Active
  <1>3. lines \in Seq(Lines) /\ logOps[o].batch \in Seq(Records)
    BY Known, StoreTypes
  <1>4. (\A r \in Records : InFile(lines, r) => InFile(lines', r)) /\ (Whole(lines') => Whole(lines))
    BY <1>2, <1>3, CutShortGrows DEF Grown
  <1> QED BY <1>1, <1>2, <1>4, FailureVouches

\* The file is replaced.  What was vouched for is given up, or is the live tail
\* of the rewrite, or has been left behind by a generation that had failed.
LEMMA TailOrFailed ==
    ASSUME LogInv, VouchInv, "latePush" \notin disturbed, NEW o \in LogOps, logOps[o].pc = "replacing", Replaced,
           NEW g, g = logOps[o].gen, NEW r \in acked
    PROVE  \/ r \in gone'
           \/ \E h \in Gens(logs) : (h = g \/ (h # g /\ logs[h].failure = "yes")) /\ InGen(logs, h, r)
  <1> SUFFICES ASSUME r \notin gone'
               PROVE  \E h \in Gens(logs) : (h = g \/ (h # g /\ logs[h].failure = "yes")) /\ InGen(logs, h, r)
    OBVIOUS
  <1>1. /\ StoreOK(logs, logOps) /\ SettledIsDone(logs) /\ VouchedOK(lines, logs, logOps, accepted, acked, gone)
        /\ logOps[o].pc \in Active /\ logOps[o].kind = "rewrite" /\ g \in Gens(logs)
    BY Known DEF LogInv, DataOK, VouchInv, Active, OpOK
  <1>2. PICK h \in Gens(logs) : InGen(logs, h, r)
    BY <1>1, PendingIs DEF Replaced, VouchedOK
  <1>3. h \in Nat /\ g \in Nat
    BY <1>1, StoreTypes
  <1>4. CASE h < g
    <2>1. logs[h].settled = "yes"
      BY <1>1, <1>4 DEF StoreOK, Releases
    <2>2. ASSUME logs[h].pending = <<>> PROVE FALSE
      <3>1. Len(logs[h].pending) = 0
        BY <2>2
      <3> QED BY <3>1, <1>2 DEF InGen, Batched
    <2>3. logs[h].failure = "yes"
      BY <2>1, <2>2, <1>1 DEF SettledIsDone
    <2> QED BY <2>3, <1>2
  <1>5. CASE h > g
    <2>1. logs[g].settled = "yes"
      BY <1>1, <1>2, <1>3, <1>5 DEF VouchedOK, WrittenNext
    <2> QED BY <2>1, <1>1, WorkerNotSettled
  <1> QED BY <1>2, <1>3, <1>4, <1>5

\* The replacement failed, with or without having replaced the file.
LEMMA ReplaceFailsVouches == ASSUME LogInv, VouchInv, NEW o \in LogOps, ReplaceFails(o) PROVE VouchInv'
  <1>1. PICK g, ls, outcome : g = logOps[o].gen /\ ls = [logs EXCEPT ![g].failure = "yes"] /\ outcome = "error"
    OBVIOUS
  <1>2. /\ logOps[o].pc = "replacing" /\ logOps[o].pc \in Active /\ accepted' = accepted
        /\ Ends(o, [logs EXCEPT ![g].failure = "yes"], "error")
        /\ Replaced \/ UNCHANGED <<lines, gone, disturbed>>
    BY <1>1 DEF ReplaceFails, Active
  <1>3. CASE UNCHANGED <<lines, gone, disturbed>>
    BY <1>1, <1>2, <1>3, FailureVouches
  <1>4. CASE Replaced
    <2>1. Ends(o, ls, outcome) /\ (ls = logs \/ ls = [logs EXCEPT ![g].failure = "yes"])
      BY <1>1, <1>2 DEF Ends
    <2>4. logs'[g].failure = "yes" /\ acked' = acked /\ \A h \in Gens(logs) : logs[h].failure = "yes" => logs'[h].failure = "yes"
      BY <1>1, <1>2, FailedEnd
    <2>5. ASSUME "latePush" \notin disturbed, NEW r \in acked'
          PROVE  LeftOver(lines, lines', logs, logs', g, acked, gone', r)
      <3>1. \/ r \in gone'
            \/ \E h \in Gens(logs) : (h = g \/ (h # g /\ logs[h].failure = "yes")) /\ InGen(logs, h, r)
        BY <1>1, <1>2, <1>4, <2>4, <2>5, TailOrFailed
      <3> QED BY <3>1, <2>4 DEF LeftOver
    <2>6. gone \subseteq gone' /\ ("latePush" \in disturbed => "latePush" \in disturbed')
      BY <1>4 DEF Replaced
    <2> QED BY <1>1, <1>2, <2>1, <2>5, <2>6, EndVouches
  <1> QED BY <1>2, <1>3, <1>4

\* The file is replaced, and the rewrite goes on to write its live tail.
LEMMA ReplaceDoneVouches == ASSUME LogInv, VouchInv, NEW o \in LogOps, ReplaceDone(o) PROVE VouchInv'
  <1>1. PICK g, x, y : g = logOps[o].gen /\ x = [logs[g] EXCEPT !.failure = "no"] /\ y = [logOps[o] EXCEPT !.pc = "drain"]
    OBVIOUS
  <1>2. /\ logOps[o].pc = "replacing" /\ Replaced /\ accepted' = accepted /\ acked' = acked
        /\ logs' = [logs EXCEPT ![g].failure = "no"] /\ logOps' = [logOps EXCEPT ![o].pc = "drain"]
    BY <1>1 DEF ReplaceDone
  <1>3. /\ g \in Gens(logs) /\ logs \in Seq(LogType) /\ logs[g] \in LogType /\ logOps \in [LogOps -> OpType]
        /\ logOps[o] \in OpType /\ logOps[o].kind = "rewrite"
    BY <1>1, <1>2, Known DEF OpOK
  <1>4. /\ x \in LogType /\ x.pending = logs[g].pending /\ x.settled = logs[g].settled
        /\ y.pc = "drain" /\ y.gen = g /\ y.kind = "rewrite"
    BY <1>1, <1>3 DEF LogType, OpType
  <1>5. logs' = [logs EXCEPT ![g] = x] /\ logOps' = [logOps EXCEPT ![o] = y] /\ g \in 1 .. Len(logs)
    BY <1>1, <1>2, <1>3 DEF Gens
  <1>6. Len(logs') = Len(logs) /\ logs'[g] = x /\ \A h \in 1 .. Len(logs) : h # g => logs'[h] = logs[h]
    BY ONLY <1>3, <1>4, <1>5
  <1>7. logOps'[o] = y /\ \A p \in LogOps : p # o => logOps'[p] = logOps[p]
    BY <1>3, <1>5
  <1>8. /\ Gens(logs') = Gens(logs)
        /\ \A h \in Gens(logs) : logs'[h].pending = logs[h].pending /\ logs'[h].settled = logs[h].settled
    BY <1>4, <1>6 DEF Gens
  <1>9. \A h \in Gens(logs) : \A r : InGen(logs', h, r) <=> InGen(logs, h, r)
    BY <1>8 DEF InGen, Batched
  <1> SUFFICES ASSUME "latePush" \notin disturbed PROVE VouchedOK(lines', logs', logOps', accepted, acked, gone')
    BY <1>2 DEF VouchInv, Replaced
  <1>10. VouchedOK(lines, logs, logOps, accepted, acked, gone)
    BY DEF VouchInv
  <1>11. ASSUME NEW r \in acked PROVE WrittenNext(logs', logOps', r)
    <2> SUFFICES ASSUME NEW h \in Gens(logs), InGen(logs, h, r)
                 PROVE  /\ \A k \in Gens(logs) : k < h => logs'[k].settled = "yes"
                        /\ \A p \in LogOps : logOps'[p].pc = "writing" /\ logOps'[p].gen = h => InFile(logOps'[p].batch, r)
      BY <1>8, <1>9 DEF WrittenNext
    <2>1. /\ \A k \in Gens(logs) : k < h => logs[k].settled = "yes"
          /\ \A p \in LogOps : logOps[p].pc = "writing" /\ logOps[p].gen = h => InFile(logOps[p].batch, r)
      BY <1>10, <1>11 DEF VouchedOK, WrittenNext
    <2> QED BY <2>1, <1>4, <1>7, <1>8
  <1>12. ASSUME NEW r \in acked PROVE Kept(lines', logs', logOps', gone', r)
    <2>1. CASE r \in gone'
      BY <2>1 DEF Kept
    <2>2. ASSUME NEW h \in Gens(logs), h = g \/ (h # g /\ logs[h].failure = "yes"), InGen(logs, h, r)
          PROVE  Kept(lines', logs', logOps', gone', r)
      <3>1. CASE h = g
        <4>1. Rewrites(logOps'[o]) /\ InGen(logs', logOps'[o].gen, r)
          BY <3>1, <2>2, <1>4, <1>7, <1>9 DEF Rewrites
        <4> QED BY <4>1 DEF Kept
      <3>2. CASE h # g /\ logs[h].failure = "yes"
        <4>1. h \in Gens(logs') /\ logs'[h].failure = "yes" /\ InGen(logs', h, r)
          BY <3>2, <2>2, <1>6, <1>8, <1>9 DEF Gens
        <4> QED BY <4>1 DEF Kept
      <3> QED BY <2>2, <3>1, <3>2
    <2> QED BY <2>1, <2>2, <1>1, <1>2, <1>12, TailOrFailed
  <1> QED BY <1>10, <1>11, <1>12 DEF VouchedOK

\* After a crash what was vouched for is in the file, or given up.
LEMMA CrashVouches == ASSUME LogInv, VouchInv, CrashLog PROVE VouchInv'
  <1>1. logs' = <<>> /\ UNCHANGED <<accepted, acked, disturbed>>
    BY DEF CrashLog
  <1>2. Len(logs') = 0 /\ Gens(logs') = {}
    BY <1>1 DEF Gens
  <1> SUFFICES ASSUME "latePush" \notin disturbed PROVE VouchedOK(lines', logs', logOps', accepted, acked, gone')
    BY <1>1 DEF VouchInv
  <1>3. acked \subseteq 1 .. accepted
    BY DEF VouchInv, VouchedOK
  <1>4. \A r \in acked : WrittenNext(logs', logOps', r)
    BY <1>2 DEF WrittenNext
  <1>5. ASSUME Whole(lines'), NEW r \in acked PROVE Kept(lines', logs', logOps', gone', r)
    BY <1>3, <1>5, CrashLoses DEF Kept
  <1> QED BY <1>3, <1>4, <1>5 DEF VouchedOK

\* Every step keeps what a flush has vouched for.
LEMMA VouchStep == LogInv /\ LogInv' /\ VouchInv /\ [LogStep]_logVars => VouchInv'
  <1> SUFFICES ASSUME LogInv, LogInv', VouchInv, [LogStep]_logVars PROVE VouchInv'
    OBVIOUS
  <1>1. CASE AdmitAppend \/ AdmitAcquire
    BY <1>1, AdmitVouches DEF AdmitAppend, AdmitAcquire
  <1>2. CASE Acquire
    BY <1>2, AcquireVouches
  <1>3. ASSUME NEW o \in LogOps,
               AppendValue(o) \/ FlushCall(o) \/ ReadCall(o) \/ RewriteCall(o) \/ AppendFails(o) \/ ReplaceFails(o)
               \/ CloseFlushes(o)
        PROVE  VouchInv'
    BY <1>3, AppendValueVouches, CallVouchesNothing, AppendFailsVouches, ReplaceFailsVouches
  <1>4. ASSUME NEW o \in LogOps, LogOpStep(o) PROVE VouchInv'
    BY <1>4, FlushBeginsVouches, ReleaseBeginsVouches, LockedVouches, DrainEndsVouches, DrainTakesVouches,
       AppendDoneVouches, ReplaceDoneVouches DEF LogOpStep
  <1>5. ASSUME NEW o \in LogOps, NEW g \in DOMAIN logs, DisposeHandle(o, g) PROVE VouchInv'
    BY <1>5, DisposeVouches
  <1>6. CASE CloseStore \/ UNCHANGED logVars
    <2>1. UNCHANGED <<lines, logs, logOps, accepted, acked, gone, disturbed>>
      BY <1>6 DEF CloseStore, logVars, history
    <2> QED BY <2>1 DEF VouchInv
  <1>7. CASE CrashLog
    BY <1>7, CrashVouches
  <1> QED BY <1>1, <1>2, <1>3, <1>4, <1>5, <1>6, <1>7 DEF LogStep

\* At the start nothing has been vouched for.
LEMMA VouchInit == LogInit => VouchInv
  BY DEF LogInit, VouchInv, VouchedOK

\* Both parts of the invariant.
LEMMA LogAndVouch == LogSpec => [](LogInv /\ VouchInv)
  <1> QED BY LogInvInit, LogInvStep, VouchInit, VouchStep, PTL DEF LogSpec

(***************************************************************************)
(* The invariant of the store, for any number of tasks, records,           *)
(* generations, rewrites and faults.                                       *)
(***************************************************************************)
THEOREM LogInvariant == LogSpec => []LogInv
  <1> QED BY LogAndVouch, PTL

(***************************************************************************)
(* No record is stranded in memory: while its generation has not failed, a *)
(* task of schedule_flush has yet to begin, or a task, a call or a rewrite *)
(* is in the queue of the operation mutex.                                 *)
(***************************************************************************)
THEOREM RecordsAreFlushed == LogSpec => []FlushComing
  <1>1. LogInv => FlushComing
    <2> SUFFICES ASSUME LogInv, NEW g \in DOMAIN logs, logs[g].pending # <<>>, logs[g].failure = "no"
                 PROVE  \E o \in LogOps : logOps[o].gen = g
      BY DEF FlushComing
    <2>1. g \in Gens(logs) /\ logs[g] \in LogType /\ StoreOK(logs, logOps)
      BY Known
    <2>2. logs[g].scheduled \in {"no", "yes"}
      BY <2>1 DEF LogType
    <2> QED BY <2>1, <2>2 DEF StoreOK, Flushes
  <1> QED BY <1>1, LogInvariant, PTL

(***************************************************************************)
(* As long as no record was pushed to a generation just retired and no     *)
(* batch was written while a rewrite waited, the file has the records in   *)
(* the order in which append_value took them, each once, whatever fails or *)
(* crashes: drain_locked takes the front of what is pending, one worker at *)
(* a time, and a generation waits for the one before it.                   *)
(***************************************************************************)
THEOREM FileKeepsOrder == LogSpec => []FileInOrder
  <1>1. LogInv => FileInOrder
    <2> SUFFICES ASSUME LogInv, disturbed = {}
                 PROVE  \A i, j \in DOMAIN lines : i < j /\ lines[i] > 0 /\ lines[j] > 0 => lines[i] < lines[j]
      BY DEF FileInOrder
    <2>1. Rising(lines)
      BY DEF LogInv, DataOK, LinesFirst
    <2>2. DOMAIN lines = 1 .. Len(lines)
      BY Known
    <2> QED BY <2>1, <2>2 DEF Rising
  <1> QED BY <1>1, LogInvariant, PTL

(***************************************************************************)
(* What flush or read_values returned for is in the file after any crash,  *)
(* unless a rewrite replaced it, or it is pending in a generation whose    *)
(* failure append_value reports, or it is the live tail of a rewrite       *)
(* between storage.write and the end of drain_locked: a crash in that      *)
(* window loses it.                                                        *)
(***************************************************************************)
THEOREM FlushIsDurable == LogSpec => []FlushedIsDurable
  <1>1. LogInv /\ VouchInv => FlushedIsDurable
    <2> SUFFICES ASSUME LogInv, VouchInv, "latePush" \notin disturbed, \A i \in DOMAIN lines : lines[i] # Bad, NEW r \in acked
                 PROVE  r \in RecordsIn(lines) \cup FailedPending \cup LiveTail \cup gone
      BY DEF FlushedIsDurable
    <2>1. lines \in Seq(Lines) /\ acked \subseteq Records
      BY DEF LogInv, HistoryOK
    <2>2. Whole(lines)
      BY <2>1 DEF Whole
    <2>3. Kept(lines, logs, logOps, gone, r)
      BY <2>2 DEF VouchInv, VouchedOK
    <2> QED BY <2>1, <2>3, PendingIs DEF Kept
  <1> QED BY <1>1, LogAndVouch, PTL

(***************************************************************************)
(* What was being written when rewrite_values was called stays pending     *)
(* until the rewrite has replaced the file, and is then in the file or     *)
(* still pending, if the rewrite is the next to get the mutex.             *)
(***************************************************************************)
THEOREM TailSurvivesRewrite == LogSpec => []RewriteKeepsTail
  <1>1. LogInv => RewriteKeepsTail
    <2> SUFFICES ASSUME LogInv, "latePush" \notin disturbed, NEW o \in LogOps, logOps[o].next = "yes", NEW r \in logOps[o].tail
                 PROVE  \/ r \in RecordsIn(logs[logOps[o].gen].pending)
                        \/ logOps[o].pc \notin {"lock", "replacing"} /\ r \in RecordsIn(lines)
      BY DEF RewriteKeepsTail, TailKept
    <2>1. PICK g : g = logOps[o].gen
      OBVIOUS
    <2>2. InGen(logs, g, r) \/ (logOps[o].pc \notin {"lock", "replacing"} /\ InFile(lines, r))
      BY <2>1 DEF LogInv, DataOK, TailsKept, TailOK, TailIn
    <2>3. StoreOK(logs, logOps) /\ logOps[o] \in OpType /\ OpOK(logs, logOps[o])
      BY Known
    <2>4. r \in Records
      BY <2>3 DEF OpType
    <2>5. g \in Gens(logs)
      BY <2>1, <2>3 DEF OpOK, NoOp
    <2>6. DOMAIN logs[g].pending = Batched(logs, g)
      <3>1. logs[g].pending \in Seq(Records)
        BY <2>3, <2>5, StoreTypes
      <3> QED BY <3>1 DEF Batched
    <2>7. InGen(logs, g, r) => r \in RecordsIn(logs[g].pending)
      BY <2>4, <2>6 DEF InGen, RecordsIn
    <2> QED BY <2>1, <2>2, <2>4, <2>7, PendingIs
  <1> QED BY <1>1, LogInvariant, PTL

-----------------------------------------------------------------------------
(***************************************************************************)
(* Nobody waits for ever: a generation that is retired and not settled has *)
(* its release in the queue of its mutex.                                  *)
(***************************************************************************)
Releasing(ops, g) == \E o \in LogOps : ops[o].kind = "release" /\ ops[o].gen = g /\ ops[o].pc \in Queued
Unsettled(ls, g) == ls[g].retired = "yes" /\ ls[g].settled = "no"
Retiring == \A g \in Gens(logs) : Unsettled(logs, g) => Releasing(logOps, g)

\* A step that neither retires a generation nor takes a release from a queue.
LEMMA RetiringStays ==
    ASSUME Retiring, \A g \in Gens(logs') : Unsettled(logs', g) => g \in Gens(logs) /\ Unsettled(logs, g),
           \A o \in LogOps : logOps[o].kind = "release" /\ logOps[o].pc \in Queued =>
               \/ logOps'[o].kind = "release" /\ logOps'[o].gen = logOps[o].gen /\ logOps'[o].pc \in Queued
               \/ ~Unsettled(logs', logOps[o].gen)
    PROVE  Retiring'
  <1> SUFFICES ASSUME NEW g \in Gens(logs'), Unsettled(logs', g) PROVE Releasing(logOps', g)
    BY DEF Retiring, Releasing, Unsettled, Gens
  <1>1. PICK o \in LogOps : logOps[o].kind = "release" /\ logOps[o].gen = g /\ logOps[o].pc \in Queued
    BY DEF Retiring, Releasing
  <1>2. logOps'[o].kind = "release" /\ logOps'[o].gen = g /\ logOps'[o].pc \in Queued
    BY <1>1
  <1> QED BY <1>2 DEF Releasing

\* state() adds no generation that is retired.
LEMMA StateRetires ==
    ASSUME LogInv
    PROVE  /\ StateLogs \in Seq(LogType) /\ Len(StateLogs) \in Gens(StateLogs)
           /\ \A g \in Gens(StateLogs) : Unsettled(StateLogs, g) => g \in Gens(logs) /\ Unsettled(logs, g)
  <1>1. StateLogs \in Seq(LogType) /\ Len(StateLogs) \in Gens(StateLogs) /\ logs \in Seq(LogType)
    BY StateStep, StoreTypes, Known
  <1>2. CASE InUse
    BY <1>1, <1>2 DEF StateLogs
  <1>3. CASE ~InUse
    <2>1. PICK n \in Nat : n = Len(logs)
      BY <1>1
    <2>2. StateLogs = Append(logs, NewLog)
      BY <1>3 DEF StateLogs
    <2>3. Len(StateLogs) = n + 1 /\ StateLogs[n + 1] = NewLog /\ \A g \in 1 .. n : StateLogs[g] = logs[g]
      BY <2>1, <2>2, <1>1
    <2>4. \A g \in Gens(StateLogs) : g = n + 1 \/ g \in 1 .. n
      BY <2>3 DEF Gens
    <2>5. ~Unsettled(StateLogs, n + 1)
      BY <2>3 DEF Unsettled, NewLog
    <2>6. \A g \in 1 .. n : g \in Gens(logs) /\ (Unsettled(StateLogs, g) => Unsettled(logs, g))
      BY <2>1, <2>3 DEF Gens, Unsettled
    <2> QED BY <1>1, <2>4, <2>5, <2>6
  <1> QED BY <1>2, <1>3

\* A change of one generation that leaves retired and settled alone.
LEMMA SameUnsettled ==
    ASSUME NEW ls \in Seq(LogType), NEW g \in Gens(ls), NEW x \in LogType, NEW ms, ms = [ls EXCEPT ![g] = x],
           x.retired = ls[g].retired, x.settled = ls[g].settled
    PROVE  \A h \in Gens(ms) : h \in Gens(ls) /\ (Unsettled(ms, h) => Unsettled(ls, h))
  <1>1. Len(ms) = Len(ls) /\ ms[g] = x /\ \A h \in Gens(ls) : h # g => ms[h] = ls[h]
    BY DEF Gens
  <1>2. Gens(ms) = Gens(ls)
    BY <1>1 DEF Gens
  <1> QED BY <1>1, <1>2 DEF Unsettled

\* A call joins the queue of the generation that state() gives, or of the one in the map.
LEMMA CallKeepsRetiring ==
    ASSUME LogInv, Retiring, NEW o \in LogOps, FlushCall(o) \/ ReadCall(o) \/ RewriteCall(o) \/ CloseFlushes(o)
    PROVE  Retiring'
  <1>1. PICK y : logOps' = [logOps EXCEPT ![o] = y] \/ logOps' = logOps
    BY DEF FlushCall, ReadCall, RewriteCall, CloseFlushes
  <1>2. logOps[o].pc = "idle" /\ logOps \in [LogOps -> OpType] /\ logs \in Seq(LogType)
    BY Known DEF FlushCall, ReadCall, RewriteCall, CloseFlushes, Free
  <1>3. \A p \in LogOps : logOps[p].pc \in Queued => logOps'[p] = logOps[p]
    BY <1>1, <1>2 DEF Queued
  <1>4. PICK ls, ks : /\ ls \in {logs, StateLogs} /\ (ks = ls \/ ks = [ls EXCEPT ![Len(ls)].epoch = @ + 1])
                      /\ logs' = logs \/ (logs' = Joined(ks, o, Len(ls)) /\ Len(ls) \in Gens(ls))
    <2>1. Mapped => Len(logs) \in Gens(logs)
      BY <1>2 DEF Mapped, Gens
    <2>2. CASE FlushCall(o) \/ CloseFlushes(o)
      BY <2>1, <2>2 DEF FlushCall, CloseFlushes
    <2>3. CASE ReadCall(o)
      BY <2>3, StateRetires DEF ReadCall
    <2>4. CASE RewriteCall(o)
      <3>1. PICK ks : ks = [StateLogs EXCEPT ![Len(StateLogs)].epoch = @ + 1]
        OBVIOUS
      <3>2. logs' = Joined(ks, o, Len(StateLogs)) /\ Len(StateLogs) \in Gens(StateLogs)
        BY <3>1, <2>4, StateRetires DEF RewriteCall
      <3> QED BY ONLY <3>1, <3>2
    <2> QED BY <2>2, <2>3, <2>4
  <1>5. ls \in Seq(LogType) /\ \A h \in Gens(ls) : Unsettled(ls, h) => h \in Gens(logs) /\ Unsettled(logs, h)
    BY <1>2, <1>4, StateRetires
  <1>6. ASSUME logs' # logs PROVE \A h \in Gens(logs') : h \in Gens(ls) /\ (Unsettled(logs', h) => Unsettled(ls, h))
    <2>1. PICK g : g = Len(ls)
      OBVIOUS
    <2>2. logs' = Joined(ks, o, g) /\ g \in Gens(ls) /\ (ks = ls \/ ks = [ls EXCEPT ![g].epoch = @ + 1])
      BY <2>1, <1>4, <1>6
    <2>3. PICK x : x = [ks[g] EXCEPT !.lockq = Append(@, o)]
      OBVIOUS
    <2>4. ls[g] \in LogType /\ g \in DOMAIN ls
      BY <2>2, <1>5 DEF Gens
    <2>5. PICK k : k = ks[g]
      OBVIOUS
    <2>6. k \in LogType /\ k.retired = ls[g].retired /\ k.settled = ls[g].settled
          /\ g \in DOMAIN ks /\ \A y1 : [ks EXCEPT ![g] = y1] = [ls EXCEPT ![g] = y1]
      <3>1. CASE ks = ls
        BY <3>1, <2>4, <2>5
      <3>2. CASE ks = [ls EXCEPT ![g].epoch = @ + 1]
        BY <3>2, <2>4, <2>5 DEF LogType
      <3> QED BY <2>2, <3>1, <3>2
    <2>7. x \in LogType /\ x.retired = ls[g].retired /\ x.settled = ls[g].settled
      <3>1. Append(k.lockq, o) \in Seq(LogOps)
        BY <2>6 DEF LogType
      <3>2. x = [k EXCEPT !.lockq = Append(k.lockq, o)]
        BY <2>3, <2>5
      <3> QED BY <2>6, <3>1, <3>2 DEF LogType
    <2>8. logs' = [ls EXCEPT ![g] = x]
      <3>1. logs' = [ks EXCEPT ![g] = x]
        BY <2>2, <2>3 DEF Joined
      <3> QED BY <3>1, <2>6
    <2> QED BY ONLY <2>2, <2>7, <2>8, <1>5, SameUnsettled, Zenon
  <1>7. \A h \in Gens(logs') : Unsettled(logs', h) => h \in Gens(logs) /\ Unsettled(logs, h)
    BY <1>5, <1>6
  <1> QED BY <1>3, <1>7, RetiringStays

\* Tasks that begin or go on, and the counters.
LEMMA TaskKeepsRetiring ==
    ASSUME LogInv, Retiring, NEW o \in LogOps, NEW g \in Gens(logs), NEW x \in LogType, logs' = [logs EXCEPT ![g] = x],
           x.retired = logs[g].retired, x.settled = logs[g].settled,
           \A p \in LogOps : logOps[p].kind = "release" /\ logOps[p].pc \in Queued =>
               logOps'[p].kind = "release" /\ logOps'[p].gen = logOps[p].gen /\ logOps'[p].pc \in Queued
    PROVE  Retiring'
  <1>1. logs \in Seq(LogType)
    BY Known
  <1>2. \A h \in Gens(logs') : Unsettled(logs', h) => h \in Gens(logs) /\ Unsettled(logs, h)
    BY <1>1, SameUnsettled
  <1> QED BY <1>2, RetiringStays

\* Whoever leaves the queue is no release, or settles its generation.
LEMMA EndKeepsRetiring ==
    ASSUME LogInv, Retiring, NEW o \in LogOps, NEW outcome, logOps[o].pc \in Active,
           NEW ls, Ends(o, ls, outcome), ls = logs \/ ls = [logs EXCEPT ![logOps[o].gen].failure = "yes"]
    PROVE  Retiring'
  <1>1. PICK g : g = logOps[o].gen
    OBVIOUS
  <1>2. /\ g \in Gens(logs) /\ logs \in Seq(LogType) /\ logs[g] \in LogType /\ logOps \in [LogOps -> OpType]
        /\ g \in DOMAIN logs
    BY <1>1, Known DEF OpOK, Active
  <1>3. PICK st : st = IF logOps[o].kind = "release" THEN "yes" ELSE logs[g].settled
    OBVIOUS
  <1>4. ls \in Seq(LogType) /\ Gens(ls) = Gens(logs) /\ \A h \in Gens(ls) : ls[h].retired = logs[h].retired /\ ls[h].settled = logs[h].settled
    <2>1. CASE ls = logs
      BY <2>1, <1>2
    <2>2. CASE ls = [logs EXCEPT ![g].failure = "yes"]
      <3>1. PICK x : x = [logs[g] EXCEPT !.failure = "yes"]
        OBVIOUS
      <3>2. x \in LogType /\ x.retired = logs[g].retired /\ x.settled = logs[g].settled
        BY <3>1, <1>2 DEF LogType
      <3>3. ls = [logs EXCEPT ![g] = x]
        BY <3>1, <2>2, <1>2
      <3>4. ls \in Seq(LogType) /\ Len(ls) = Len(logs) /\ ls[g] = x /\ \A h \in Gens(logs) : h # g => ls[h] = logs[h]
        BY ONLY <3>2, <3>3, <1>2 DEF Gens
      <3>5. Gens(ls) = Gens(logs)
        BY ONLY <3>4 DEF Gens
      <3> QED BY ONLY <3>2, <3>4, <3>5
    <2> QED BY <2>1, <2>2, <1>1
  <1>5. logs' = [ls EXCEPT ![g].lockq = Tail(@), ![g].settled = st] /\ logOps' = [logOps EXCEPT ![o] = NoOp]
    BY <1>1, <1>2, <1>3, <1>4 DEF Ends
  <1>6. /\ Gens(logs') = Gens(logs) /\ logs'[g].settled = st /\ logs'[g].retired = logs[g].retired
        /\ \A h \in Gens(logs) : h # g => logs'[h] = ls[h]
    <2>1. g \in DOMAIN ls /\ DOMAIN ls = Gens(ls) /\ ls[g] \in LogType
      BY <1>2, <1>4 DEF Gens
    <2>2. PICK x : x = [ls[g] EXCEPT !.lockq = Tail(@), !.settled = st]
      OBVIOUS
    <2>3. x.settled = st /\ x.retired = ls[g].retired
      BY <2>1, <2>2 DEF LogType
    <2>4. logs' = [ls EXCEPT ![g] = x]
      BY <2>1, <2>2, <1>5 DEF LogType
    <2>5. Len(logs') = Len(ls)
      BY <2>4, <1>4
    <2> QED BY <2>1, <2>3, <2>4, <2>5, <1>2, <1>4 DEF Gens
  <1>7. \A h \in Gens(logs') : Unsettled(logs', h) => h \in Gens(logs) /\ Unsettled(logs, h)
    <2> SUFFICES ASSUME NEW h \in Gens(logs), Unsettled(logs', h) PROVE Unsettled(logs, h)
      BY <1>6
    <2>1. CASE h = g
      BY <2>1, <1>3, <1>6 DEF Unsettled
    <2>2. CASE h # g
      BY <2>2, <1>4, <1>6 DEF Unsettled
    <2> QED BY <2>1, <2>2
  <1>8. logOps[o].kind = "release" => ~Unsettled(logs', g)
    BY <1>3, <1>6 DEF Unsettled
  <1>9. \A p \in LogOps : p # o => logOps'[p] = logOps[p]
    BY <1>2, <1>5
  <1> QED BY <1>1, <1>7, <1>8, <1>9, RetiringStays

\* The last one out retires the generation and joins its queue.
LEMMA ReleaseKeepsRetiring == ASSUME LogInv, Retiring, NEW o \in LogOps, ReleaseBegins(o) PROVE Retiring'
  <1>1. PICK g, n : g = logOps[o].gen /\ n = IF logs[g].refs = 0 THEN 0 ELSE logs[g].refs - 1
    OBVIOUS
  <1>2. logOps[o].kind = "release" /\ logOps[o].pc = "spawned"
    BY DEF ReleaseBegins
  <1>3. /\ g \in Gens(logs) /\ logs \in Seq(LogType) /\ logs[g] \in LogType
        /\ logOps \in [LogOps -> OpType] /\ logOps[o] \in OpType /\ g \in DOMAIN logs
    BY <1>1, <1>2, Known DEF OpOK
  <1>4. n \in Nat
    <2>1. logs[g].refs \in Nat
      BY <1>3 DEF LogType
    <2> QED BY <2>1, <1>1
  <1>5. CASE logs' = [logs EXCEPT ![g].refs = n] /\ logOps' = [logOps EXCEPT ![o] = NoOp]
    <2>1. PICK x : x = [logs[g] EXCEPT !.refs = n]
      OBVIOUS
    <2>2. x \in LogType /\ x.retired = logs[g].retired /\ x.settled = logs[g].settled
      BY <2>1, <1>3, <1>4 DEF LogType
    <2>3. logs' = [logs EXCEPT ![g] = x]
      BY <2>1, <1>3, <1>5
    <2>4. \A p \in LogOps : logOps[p].pc \in Queued => logOps'[p] = logOps[p]
      BY <1>2, <1>3, <1>5 DEF Queued
    <2> QED BY <2>2, <2>3, <2>4, <1>3, TaskKeepsRetiring
  <1>6. CASE /\ logs' = Joined([[logs EXCEPT ![g].refs = n] EXCEPT ![g].retired = "yes"], o, g)
             /\ logOps' = [logOps EXCEPT ![o].pc = "lock"]
    <2>1. PICK x : x = [logs[g] EXCEPT !.refs = n, !.retired = "yes", !.lockq = Append(@, o)]
      OBVIOUS
    <2>2. x \in LogType /\ x.settled = logs[g].settled
      <3>1. Append(logs[g].lockq, o) \in Seq(LogOps)
        BY <1>3 DEF LogType
      <3> QED BY <3>1, <2>1, <1>3, <1>4 DEF LogType
    <2>3. logs' = [logs EXCEPT ![g] = x]
      BY <2>1, <1>3, <1>6 DEF Joined, LogType
    <2>4. OneLog(logs, logs', g) /\ Gens(logs') = Gens(logs)
      BY <2>2, <2>3, <1>3, OneLogIs
    <2>5. logOps'[o].kind = "release" /\ logOps'[o].gen = g /\ logOps'[o].pc \in Queued
      BY <1>1, <1>2, <1>3, <1>6 DEF OpType, Queued
    <2>6. \A p \in LogOps : p # o => logOps'[p] = logOps[p]
      BY <1>3, <1>6
    <2>7. ASSUME NEW h \in Gens(logs'), Unsettled(logs', h) PROVE Releasing(logOps', h)
      <3>1. CASE h = g
        BY <3>1, <2>5 DEF Releasing
      <3>2. CASE h # g
        <4>1. PICK p \in LogOps : logOps[p].kind = "release" /\ logOps[p].gen = h /\ logOps[p].pc \in Queued
          BY <3>2, <2>4, <2>7 DEF OneLog, Unsettled, Retiring, Releasing
        <4>2. p # o
          BY <4>1, <1>2 DEF Queued
        <4> QED BY <4>1, <4>2, <2>6 DEF Releasing
      <3> QED BY <3>1, <3>2
    <2> QED BY <2>7 DEF Retiring, Unsettled, Releasing, Gens
  <1>7. \/ logs' = [logs EXCEPT ![g].refs = n] /\ logOps' = [logOps EXCEPT ![o] = NoOp]
        \/ /\ logs' = Joined([[logs EXCEPT ![g].refs = n] EXCEPT ![g].retired = "yes"], o, g)
           /\ logOps' = [logOps EXCEPT ![o].pc = "lock"]
    BY <1>1 DEF ReleaseBegins
  <1> QED BY <1>5, <1>6, <1>7

\* Every step keeps it.
LEMMA RetiringStep == LogInv /\ Retiring /\ [LogStep]_logVars => Retiring'
  <1> SUFFICES ASSUME LogInv, Retiring, [LogStep]_logVars PROVE Retiring'
    OBVIOUS
  <1>1. /\ logs \in Seq(LogType) /\ logOps \in [LogOps -> OpType] /\ DOMAIN logs = Gens(logs)
        /\ \A g \in Gens(logs) : logs[g] \in LogType
    BY Known
  <1>2. CASE AdmitAppend \/ AdmitAcquire
    <2>1. logs' = StateLogs /\ logOps' = logOps
      BY <1>2 DEF AdmitAppend, AdmitAcquire, Admit
    <2>2. \A g \in Gens(logs') : Unsettled(logs', g) => g \in Gens(logs) /\ Unsettled(logs, g)
      BY <2>1, StateRetires
    <2> QED BY <2>1, <2>2, RetiringStays
  <1>3. ASSUME \/ logs' = logs
               \/ \E g \in Gens(logs), x \in LogType :
                    /\ logs' = [logs EXCEPT ![g] = x]
                    /\ x.retired = logs[g].retired /\ x.settled = logs[g].settled,
               \A p \in LogOps : logOps[p].kind = "release" /\ logOps[p].pc \in Queued =>
                    logOps'[p].kind = "release" /\ logOps'[p].gen = logOps[p].gen /\ logOps'[p].pc \in Queued
        PROVE  Retiring'
    <2>1. \A h \in Gens(logs') : Unsettled(logs', h) => h \in Gens(logs) /\ Unsettled(logs, h)
      BY <1>1, <1>3, SameUnsettled
    <2> QED BY <1>3, <2>1, RetiringStays
  <1>4. CASE Acquire
    <2>1. PICK g : g = admission.gen
      OBVIOUS
    <2>2. PICK x : x = [logs[g] EXCEPT !.refs = @ + 1, !.held = @ + 1]
      OBVIOUS
    <2>3. g \in Gens(logs)
      BY <2>1, <1>4 DEF Acquire, LogInv, AdmissionOK
    <2>4. x \in LogType /\ x.retired = logs[g].retired /\ x.settled = logs[g].settled
      <3>1. PICK l : l = logs[g]
        OBVIOUS
      <3>2. l \in LogType /\ l.refs \in Nat /\ l.held \in Nat
        BY <3>1, <2>3, <1>1 DEF LogType
      <3>3. PICK r \in Nat, s \in Nat : r = l.refs + 1 /\ s = l.held + 1
        BY <3>2
      <3>4. x = [l EXCEPT !.refs = r, !.held = s]
        BY ONLY <3>1, <3>3, <2>2
      <3> QED BY ONLY <3>1, <3>2, <3>4 DEF LogType
    <2>5. logs' = [logs EXCEPT ![g] = x] /\ logOps' = logOps
      BY <2>1, <2>2, <2>3, <1>1, <1>4 DEF Acquire, LogType
    <2> QED BY <2>3, <2>4, <2>5, <1>3
  <1>5. ASSUME NEW o \in LogOps, AppendValue(o) PROVE Retiring'
    <2>1. PICK g : g = admission.gen
      OBVIOUS
    <2>2. PICK x : x = [logs[g] EXCEPT !.pending = Append(@, accepted + 1), !.scheduled = "yes"]
      OBVIOUS
    <2>3. g \in Gens(logs) /\ accepted + 1 \in Records
      BY <2>1, <1>5, LogAssumption DEF AppendValue, LogInv, AdmissionOK, HistoryOK, Records
    <2>4. x \in LogType /\ x.retired = logs[g].retired /\ x.settled = logs[g].settled
      <3>1. Append(logs[g].pending, accepted + 1) \in Seq(Records)
        BY <2>3, <1>1 DEF LogType
      <3> QED BY <3>1, <2>2, <2>3, <1>1 DEF LogType
    <2>5. logs' = [logs EXCEPT ![g] = x]
      BY <2>1, <2>2, <2>3, <1>1, <1>5 DEF AppendValue, LogType
    <2>6. \A p \in LogOps : logOps[p].pc \in Queued => logOps'[p] = logOps[p]
      BY <1>1, <1>5 DEF AppendValue, Free, Queued
    <2> QED BY <2>3, <2>4, <2>5, <2>6, <1>3
  <1>6. ASSUME NEW o \in LogOps, NEW g \in DOMAIN logs, DisposeHandle(o, g) PROVE Retiring'
    <2>1. PICK x : x = [logs[g] EXCEPT !.held = @ - 1]
      OBVIOUS
    <2>2. logs[g].held \in Nat /\ logs[g].held > 0
      BY <1>1, <1>6 DEF DisposeHandle, LogType
    <2>3. x \in LogType /\ x.retired = logs[g].retired /\ x.settled = logs[g].settled
      <3>1. PICK n \in Nat : n = logs[g].held - 1
        BY ONLY <2>2
      <3>2. PICK l \in LogType : l = logs[g]
        BY <1>1
      <3>3. x = [l EXCEPT !.held = n]
        BY ONLY <3>1, <3>2, <2>1
      <3> QED BY ONLY <3>2, <3>3, n \in Nat, l \in LogType DEF LogType
    <2>4. logs' = [logs EXCEPT ![g] = x]
      BY <2>1, <1>1, <1>6 DEF DisposeHandle
    <2>5. \A p \in LogOps : logOps[p].pc \in Queued => logOps'[p] = logOps[p]
      BY <1>1, <1>6 DEF DisposeHandle, Free, Queued
    <2> QED BY <2>3, <2>4, <2>5, <1>1, <1>3
  <1>7. ASSUME NEW o \in LogOps, FlushCall(o) \/ ReadCall(o) \/ RewriteCall(o) \/ CloseFlushes(o) PROVE Retiring'
    BY <1>7, CallKeepsRetiring
  <1>8. ASSUME NEW o \in LogOps, FlushBegins(o) PROVE Retiring'
    <2>1. PICK g : g = logOps[o].gen
      OBVIOUS
    <2>2. PICK x : x = [logs[g] EXCEPT !.scheduled = "no", !.lockq = Append(@, o)]
      OBVIOUS
    <2>3. g \in Gens(logs) /\ logOps[o].kind = "flush"
      BY <2>1, <1>8, Known DEF FlushBegins, OpOK
    <2>4. x \in LogType /\ x.retired = logs[g].retired /\ x.settled = logs[g].settled
      <3>1. Append(logs[g].lockq, o) \in Seq(LogOps)
        BY <2>3, <1>1 DEF LogType
      <3> QED BY <3>1, <2>2, <2>3, <1>1 DEF LogType
    <2>5. logs' = [logs EXCEPT ![g] = x]
      BY <2>1, <2>2, <2>3, <1>1, <1>8 DEF FlushBegins, Joined, LogType
    <2>6. \A p \in LogOps : p # o => logOps'[p] = logOps[p]
      BY <1>1, <1>8 DEF FlushBegins
    <2> QED BY <2>3, <2>4, <2>5, <2>6, <1>3
  <1>9. ASSUME NEW o \in LogOps, ReleaseBegins(o) PROVE Retiring'
    BY <1>9, ReleaseKeepsRetiring
  <1>10. ASSUME NEW o \in LogOps, NEW y, logOps' = [logOps EXCEPT ![o] = y],
                y.kind = logOps[o].kind, y.gen = logOps[o].gen, y.pc \in Queued
         PROVE  \A p \in LogOps : logOps[p].kind = "release" /\ logOps[p].pc \in Queued =>
                    logOps'[p].kind = "release" /\ logOps'[p].gen = logOps[p].gen /\ logOps'[p].pc \in Queued
    BY <1>1, <1>10
  <1>11. ASSUME NEW o \in LogOps, Locked(o) \/ DrainTakes(o) PROVE Retiring'
    <2>1. CASE Locked(o)
      <3>1. PICK pc \in Queued : logOps' = [logOps EXCEPT ![o].pc = pc] /\ logs' = logs
        BY <2>1 DEF Locked, Queued
      <3>2. PICK y : y = [logOps[o] EXCEPT !.pc = pc]
        OBVIOUS
      <3>3. y.kind = logOps[o].kind /\ y.gen = logOps[o].gen /\ y.pc = pc
        BY <3>2, <1>1 DEF OpType
      <3> QED BY <3>1, <3>2, <3>3, <1>3, <1>10
    <2>2. CASE DrainTakes(o)
      <3>1. PICK b, e : b = logs[logOps[o].gen].pending /\ e = logs[logOps[o].gen].epoch
        OBVIOUS
      <3>2. PICK y : y = [logOps[o] EXCEPT !.pc = "writing", !.batch = b, !.epoch = e]
        OBVIOUS
      <3>3. y.kind = logOps[o].kind /\ y.gen = logOps[o].gen /\ y.pc \in Queued
        BY <3>2, <1>1 DEF OpType, Queued
      <3>4. logOps' = [logOps EXCEPT ![o] = y] /\ logs' = logs
        BY <3>1, <3>2, <2>2, <1>1 DEF DrainTakes
      <3> QED BY <3>3, <3>4, <1>3, <1>10
    <2> QED BY <1>11, <2>1, <2>2
  <1>12. ASSUME NEW o \in LogOps, ReplaceDone(o) PROVE Retiring'
    <2>1. PICK g : g = logOps[o].gen
      OBVIOUS
    <2>2. PICK x : x = [logs[g] EXCEPT !.failure = "no"]
      OBVIOUS
    <2>3. g \in Gens(logs)
      BY <2>1, <1>12, Known DEF ReplaceDone, OpOK
    <2>4. x \in LogType /\ x.retired = logs[g].retired /\ x.settled = logs[g].settled
      BY <2>2, <2>3, <1>1 DEF LogType
    <2>5. PICK y : y = [logOps[o] EXCEPT !.pc = "drain"]
      OBVIOUS
    <2>6. logs' = [logs EXCEPT ![g] = x] /\ logOps' = [logOps EXCEPT ![o] = y]
      BY <2>1, <2>2, <2>3, <2>5, <1>1, <1>12 DEF ReplaceDone
    <2>7. y.kind = logOps[o].kind /\ y.gen = logOps[o].gen /\ y.pc \in Queued
      BY <2>5, <1>1 DEF OpType, Queued
    <2> QED BY <2>3, <2>4, <2>6, <2>7, <1>3, <1>10
  <1>13. ASSUME NEW o \in LogOps, AppendDone(o) PROVE Retiring'
    <2>1. PICK g, n : g = logOps[o].gen /\ n = Len(logOps[o].batch)
      OBVIOUS
    <2>2. logOps[o].pc \in Active /\ g \in Gens(logs) /\ n \in Nat
      BY <2>1, <1>13, Known, StoreTypes DEF AppendDone, OpOK, Active
    <2>3. CASE Ends(o, logs, "ok")
      BY <2>2, <2>3, EndKeepsRetiring
    <2>4. CASE /\ logs' = [logs EXCEPT ![g].pending = SubSeq(@, n + 1, Len(@))]
               /\ logOps' = [logOps EXCEPT ![o].pc = "drain", ![o].batch = <<>>, ![o].epoch = 0]
      <3>1. PICK x : x = [logs[g] EXCEPT !.pending = SubSeq(@, n + 1, Len(@))]
        OBVIOUS
      <3>2. SubSeq(logs[g].pending, n + 1, Len(logs[g].pending)) \in Seq(Records)
        <4>1. PICK q \in Seq(Records) : q = logs[g].pending
          BY <2>2, <1>1 DEF LogType
        <4>2. PICK m \in Nat : m = Len(q)
          BY <4>1
        <4>3. \A i \in n + 1 .. m : i \in 1 .. m
          BY ONLY m \in Nat, <2>2
        <4>4. SubSeq(q, n + 1, m) \in Seq(Records)
          BY ONLY q \in Seq(Records), m = Len(q), <4>2, <4>3, <2>2
        <4> QED BY <4>1, <4>2, <4>4
      <3>3. x \in LogType /\ x.retired = logs[g].retired /\ x.settled = logs[g].settled
        BY <3>1, <3>2, <2>2, <1>1 DEF LogType
      <3>4. logs' = [logs EXCEPT ![g] = x]
        BY <3>1, <2>2, <2>4, <1>1
      <3>5. PICK y : y = [logOps[o] EXCEPT !.pc = "drain", !.batch = <<>>, !.epoch = 0]
        OBVIOUS
      <3>6. y.kind = logOps[o].kind /\ y.gen = logOps[o].gen /\ y.pc \in Queued
        BY <3>5, <1>1 DEF OpType, Queued
      <3>7. logOps' = [logOps EXCEPT ![o] = y]
        BY <3>5, <2>4, <1>1
      <3> QED BY <3>3, <3>4, <3>6, <3>7, <2>2, <1>3, <1>10
    <2> QED BY <2>1, <2>3, <2>4, <1>13 DEF AppendDone
  <1>14. ASSUME NEW o \in LogOps, DrainEnds(o) \/ AppendFails(o) \/ ReplaceFails(o) PROVE Retiring'
    <2>1. /\ logOps[o].pc \in Active
          /\ \E ls, outcome : /\ Ends(o, ls, outcome)
                              /\ ls = logs \/ ls = [logs EXCEPT ![logOps[o].gen].failure = "yes"]
      BY <1>14 DEF DrainEnds, AppendFails, ReplaceFails, Active
    <2> QED BY <2>1, EndKeepsRetiring
  <1>15. CASE CloseStore \/ UNCHANGED logVars
    BY <1>15 DEF CloseStore, logVars, Retiring, Unsettled, Releasing, Gens
  <1>16. CASE CrashLog
    <2>1. logs' = <<>> /\ Gens(<<>>) = {}
      BY <1>16 DEF CrashLog, Gens
    <2> QED BY <2>1 DEF Retiring, Gens
  <1> QED BY <1>2, <1>4, <1>5, <1>6, <1>7, <1>8, <1>9, <1>11, <1>12, <1>13, <1>14, <1>15, <1>16 DEF LogStep, LogOpStep

\* The least-number principle, from the well-foundedness of < on Nat.
LEMMA LeastNumber ==
    ASSUME NEW T, T \subseteq Nat, T # {}
    PROVE  \E x \in T : \A y \in T : x <= y
  <1> DEFINE R == OpToRel(<, Nat)
  <1>1. IsWellFoundedOn(R, Nat)
    BY NatLessThanWellFounded
  <1>2. \A x, y \in Nat : <<y, x>> \in R <=> y < x
    BY DEF OpToRel
  <1> HIDE DEF R
  <1>3. PICK x \in T : \A y \in T : ~(<<y, x>> \in R)
    BY <1>1, WFMin
  <1>4. ASSUME NEW y \in T PROVE x <= y
    <2>1. x \in Nat /\ y \in Nat
      OBVIOUS
    <2>2. ~(y < x)
      BY <2>1, <1>2, <1>3
    <2> QED BY <2>1, <2>2
  <1> QED BY <1>4

\* The head of the first queue that is not empty can go on.
LEMMA HeadCanGoOn ==
    ASSUME LogInv, Retiring, NEW p \in LogOps, logOps[p].pc \in Queued
    PROVE  \E o \in LogOps : OpCanGoOn(o)
  <1>1. StoreOK(logs, logOps)
    BY Known
  <1> DEFINE Waited == {g \in Gens(logs) : Places(logs, g) # {}}
  <1>2. ASSUME NEW o \in LogOps, logOps[o].pc \in Queued PROVE logOps[o].gen \in Waited
    <2>1. logOps[o].gen \in Gens(logs)
      BY <1>2, Known DEF OpOK, Queued
    <2>2. PICK i \in Places(logs, logOps[o].gen) : logs[logOps[o].gen].lockq[i] = o
      BY <1>1, <1>2 DEF StoreOK, Queues
    <2> QED BY <2>1, <2>2
  <1>3. Waited \subseteq Nat /\ Waited # {}
    BY <1>1, <1>2, StoreTypes
  <1>4. PICK g \in Waited : \A h \in Waited : g <= h
    BY <1>3, LeastNumber
  <1>5. /\ g \in Gens(logs) /\ g \in Nat /\ g >= 1 /\ g <= Len(logs) /\ Len(logs) \in Nat
        /\ logs[g].lockq \in Seq(LogOps) /\ Len(logs[g].lockq) \in Nat
    BY <1>1, <1>4, StoreTypes
  <1>6. Len(logs[g].lockq) >= 1 /\ 1 \in Places(logs, g)
    BY <1>4, <1>5 DEF Places
  <1>7. PICK o \in LogOps : o = logs[g].lockq[1] /\ o = Head(logs[g].lockq)
    BY <1>5, <1>6
  <1>8. logOps[o].gen = g /\ logOps[o].pc \in Queued
    BY <1>1, <1>5, <1>6, <1>7 DEF StoreOK, Queues
  <1>9. ASSUME g > 1 PROVE logs[g - 1].settled = "yes"
    <2>1. g - 1 \in Gens(logs) /\ g - 1 < Len(logs) /\ ~(g <= g - 1)
      BY <1>5, <1>9 DEF Gens
    <2>2. logs[g - 1].retired = "yes" /\ logs[g - 1] \in LogType
      BY <2>1, <1>1, Known DEF StoreOK, Releases
    <2>3. ASSUME logs[g - 1].settled = "no" PROVE FALSE
      <3>1. PICK q \in LogOps : logOps[q].gen = g - 1 /\ logOps[q].pc \in Queued
        BY <2>1, <2>2, <2>3 DEF Retiring, Unsettled, Releasing
      <3>2. g - 1 \in Waited
        BY <3>1, <1>2
      <3> QED BY <3>2, <2>1, <1>4
    <2> QED BY <2>2, <2>3 DEF LogType
  <1>10. OpCanGoOn(o)
    BY <1>7, <1>8, <1>9 DEF OpCanGoOn, Holds, Ready, Queued
  <1> QED BY <1>10

(***************************************************************************)
(* The tasks and calls of the store never all wait for each other: while   *)
(* one is under way, one is about to begin, is at work, or has the mutex   *)
(* of a generation whose predecessor has settled, although each holds its  *)
(* mutex while it waits for the generation before (wait_ready).            *)
(***************************************************************************)
THEOREM LogCanGoOn ==
    LogSpec => []((\E o \in LogOps : logOps[o].pc # "idle") => \E o \in LogOps : OpCanGoOn(o))
  <1>1. LogInit => Retiring
    <2>1. Gens(<<>>) = {}
      BY DEF Gens
    <2> QED BY <2>1 DEF LogInit, Retiring
  <1>2. LogInv /\ Retiring => ((\E o \in LogOps : logOps[o].pc # "idle") => \E o \in LogOps : OpCanGoOn(o))
    <2> SUFFICES ASSUME LogInv, Retiring, NEW o \in LogOps, logOps[o].pc # "idle" PROVE \E p \in LogOps : OpCanGoOn(p)
      OBVIOUS
    <2>1. logOps[o] \in OpType /\ OpOK(logs, logOps[o])
      BY Known
    <2>2. CASE logOps[o].pc = "spawned"
      BY <2>1, <2>2 DEF OpOK, OpCanGoOn
    <2>3. CASE logOps[o].pc \in Queued
      BY <2>3, HeadCanGoOn
    <2> QED BY <2>1, <2>2, <2>3 DEF OpType, Queued
  <1> QED BY <1>1, <1>2, LogAndVouch, RetiringStep, PTL DEF LogSpec
=============================================================================
