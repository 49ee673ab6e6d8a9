-------------------------- MODULE ToolBatch_proofs --------------------------
(***************************************************************************)
(* Proofs about a batch of tool calls, for any number of calls and any     *)
(* accesses that they may declare.                                         *)
(***************************************************************************)
EXTENDS ToolBatch, SequenceTheorems, WellFoundedInduction, TLAPS

-----------------------------------------------------------------------------
(***************************************************************************)
(* Calls that interfere conflict.                                          *)
(***************************************************************************)
Accesses(C) == [all : BOOLEAN, writes : BOOLEAN, path : Seq(C), recursive : BOOLEAN]

\* Paths are sequences of components.  No access is recursive at the root:
\* path_is_within finds nothing within "/".
AccessesOK(C) ==
    /\ Paths \subseteq Seq(C)
    /\ \A a \in AccessChoices : a \subseteq Accesses(C)
    /\ \A a \in AccessChoices : \A x \in a : x.recursive /\ ~x.all => x.path # <<>>

\* A prefix, by its elements.
LEMMA PrefixIs ==
    ASSUME NEW C, NEW s \in Seq(C), NEW t \in Seq(C)
    PROVE  IsPrefix(s, t) <=> Len(s) <= Len(t) /\ \A i \in 1 .. Len(s) : s[i] = t[i]
  <1>1. PICK n \in Nat, m \in Nat : n = Len(s) /\ m = Len(t)
    OBVIOUS
  <1>2. \A i \in 1 .. n : s[i] \in C
    BY <1>1
  <1>3. SubSeq(s, 1, n) = s
    BY <1>1
  <1>4. ASSUME n <= m
        PROVE  /\ SubSeq(t, 1, n) \in Seq(C) /\ Len(SubSeq(t, 1, n)) = n
               /\ \A i \in 1 .. n : SubSeq(t, 1, n)[i] = t[i]
    BY <1>1, <1>4
  <1>5. ASSUME n <= m, \A i \in 1 .. n : s[i] = t[i] PROVE s = SubSeq(t, 1, n)
    BY <1>1, <1>4, <1>5
  <1>6. ASSUME n <= m, s = SubSeq(t, 1, n) PROVE \A i \in 1 .. n : s[i] = t[i]
    BY <1>4, <1>6
  <1> QED BY <1>1, <1>3, <1>5, <1>6 DEF IsPrefix

\* Of two prefixes of one path, one is a prefix of the other.
LEMMA PrefixesAreComparable ==
    ASSUME NEW C, NEW s \in Seq(C), NEW t \in Seq(C), NEW p \in Seq(C), IsPrefix(s, p), IsPrefix(t, p)
    PROVE  IsPrefix(s, t) \/ IsPrefix(t, s)
  <1>1. PICK n \in Nat, m \in Nat : n = Len(s) /\ m = Len(t)
    OBVIOUS
  <1>2. (\A i \in 1 .. n : s[i] = p[i]) /\ \A i \in 1 .. m : t[i] = p[i]
    BY <1>1, PrefixIs
  <1>3. CASE n <= m
    <2>1. \A i \in 1 .. n : s[i] = t[i]
      BY <1>2, <1>3
    <2> QED BY <2>1, <1>1, <1>3, PrefixIs
  <1>4. CASE m <= n
    <2>1. \A i \in 1 .. m : t[i] = s[i]
      BY <1>2, <1>4
    <2> QED BY <2>1, <1>1, <1>4, PrefixIs
  <1> QED BY <1>3, <1>4

LEMMA SharedPathsOverlap ==
    ASSUME NEW C, NEW left \in Accesses(C), NEW right \in Accesses(C), NEW p \in Seq(C),
           left.recursive => left.path # <<>>, right.recursive => right.path # <<>>,
           p = left.path \/ (left.recursive /\ IsPrefix(left.path, p)),
           p = right.path \/ (right.recursive /\ IsPrefix(right.path, p))
    PROVE  file_accesses_overlap(left, right)
  <1>1. left.path \in Seq(C) /\ right.path \in Seq(C)
    BY DEF Accesses
  <1>2. CASE left.path = right.path
    BY <1>2 DEF file_accesses_overlap
  <1>3. CASE left.path # right.path /\ p = left.path
    BY <1>3 DEF file_accesses_overlap, path_is_within, IsStrictPrefix
  <1>4. CASE left.path # right.path /\ p = right.path
    BY <1>4 DEF file_accesses_overlap, path_is_within, IsStrictPrefix
  <1>5. CASE left.path # right.path /\ p # left.path /\ p # right.path
    <2>1. IsPrefix(left.path, right.path) \/ IsPrefix(right.path, left.path)
      BY <1>1, <1>5, PrefixesAreComparable
    <2> QED BY <2>1, <1>5 DEF file_accesses_overlap, path_is_within, IsStrictPrefix
  <1> QED BY <1>2, <1>3, <1>4, <1>5

LEMMA InterferenceConflicts ==
    ASSUME NEW C, AccessesOK(C), NEW i \in Calls, NEW j \in Calls,
           accesses \in [Calls -> AccessChoices \cup {{}}], Interfere(i, j)
    PROVE  conflict(i, j)
  <1>1. PICK left \in accesses[i], right \in accesses[j] :
            \/ left.all \/ right.all
            \/ (left.writes \/ right.writes) /\ Touched(left) \intersect Touched(right) # {}
    BY DEF Interfere
  <1>2. accesses[i] \in AccessChoices /\ accesses[j] \in AccessChoices
    BY <1>1
  <1>3. left \in Accesses(C) /\ right \in Accesses(C)
    BY <1>1, <1>2 DEF AccessesOK
  <1>4. CASE left.all \/ right.all
    BY <1>1, <1>4 DEF conflict, resource_accesses_conflict
  <1>5. CASE ~left.all /\ ~right.all
    <2>1. PICK p \in Paths : p \in Touched(left) /\ p \in Touched(right)
      BY <1>1, <1>5 DEF Touched
    <2>2. p \in Seq(C)
      BY DEF AccessesOK
    <2>3. (left.recursive => left.path # <<>>) /\ (right.recursive => right.path # <<>>)
      BY <1>1, <1>2, <1>5 DEF AccessesOK
    <2>4. /\ p = left.path \/ (left.recursive /\ IsPrefix(left.path, p))
          /\ p = right.path \/ (right.recursive /\ IsPrefix(right.path, p))
      BY <2>1 DEF Touched
    <2>5. file_accesses_overlap(left, right)
      BY <2>2, <2>3, <2>4, <1>3, SharedPathsOverlap
    <2> QED BY <2>5, <1>1, <1>5 DEF conflict, resource_accesses_conflict
  <1> QED BY <1>4, <1>5

\* Conflicts are mutual.
LEMMA ConflictIsMutual == ASSUME NEW i, NEW j, conflict(i, j) PROVE conflict(j, i)
  <1>1. PICK left \in accesses[i], right \in accesses[j] : resource_accesses_conflict(left, right)
    BY DEF conflict
  <1>2. resource_accesses_conflict(right, left)
    BY <1>1 DEF resource_accesses_conflict, file_accesses_overlap
  <1> QED BY <1>2 DEF conflict

-----------------------------------------------------------------------------
(***************************************************************************)
(* What the scheduler's loops compute: add of every call, and the loop of  *)
(* take_ready_tasks.                                                       *)
(***************************************************************************)
\* The least-number principle, from the well-foundedness of < on Nat.
LEMMA LeastNumber ==
    ASSUME NEW T, T \subseteq Nat, T # {}
    PROVE  \E x \in T : \A y \in T : x <= y
  <1> DEFINE R == OpToRel(<, Nat)
  <1>1. IsWellFoundedOn(R, Nat)
    BY NatLessThanWellFounded
  <1>2. \A x, y \in Nat : <<y, x>> \in R <=> y < x
    BY DEF OpToRel
  <1> HIDE DEF R
  <1>3. PICK x \in T : \A y \in T : ~(<<y, x>> \in R)
    BY <1>1, WFMin
  <1>4. ASSUME NEW y \in T PROVE x <= y
    <2>1. x \in Nat /\ y \in Nat
      OBVIOUS
    <2>2. ~(y < x)
      BY <2>1, <1>2, <1>3
    <2> QED BY <2>1, <2>2
  <1> QED BY <1>4

\* A set of numbers that has 0, and with each number below n the next one.
LEMMA UpTo ==
    ASSUME NEW n \in Nat, NEW G, 0 \in G, \A k \in 0 .. n - 1 : k \in G => k + 1 \in G
    PROVE  \A k \in 0 .. n : k \in G
  <1> SUFFICES ASSUME NEW m \in 0 .. n, m \notin G PROVE FALSE
    OBVIOUS
  <1> DEFINE T == {k \in 0 .. n : k \notin G}
  <1>1. T \subseteq Nat /\ T # {}
    OBVIOUS
  <1>2. PICK k \in T : \A y \in T : k <= y
    BY <1>1, LeastNumber
  <1>3. k \in 0 .. n /\ k # 0 /\ k \notin G
    OBVIOUS
  <1>4. k - 1 \in 0 .. n - 1 /\ k - 1 \in Nat /\ k - 1 + 1 = k
    BY <1>3
  <1>5. k - 1 \notin T
    BY <1>2, <1>4
  <1>6. k - 1 \in G
    BY <1>4, <1>5
  <1> QED BY <1>3, <1>4, <1>6

LEMMA MaxOfUpTo ==
    ASSUME NEW k \in Nat, NEW s, s \subseteq 1 .. k + 1, k + 1 \in s
    PROVE  Max(s) = k + 1
  <1>1. \A y \in s : y \in Int /\ k + 1 >= y
    OBVIOUS
  <1>2. Max(s) \in s /\ \A y \in s : Max(s) >= y
    BY <1>1 DEF Max
  <1>3. Max(s) >= k + 1 /\ Max(s) \in Int /\ k + 1 >= Max(s)
    BY <1>1, <1>2
  <1> QED BY <1>3

\* The recursion that FoldLeft stands for, on the indices up to k.
Folds(g, base, tasks, k) ==
    g = [s \in SUBSET (1 .. k) |-> IF s = {} THEN base ELSE AddTask(g[s \ {Max(s)}], tasks[Max(s)])]

LEMMA FoldExists ==
    ASSUME NEW base, NEW tasks, NEW n \in Nat
    PROVE  \E g : Folds(g, base, tasks, n)
  <1> DEFINE G == {k \in Nat : \E g : Folds(g, base, tasks, k)}
  <1>1. 0 \in G
    <2>1. Folds([s \in SUBSET (1 .. 0) |-> base], base, tasks, 0)
      BY DEF Folds
    <2> QED BY <2>1
  <1>2. ASSUME NEW k \in 0 .. n - 1, k \in G PROVE k + 1 \in G
    <2>1. PICK g : Folds(g, base, tasks, k)
      BY <1>2
    <2>2. k \in Nat /\ k + 1 \in Nat
      OBVIOUS
    <2> DEFINE h == [s \in SUBSET (1 .. k + 1) |->
                       IF k + 1 \in s THEN AddTask(g[s \ {k + 1}], tasks[k + 1]) ELSE g[s]]
    <2>3. \A s \in SUBSET (1 .. k + 1) : k + 1 \notin s => s \in SUBSET (1 .. k)
      BY <2>2
    <2>4. ASSUME NEW s \in SUBSET (1 .. k + 1)
          PROVE  h[s] = IF s = {} THEN base ELSE AddTask(h[s \ {Max(s)}], tasks[Max(s)])
      <3>1. CASE k + 1 \in s
        <4>1. Max(s) = k + 1
          BY <3>1, <2>2, MaxOfUpTo
        <4>2. s \ {k + 1} \in SUBSET (1 .. k + 1) /\ k + 1 \notin s \ {k + 1}
          OBVIOUS
        <4>3. h[s \ {k + 1}] = g[s \ {k + 1}]
          BY <4>2
        <4> QED BY <3>1, <4>1, <4>3
      <3>2. CASE k + 1 \notin s /\ s = {}
        <4>1. h[s] = g[s] /\ s \in SUBSET (1 .. k)
          BY <3>2
        <4> QED BY <4>1, <3>2, <2>1 DEF Folds
      <3>3. CASE k + 1 \notin s /\ s # {}
        <4>1. h[s] = g[s] /\ s \in SUBSET (1 .. k)
          BY <3>3, <2>3
        <4>2. g[s] = AddTask(g[s \ {Max(s)}], tasks[Max(s)])
          BY ONLY <4>1, <3>3, <2>1 DEF Folds
        <4>3. s \ {Max(s)} \in SUBSET (1 .. k + 1) /\ k + 1 \notin s \ {Max(s)}
          BY <3>3
        <4>4. h[s \ {Max(s)}] = g[s \ {Max(s)}]
          BY <4>3
        <4> QED BY <3>3, <4>1, <4>2, <4>4
      <3> QED BY <3>1, <3>2, <3>3
    <2>5. h = [s \in SUBSET (1 .. k + 1) |-> IF s = {} THEN base ELSE AddTask(h[s \ {Max(s)}], tasks[Max(s)])]
      BY <2>4
    <2>6. Folds(h, base, tasks, k + 1)
      BY <2>5 DEF Folds
    <2> QED BY <2>2, <2>6
  <1> HIDE DEF G
  <1>3. n \in G
    BY <1>1, <1>2, UpTo
  <1> QED BY <1>3 DEF G

Added(base, tasks) == FoldLeft(AddTask, base, tasks)

\* The fold, one task after the other.
LEMMA FoldSteps ==
    ASSUME NEW base, NEW tasks, NEW n \in Nat, DOMAIN tasks = 1 .. n
    PROVE  \E f : /\ f[0] = base /\ f[n] = Added(base, tasks)
                  /\ \A k \in 0 .. n - 1 : f[k + 1] = AddTask(f[k], tasks[k + 1])
  <1>1. PICK h : h = CHOOSE g : Folds(g, base, tasks, n)
    OBVIOUS
  <1>2. Folds(h, base, tasks, n)
    BY <1>1, FoldExists
  <1>3. Added(base, tasks) = h[1 .. n]
    BY <1>1 DEF Added, FoldLeft, MapThenFoldSet, Folds
  <1> DEFINE f == [k \in 0 .. n |-> h[1 .. k]]
  <1>4. f[0] = base
    <2>1. 1 .. 0 = {} /\ 0 \in 0 .. n /\ {} \in SUBSET (1 .. n)
      OBVIOUS
    <2>2. h[{}] = base
      BY <2>1, <1>2 DEF Folds
    <2> QED BY <2>1, <2>2
  <1>5. ASSUME NEW k \in 0 .. n - 1 PROVE f[k + 1] = AddTask(f[k], tasks[k + 1])
    <2>1. k \in 0 .. n /\ k + 1 \in 0 .. n /\ k \in Nat
      OBVIOUS
    <2>2. PICK s : s = 1 .. k + 1
      OBVIOUS
    <2>3. s \in SUBSET (1 .. n) /\ s # {} /\ k + 1 \in s
      BY <2>1, <2>2
    <2>4. Max(s) = k + 1
      BY <2>1, <2>2, <2>3, MaxOfUpTo
    <2>5. s \ {k + 1} = 1 .. k
      BY <2>1, <2>2
    <2>6. h[s] = AddTask(h[s \ {Max(s)}], tasks[Max(s)])
      BY ONLY <2>3, <1>2 DEF Folds
    <2>7. h[1 .. k + 1] = AddTask(h[1 .. k], tasks[k + 1])
      BY ONLY <2>2, <2>4, <2>5, <2>6
    <2> QED BY ONLY <2>1, <2>7
  <1>6. f[n] = h[1 .. n]
    OBVIOUS
  <1> QED BY <1>3, <1>4, <1>5, <1>6

Rising(tasks) == \A m, n \in 1 .. Len(tasks) : m < n => tasks[m] < tasks[n]
In(tasks, i) == \E n \in 1 .. Len(tasks) : tasks[n] = i

\* The first k tasks, which are in the order of the calls, have been added to
\* the active ones: each has started or is queued, and one that has started
\* conflicts with no other.
Placed(s, running, tasks, k) ==
    /\ s \in [activeTasks : SUBSET Calls, queued : Seq(Calls)]
    /\ running \subseteq s.activeTasks
    /\ \A i \in Calls : i \in s.activeTasks \/ In(s.queued, i) <=>
           i \in running \/ \E n \in 1 .. k : tasks[n] = i
    /\ \A i \in Calls : In(s.queued, i) => i \notin s.activeTasks /\ \E n \in 1 .. k : tasks[n] = i
    /\ Rising(s.queued)
    /\ \A i \in s.activeTasks \ running :
           /\ \A j \in running : ~conflict(i, j)
           /\ \A n \in 1 .. k : tasks[n] < i => ~conflict(i, tasks[n])

LEMMA InRange == ASSUME NEW q \in Seq(Calls), NEW i PROVE i \in Range(q) <=> In(q, i)
  BY DEF Range, In

LEMMA PlacedNext ==
    ASSUME NEW tasks \in Seq(Calls), Rising(tasks), NEW running \in SUBSET Calls,
           \A n \in 1 .. Len(tasks) : tasks[n] \notin running,
           NEW k \in 0 .. Len(tasks) - 1, NEW s, Placed(s, running, tasks, k)
    PROVE  Placed(AddTask(s, tasks[k + 1]), running, tasks, k + 1)
  <1>1. PICK i \in Calls : i = tasks[k + 1]
    <2>1. k + 1 \in 1 .. Len(tasks)
      OBVIOUS
    <2> QED BY <2>1
  <1>2. k \in Nat /\ k + 1 \in 1 .. Len(tasks) /\ Len(tasks) \in Nat
    OBVIOUS
  <1>3. i \notin running
    BY <1>1, <1>2
  <1>4. \A n \in 1 .. k : n \in 1 .. Len(tasks) /\ tasks[n] \in Calls /\ tasks[n] < i
    BY <1>1, <1>2 DEF Rising
  <1>5. \A n \in 1 .. k + 1 : n \in 1 .. k \/ n = k + 1
    BY <1>2
  <1>6. 1 .. k \subseteq 1 .. k + 1 /\ k + 1 \in 1 .. k + 1
    BY <1>2
  <1>7. /\ s \in [activeTasks : SUBSET Calls, queued : Seq(Calls)]
        /\ s.activeTasks \subseteq Calls /\ s.queued \in Seq(Calls) /\ running \subseteq s.activeTasks /\ Rising(s.queued)
    BY DEF Placed
  <1>8. \A j \in Calls : j \in s.activeTasks \/ In(s.queued, j) <=> j \in running \/ \E n \in 1 .. k : tasks[n] = j
    BY DEF Placed
  <1>9. \A j \in Calls : In(s.queued, j) => j \notin s.activeTasks /\ \E n \in 1 .. k : tasks[n] = j
    BY DEF Placed
  <1>10. \A j \in s.activeTasks \ running :
           /\ \A h \in running : ~conflict(j, h)
           /\ \A n \in 1 .. k : tasks[n] < j => ~conflict(j, tasks[n])
    BY DEF Placed
  <1>11. \A j \in Calls : (\E n \in 1 .. k + 1 : tasks[n] = j) <=> j = i \/ \E n \in 1 .. k : tasks[n] = j
    BY <1>1, <1>5, <1>6
  <1>12. Calls \subseteq Int
    BY DEF Calls
  <1>13. i \notin s.activeTasks /\ ~In(s.queued, i)
    BY <1>3, <1>4, <1>8, <1>12
  <1>14. \A j \in s.activeTasks \ running : ~(tasks[k + 1] < j)
    <2> TAKE j \in s.activeTasks \ running
    <2>1. j \in Int /\ i \in Int /\ j < i
      BY <1>4, <1>7, <1>8, <1>12
    <2>2. ~(i < j)
      BY ONLY <2>1
    <2> QED BY <2>2, <1>1
  <1>15. CASE is_blocked(i, s.activeTasks, s.queued)
    <2>1. PICK u : u = AddTask(s, i)
      OBVIOUS
    <2>2. PICK q : q = Append(s.queued, i)
      OBVIOUS
    <2>3. u = [s EXCEPT !.queued = q]
      BY <1>15, <2>1, <2>2 DEF AddTask
    <2>4. /\ q \in Seq(Calls) /\ Len(q) = Len(s.queued) + 1 /\ q[Len(s.queued) + 1] = i
          /\ \A n \in 1 .. Len(s.queued) : q[n] = s.queued[n]
      BY <2>2, <1>7
    <2>5. PICK l \in Nat : l = Len(s.queued)
      BY <1>7
    <2>6. \A n \in 1 .. l + 1 : n \in 1 .. l \/ n = l + 1
      OBVIOUS
    <2>7. 1 .. l \subseteq 1 .. l + 1 /\ l + 1 \in 1 .. l + 1
      OBVIOUS
    <2>8. \A j : In(q, j) <=> In(s.queued, j) \/ j = i
      BY <2>4, <2>5, <2>6, <2>7 DEF In
    <2>9. \A n \in 1 .. l : s.queued[n] \in Calls /\ s.queued[n] < i
      <3> TAKE n \in 1 .. l
      <3>1. s.queued[n] \in Calls /\ In(s.queued, s.queued[n])
        BY <2>5, <1>7 DEF In
      <3> QED BY <3>1, <1>9, <1>4
    <2>10. Rising(q)
      <3> SUFFICES ASSUME NEW m \in 1 .. l + 1, NEW n \in 1 .. l + 1, m < n PROVE q[m] < q[n]
        BY <2>4, <2>5 DEF Rising
      <3>1. m \in 1 .. l
        OBVIOUS
      <3>2. CASE n \in 1 .. l
        BY <3>1, <3>2, <2>4, <2>5, <1>7 DEF Rising
      <3>3. CASE n = l + 1
        BY <3>1, <3>3, <2>4, <2>5, <2>9
      <3> QED BY <3>2, <3>3, <2>6
    <2>11. u.activeTasks = s.activeTasks /\ u.queued = q /\ u \in [activeTasks : SUBSET Calls, queued : Seq(Calls)]
      BY <2>3, <2>4, <1>7
    <2>12. \A j \in s.activeTasks \ running :
             /\ \A h \in running : ~conflict(j, h)
             /\ \A n \in 1 .. k + 1 : tasks[n] < j => ~conflict(j, tasks[n])
      BY <1>5, <1>10, <1>14
    <2>13. \A j \in Calls : j \in s.activeTasks \/ In(q, j) <=> j \in running \/ \E n \in 1 .. k + 1 : tasks[n] = j
      BY <2>8, <1>8, <1>11
    <2>14. \A j \in Calls : In(q, j) => j \notin s.activeTasks /\ \E n \in 1 .. k + 1 : tasks[n] = j
      BY <2>8, <1>9, <1>11, <1>13
    <2>15. Placed(u, running, tasks, k + 1)
      BY <2>10, <2>11, <2>12, <2>13, <2>14, <1>7 DEF Placed
    <2> QED BY <2>1, <2>15, <1>1
  <1>16. CASE ~is_blocked(i, s.activeTasks, s.queued)
    <2>1. PICK u : u = AddTask(s, i)
      OBVIOUS
    <2>2. u = [s EXCEPT !.activeTasks = s.activeTasks \cup {i}]
      BY <1>16, <2>1 DEF AddTask
    <2>3. /\ u.activeTasks = s.activeTasks \cup {i} /\ u.queued = s.queued
          /\ u \in [activeTasks : SUBSET Calls, queued : Seq(Calls)]
      BY <2>2, <1>7
    <2>4. \A j \in Calls : j \in s.activeTasks \/ In(s.queued, j) => ~conflict(i, j)
      BY <1>7, <1>16, InRange DEF is_blocked
    <2>5. /\ \A j \in running : ~conflict(i, j)
          /\ \A n \in 1 .. k : ~conflict(i, tasks[n])
      BY <2>4, <1>4, <1>8
    <2>6. \A j \in u.activeTasks \ running :
             /\ \A h \in running : ~conflict(j, h)
             /\ \A n \in 1 .. k + 1 : tasks[n] < j => ~conflict(j, tasks[n])
      <3> TAKE j \in u.activeTasks \ running
      <3>1. CASE j = i
        <4>1. ~(tasks[k + 1] < j)
          BY <3>1, <1>1, <1>12
        <4> QED BY <4>1, <3>1, <2>5, <1>5
      <3>2. CASE j # i
        <4>1. j \in s.activeTasks \ running
          BY <3>2, <2>3
        <4>2. ~(tasks[k + 1] < j)
          BY <4>1, <1>14
        <4> QED BY <4>1, <4>2, <1>5, <1>10
      <3> QED BY <3>1, <3>2
    <2>7. \A j \in Calls : j \in u.activeTasks \/ In(u.queued, j) <=> j \in running \/ \E n \in 1 .. k + 1 : tasks[n] = j
      BY <2>3, <1>8, <1>11
    <2>8. \A j \in Calls : In(u.queued, j) => j \notin u.activeTasks /\ \E n \in 1 .. k + 1 : tasks[n] = j
      BY <2>3, <1>9, <1>11, <1>13
    <2>9. Placed(u, running, tasks, k + 1)
      BY <2>3, <2>6, <2>7, <2>8, <1>7 DEF Placed
    <2> QED BY <2>1, <2>9, <1>1
  <1> QED BY <1>15, <1>16

\* All of them have been added.
LEMMA AllPlaced ==
    ASSUME NEW tasks \in Seq(Calls), Rising(tasks), NEW running \in SUBSET Calls,
           \A n \in 1 .. Len(tasks) : tasks[n] \notin running
    PROVE  Placed(Added([activeTasks |-> running, queued |-> <<>>], tasks), running, tasks, Len(tasks))
  <1>1. PICK n \in Nat : n = Len(tasks)
    OBVIOUS
  <1>2. DOMAIN tasks = 1 .. n
    BY <1>1
  <1>3. PICK base : base = [activeTasks |-> running, queued |-> <<>>]
    OBVIOUS
  <1>4. PICK f : /\ f[0] = base /\ f[n] = Added(base, tasks)
                 /\ \A k \in 0 .. n - 1 : f[k + 1] = AddTask(f[k], tasks[k + 1])
    BY <1>2, FoldSteps
  <1> DEFINE G == {k \in Nat : Placed(f[k], running, tasks, k)}
  <1>5. 0 \in G
    <2>1. base \in [activeTasks : SUBSET Calls, queued : Seq(Calls)] /\ base.activeTasks = running /\ base.queued = <<>>
      BY <1>3
    <2>2. 1 .. 0 = {} /\ Len(<<>>) = 0
      OBVIOUS
    <2>3. \A i : ~In(base.queued, i)
      BY <2>1, <2>2 DEF In
    <2>4. Placed(base, running, tasks, 0)
      BY <2>1, <2>2, <2>3 DEF Placed, Rising
    <2> QED BY <2>4, <1>4
  <1>6. ASSUME NEW k \in 0 .. n - 1, k \in G PROVE k + 1 \in G
    <2>1. Placed(f[k], running, tasks, k) /\ f[k + 1] = AddTask(f[k], tasks[k + 1])
      BY <1>4, <1>6
    <2>2. Placed(AddTask(f[k], tasks[k + 1]), running, tasks, k + 1)
      BY <2>1, <1>1, PlacedNext
    <2> QED BY <2>1, <2>2
  <1> HIDE DEF G
  <1>7. n \in G
    <2>1. n \in 0 .. n /\ \A k \in 0 .. n - 1 : k \in G => k + 1 \in G
      BY <1>6
    <2> QED BY ONLY <2>1, <1>5, n \in Nat, UpTo
  <1> QED BY <1>1, <1>3, <1>4, <1>7 DEF G

-----------------------------------------------------------------------------
(***************************************************************************)
(* The inductive invariant.                                                *)
(***************************************************************************)
TaskStates == {"none", "running", "finished", "panicked", "aborting", "cancelled", "joined"}
Over == {"finished", "panicked", "cancelled", "joined"}

BatchTypes ==
    /\ BatchTypeOK
    /\ queued \in Seq(Calls) /\ sent \in [Calls -> Nat] /\ keyOf \in [Calls -> Calls]
    /\ accesses \in [Calls -> AccessChoices \cup {{}}]
    /\ reaping \in BOOLEAN /\ firstError \in BOOLEAN
    /\ \A k \in DOMAIN deferreds : deferreds[k] \subseteq Calls

\* Nothing runs before Schedule.
NothingYet ==
    batchPhase \in {"idle", "prepare"} =>
        /\ \A i \in Calls : toolTask[i] = "none" /\ final[i] = "none"
        /\ activeTasks = {} /\ queued = <<>> /\ ~reaping /\ ~firstError /\ panics = 0

\* A call that has not started is queued, in order, until an error clears the
\* scheduler; a task in the JoinSet is active.
Scheduled ==
    /\ Rising(queued)
    /\ \A i \in Calls : In(queued, i) => toolTask[i] = "none"
    /\ \A i \in Calls : toolTask[i] \notin {"none", "joined"} => i \in activeTasks
    /\ \A i \in activeTasks : toolTask[i] # "none"
    /\ batchPhase = "run" =>
           \/ \A i \in Calls : toolTask[i] = "none" => In(queued, i)
           \/ activeTasks = {} /\ queued = <<>> /\ panics > 0

\* A call that runs conflicts with no earlier one that is not over.
InOrder ==
    \A i, j \in Calls : i < j /\ toolTask[j] = "running" /\ conflict(i, j) => toolTask[i] \in Over

\* A finalization is that of a joined task, and ends with one result; without
\* a panic every joined task has one.
Accounted ==
    /\ \A i \in Calls : sent[i] = IF final[i] = "done" THEN 1 ELSE 0
    /\ \A i \in Calls : final[i] # "none" => toolTask[i] = "joined"
    /\ panics = 0 =>
           /\ ~reaping /\ ~firstError
           /\ \A i \in Calls : toolTask[i] \in {"none", "running", "finished", "joined"}
           /\ \A i \in Calls : toolTask[i] = "joined" => final[i] # "none"
           /\ batchPhase = "done" => \A i \in Calls : final[i] = "done"

BatchInv == BatchTypes /\ NothingYet /\ Scheduled /\ InOrder /\ Accounted

-----------------------------------------------------------------------------
(***************************************************************************)
(* The scheduler's two loops, in a state of the invariant.                 *)
(***************************************************************************)
\* start: every call, in order, added to nothing.
LEMMA AddAllPlaces ==
    ASSUME MaxBatch \in Nat
    PROVE  Placed(add_all, {}, [i \in Calls |-> i], MaxBatch)
  <1>1. PICK all : all = [i \in Calls |-> i]
    OBVIOUS
  <1>2. all \in Seq(Calls) /\ Len(all) = MaxBatch /\ \A n \in 1 .. MaxBatch : all[n] = n
    BY <1>1 DEF Calls
  <1>3. Rising(all)
    BY <1>2 DEF Rising
  <1>4. add_all = Added([activeTasks |-> {}, queued |-> <<>>], all)
    BY <1>1 DEF add_all, Added
  <1>5. Placed(Added([activeTasks |-> {}, queued |-> <<>>], all), {}, all, Len(all))
    BY <1>2, <1>3, AllPlaced
  <1> QED BY <1>1, <1>2, <1>4, <1>5

\* finish: the queue, added to what stays active.
LEMMA FinishPlaces ==
    ASSUME BatchTypes, Scheduled, NEW i
    PROVE  Placed(finish(i), activeTasks \ {i}, queued, Len(queued))
  <1>1. queued \in Seq(Calls) /\ activeTasks \ {i} \in SUBSET Calls /\ Rising(queued)
    BY DEF BatchTypes, BatchTypeOK, Scheduled
  <1>2. \A n \in 1 .. Len(queued) : queued[n] \notin activeTasks \ {i}
    <2> TAKE n \in 1 .. Len(queued)
    <2>1. queued[n] \in Calls /\ In(queued, queued[n])
      BY <1>1 DEF In
    <2> QED BY <2>1 DEF Scheduled
  <1>3. finish(i) = Added([activeTasks |-> activeTasks \ {i}, queued |-> <<>>], queued)
    BY DEF finish, Added
  <1> QED BY <1>1, <1>2, <1>3, AllPlaced

-----------------------------------------------------------------------------
(***************************************************************************)
(* Types.                                                                  *)
(***************************************************************************)
LEMMA BatchTypesInit == BatchInit => BatchTypes
  <1> SUFFICES ASSUME BatchInit PROVE BatchTypes
    OBVIOUS
  <1>1. <<>> \in Seq(Calls) /\ Range(<<>>) = {} /\ DOMAIN <<>> = {}
    BY DEF Range
  <1>2. 1 \in 1 .. MaxBatch + 1 /\ 0 \in 0 .. MaxPanics
    BY BatchAssumption
  <1> QED BY <1>1, <1>2 DEF BatchInit, BatchTypes, BatchTypeOK

\* What check_tool_call leaves in deferreds.
LEMMA DeferredsTyped ==
    ASSUME BatchTypes, NEW i \in Calls, check_tool_call(i)
    PROVE  DOMAIN deferreds' \subseteq Calls /\ \A k \in DOMAIN deferreds' : deferreds'[k] \subseteq Calls
  <1>1. keyOf[i] \in Calls /\ DOMAIN deferreds \subseteq Calls /\ \A k \in DOMAIN deferreds : deferreds[k] \subseteq Calls
    BY DEF BatchTypes, BatchTypeOK
  <1>2. CASE keyOf[i] \in DOMAIN deferreds
    BY <1>1, <1>2 DEF check_tool_call
  <1>3. CASE keyOf[i] \notin DOMAIN deferreds
    BY <1>1, <1>3 DEF check_tool_call
  <1> QED BY <1>2, <1>3

\* A call that is prepared.
LEMMA PreparedTyped ==
    ASSUME BatchTypes, preparing <= MaxBatch, NEW f \in {"rejected", "answered", "duplicate", "blocked", "substituted", "run"},
           NEW stops, Prepared(f, stops), batchPhase' = batchPhase,
           DOMAIN deferreds' \subseteq Calls, \A k \in DOMAIN deferreds' : deferreds'[k] \subseteq Calls,
           accesses' \in [Calls -> AccessChoices \cup {{}}]
    PROVE  BatchTypes'
  <1>1. preparing' \in 1 .. MaxBatch + 1
    BY BatchAssumption DEF Prepared, BatchTypes, BatchTypeOK
  <1> QED BY <1>1 DEF Prepared, BatchTypes, BatchTypeOK

LEMMA PrepareTyped == ASSUME BatchTypes, PrepareOne PROVE BatchTypes'
  <1>1. preparing <= MaxBatch /\ preparing \in Calls
    BY BatchAssumption DEF PrepareOne, BatchTypes, BatchTypeOK, Calls
  <1>2. /\ DOMAIN deferreds \subseteq Calls /\ \A k \in DOMAIN deferreds : deferreds[k] \subseteq Calls
        /\ accesses \in [Calls -> AccessChoices \cup {{}}]
    BY DEF BatchTypes, BatchTypeOK
  <1>3. check_tool_call(preparing) =>
            DOMAIN deferreds' \subseteq Calls /\ \A k \in DOMAIN deferreds' : deferreds'[k] \subseteq Calls
    BY <1>1, DeferredsTyped
  <1>4. CASE Skip
    BY <1>1, <1>2, <1>4, PreparedTyped DEF Skip
  <1>5. CASE Reject
    BY <1>1, <1>2, <1>5, PreparedTyped DEF Reject
  <1>6. CASE Resolve
    BY <1>1, <1>2, <1>6, PreparedTyped DEF Resolve
  <1>7. CASE Deduplicate
    BY <1>1, <1>2, <1>3, <1>7, PreparedTyped DEF Deduplicate
  <1>8. CASE Block
    BY <1>1, <1>2, <1>3, <1>8, PreparedTyped DEF Block
  <1>9. CASE Substitute
    BY <1>1, <1>2, <1>3, <1>9, PreparedTyped DEF Substitute
  <1>10. CASE Allow
    <2>1. accesses' \in [Calls -> AccessChoices \cup {{}}]
      BY <1>2, <1>10 DEF Allow
    <2>2. PICK stops : Prepared("run", stops)
      BY <1>10 DEF Allow
    <2> QED BY <2>1, <2>2, <1>1, <1>3, <1>10, PreparedTyped DEF Allow
  <1>11. CASE HookFails
    <2>1. DOMAIN deferreds' \subseteq Calls /\ \A k \in DOMAIN deferreds' : deferreds'[k] \subseteq Calls
      BY <1>3, <1>11 DEF HookFails
    <2> QED BY <2>1, <1>11 DEF HookFails, BatchTypes, BatchTypeOK
  <1> QED BY <1>4, <1>5, <1>6, <1>7, <1>8, <1>9, <1>10, <1>11 DEF PrepareOne

LEMMA ExecuteTyped == ASSUME BatchTypes, execute PROVE BatchTypes'
  <1>1. keyOf' \in [Calls -> Calls]
    BY DEF execute
  <1> QED BY <1>1 DEF execute, BatchTypes, BatchTypeOK

\* What the scheduler has placed.
LEMMA PlacedTyped ==
    ASSUME NEW s, NEW tasks, NEW running, NEW k, Placed(s, running, tasks, k)
    PROVE  s.activeTasks \subseteq Calls /\ s.queued \in Seq(Calls) /\ Range(s.queued) \subseteq Calls
  <1>1. s.activeTasks \subseteq Calls /\ s.queued \in Seq(Calls)
    BY DEF Placed
  <1> QED BY <1>1 DEF Range

LEMMA ScheduleTyped == ASSUME BatchTypes, Schedule PROVE BatchTypes'
  <1>1. add_all.activeTasks \subseteq Calls /\ add_all.queued \in Seq(Calls) /\ Range(add_all.queued) \subseteq Calls
    BY AddAllPlaces, PlacedTyped, BatchAssumption
  <1> QED BY <1>1 DEF Schedule, BatchTypes, BatchTypeOK, prepareVars

LEMMA ResultTyped ==
    ASSUME BatchTypes, Scheduled, NEW i \in Calls, NextReturnsResult(i) PROVE BatchTypes'
  <1>1. /\ finish(i).activeTasks \subseteq Calls /\ finish(i).queued \in Seq(Calls)
        /\ Range(finish(i).queued) \subseteq Calls
    BY FinishPlaces, PlacedTyped
  <1>2. toolTask' \in [Calls -> TaskStates]
    BY DEF NextReturnsResult, BatchTypes, BatchTypeOK, TaskStates
  <1>3. final' \in [Calls -> {"none", "hooks", "ready", "done"}]
    BY DEF NextReturnsResult, BatchTypes, BatchTypeOK
  <1> QED BY <1>1, <1>2, <1>3 DEF NextReturnsResult, BatchTypes, BatchTypeOK, prepareVars, TaskStates

LEMMA FinalizeTyped == ASSUME BatchTypes, NEW i \in Calls, finalize(i) PROVE BatchTypes'
  <1>1. /\ told' \subseteq Calls /\ DOMAIN deferreds' \subseteq Calls
        /\ \A k \in DOMAIN deferreds' : deferreds'[k] \subseteq Calls
    <2>1. CASE form[i] \in {"run", "substituted"} /\ keyOf[i] \in DOMAIN deferreds
      BY <2>1 DEF finalize, finalize_result, Restrict, BatchTypes, BatchTypeOK
    <2>2. CASE ~(form[i] \in {"run", "substituted"} /\ keyOf[i] \in DOMAIN deferreds)
      BY <2>2 DEF finalize, finalize_result, BatchTypes, BatchTypeOK
    <2> QED BY <2>1, <2>2
  <1>2. final' \in [Calls -> {"none", "hooks", "ready", "done"}]
    BY DEF finalize, BatchTypes, BatchTypeOK
  <1> QED BY <1>1, <1>2 DEF finalize, BatchTypes, BatchTypeOK, prepareVars

\* The tasks, and the executor's other steps.
OtherStep ==
    \/ \E i \in Calls : \/ NextMeetsError(i) \/ Reap(i) \/ FinalizationReturns(i)
                        \/ TaskFinishes(i) \/ TaskPanics(i) \/ AbortLands(i)
    \/ BatchEnds \/ SelectPanics

\* What next() leaves of the scheduler while and after it reaps.
LEMMA ReapedTyped ==
    ASSUME BatchTypes, NEW i, Reaped(i)
    PROVE  /\ activeTasks' \subseteq Calls /\ queued' \in Seq(Calls) /\ Range(queued') \subseteq Calls
           /\ reaping' \in BOOLEAN /\ firstError' \in BOOLEAN
  <1>1. <<>> \in Seq(Calls) /\ Range(<<>>) = {}
    BY DEF Range
  <1> QED BY <1>1 DEF Reaped, BatchTypes, BatchTypeOK

LEMMA OtherTyped == ASSUME BatchTypes, OtherStep PROVE BatchTypes'
  <1>1. ASSUME NEW i \in Calls, NextMeetsError(i) PROVE BatchTypes'
    <2>1. toolTask' \in [Calls -> TaskStates]
      BY <1>1 DEF NextMeetsError, BatchTypes, BatchTypeOK, TaskStates
    <2>2. Reaped(i)
      BY <1>1 DEF NextMeetsError
    <2> QED BY <2>1, <2>2, <1>1, ReapedTyped DEF NextMeetsError, BatchTypes, BatchTypeOK, TaskStates, prepareVars
  <1>2. ASSUME NEW i \in Calls, Reap(i) PROVE BatchTypes'
    <2>1. Reaped(i)
      BY <1>2 DEF Reap
    <2> QED BY <2>1, <1>2, ReapedTyped DEF Reap, BatchTypes, BatchTypeOK, prepareVars
  <1>3. ASSUME NEW i \in Calls, FinalizationReturns(i) PROVE BatchTypes'
    <2>1. sent' \in [Calls -> Nat]
      BY <1>3 DEF FinalizationReturns, BatchTypes
    <2> QED BY <2>1, <1>3 DEF FinalizationReturns, BatchTypes, BatchTypeOK, prepareVars
  <1>4. ASSUME NEW i \in Calls, TaskFinishes(i) PROVE BatchTypes'
    BY <1>4 DEF TaskFinishes, BatchTypes, BatchTypeOK, prepareVars
  <1>5. ASSUME NEW i \in Calls, TaskPanics(i) PROVE BatchTypes'
    <2>1. panics' \in 0 .. MaxPanics
      BY <1>5, BatchAssumption DEF TaskPanics, BatchTypes, BatchTypeOK
    <2> QED BY <2>1, <1>5 DEF TaskPanics, BatchTypes, BatchTypeOK, prepareVars
  <1>6. ASSUME NEW i \in Calls, AbortLands(i) PROVE BatchTypes'
    BY <1>6 DEF AbortLands, BatchTypes, BatchTypeOK, prepareVars
  <1>7. CASE BatchEnds \/ SelectPanics
    BY <1>7 DEF BatchEnds, SelectPanics, execute_Returns, BatchTypes, BatchTypeOK, prepareVars
  <1> QED BY <1>1, <1>2, <1>3, <1>4, <1>5, <1>6, <1>7 DEF OtherStep

-----------------------------------------------------------------------------
(***************************************************************************)
(* The other parts.                                                        *)
(***************************************************************************)
Rest == NothingYet /\ Scheduled /\ InOrder /\ Accounted

LEMMA RestInit == BatchInit => Rest
  <1> SUFFICES ASSUME BatchInit PROVE Rest
    OBVIOUS
  <1>1. Len(<<>>) = 0 /\ 1 .. 0 = {}
    OBVIOUS
  <1>2. Scheduled
    BY <1>1 DEF BatchInit, Scheduled, Rising, In
  <1>3. NothingYet /\ InOrder /\ Accounted
    BY DEF BatchInit, NothingYet, InOrder, Accounted
  <1> QED BY <1>2, <1>3 DEF Rest

\* Until Schedule, no step touches the tasks.
LEMMA EarlyKeeps == ASSUME BatchInv, execute \/ PrepareOne PROVE Rest'
  <1>1. /\ batchPhase \in {"idle", "prepare"} /\ batchPhase' \in {"prepare", "failed"}
        /\ UNCHANGED <<toolTask, activeTasks, queued, reaping, final, sent, firstError, panics>>
    BY DEF execute, PrepareOne, Prepared, Skip, Reject, Resolve, Deduplicate, Block, Substitute, Allow, HookFails
  <1>2. \A i \in Calls : toolTask'[i] = "none" /\ final'[i] = "none"
    BY <1>1 DEF BatchInv, NothingYet
  <1>3. NothingYet'
    BY <1>1 DEF BatchInv, NothingYet
  <1>4. Scheduled'
    BY <1>1 DEF BatchInv, Scheduled
  <1>5. InOrder'
    BY <1>2 DEF InOrder
  <1>6. Accounted'
    BY <1>1, <1>2 DEF BatchInv, Accounted
  <1> QED BY <1>3, <1>4, <1>5, <1>6 DEF Rest

LEMMA ScheduleKeeps == ASSUME BatchInv, Schedule PROVE Rest'
  <1>1. PICK s : s = add_all
    OBVIOUS
  <1>2. MaxBatch \in Nat /\ Calls = 1 .. MaxBatch
    BY BatchAssumption DEF Calls
  <1>3. PICK tasks : tasks = [i \in Calls |-> i]
    OBVIOUS
  <1>4. Placed(s, {}, tasks, MaxBatch)
    BY <1>1, <1>2, <1>3, AddAllPlaces
  <1>5. \A i \in Calls : tasks[i] = i /\ i \in 1 .. MaxBatch
    BY <1>2, <1>3
  <1>6. /\ s.activeTasks \subseteq Calls /\ s.queued \in Seq(Calls) /\ Rising(s.queued)
        /\ \A i \in Calls : i \in s.activeTasks \/ In(s.queued, i)
        /\ \A i \in Calls : In(s.queued, i) => i \notin s.activeTasks
    BY <1>4, <1>5 DEF Placed
  <1>7. \A i, j \in Calls : i \in s.activeTasks /\ j < i => ~conflict(i, j)
    BY <1>4, <1>5 DEF Placed
  <1>8. /\ batchPhase = "prepare" /\ batchPhase' = "run" /\ activeTasks' = s.activeTasks /\ queued' = s.queued
        /\ \A i \in Calls : toolTask'[i] = IF i \in s.activeTasks THEN "running" ELSE "none"
        /\ UNCHANGED <<accesses, reaping, final, sent, firstError, panics>>
    BY <1>1 DEF Schedule, prepareVars
  <1>9. (\A i \in Calls : final[i] = "none") /\ ~reaping /\ ~firstError
    BY <1>8 DEF BatchInv, NothingYet
  <1>10. NothingYet'
    BY <1>8 DEF NothingYet
  <1>11. Scheduled'
    BY <1>6, <1>8 DEF Scheduled
  <1>12. InOrder'
    <2> SUFFICES ASSUME NEW i \in Calls, NEW j \in Calls, i < j, toolTask'[j] = "running", conflict(i, j)'
                 PROVE  FALSE
      BY DEF InOrder
    <2>1. j \in s.activeTasks
      BY <1>8
    <2>2. conflict(i, j)
      BY <1>8 DEF conflict
    <2> QED BY <2>1, <2>2, <1>7, ConflictIsMutual
  <1>13. Accounted'
    BY <1>8, <1>9 DEF BatchInv, Accounted
  <1> QED BY <1>10, <1>11, <1>12, <1>13 DEF Rest

LEMMA ResultKeeps ==
    ASSUME BatchInv, batchPhase = "run", NEW i \in Calls, NextReturnsResult(i) PROVE Rest'
  <1>1. PICK s : s = finish(i)
    OBVIOUS
  <1>2. PICK tasks \in Seq(Calls), running \in SUBSET Calls : tasks = queued /\ running = activeTasks \ {i}
    BY DEF BatchInv, BatchTypes, BatchTypeOK
  <1>3. Placed(s, running, tasks, Len(tasks))
    BY <1>1, <1>2, FinishPlaces DEF BatchInv
  <1>4a. i \in activeTasks
    BY DEF NextReturnsResult, BatchInv, Scheduled
  <1>4. /\ activeTasks' = s.activeTasks /\ queued' = s.queued
        /\ \A j \in Calls : toolTask'[j] = IF j = i THEN "joined"
                                           ELSE IF j \in s.activeTasks \ activeTasks THEN "running" ELSE toolTask[j]
        /\ final' = [final EXCEPT ![i] = "hooks"] /\ toolTask[i] = "finished" /\ ~reaping
        /\ UNCHANGED <<accesses, batchPhase, reaping, sent, firstError, panics>>
    <2>1. /\ activeTasks' = s.activeTasks /\ queued' = s.queued
          /\ final' = [final EXCEPT ![i] = "hooks"] /\ toolTask[i] = "finished" /\ ~reaping
          /\ UNCHANGED <<accesses, batchPhase, reaping, sent, firstError, panics>>
      BY <1>1 DEF NextReturnsResult, prepareVars
    <2>2. toolTask' = [j \in Calls |-> CASE j = i -> "joined"
                                      [] j \in s.activeTasks \ activeTasks -> "running"
                                      [] OTHER -> toolTask[j]]
      BY <1>1 DEF NextReturnsResult
    <2>3. \A j \in Calls : toolTask'[j] = IF j = i THEN "joined"
                                          ELSE IF j \in s.activeTasks \ activeTasks THEN "running" ELSE toolTask[j]
      BY ONLY <2>2, <1>4a
    <2> QED BY <2>1, <2>3
  <1>5. i \in activeTasks /\ ~In(queued, i)
    BY <1>4 DEF BatchInv, Scheduled
  <1>6. \A j \in Calls : j \in s.activeTasks \/ In(s.queued, j) <=> j \in running \/ In(tasks, j)
    BY <1>3 DEF Placed, In
  <1>7. \A j \in Calls : In(s.queued, j) => j \notin s.activeTasks /\ In(tasks, j)
    BY <1>3 DEF Placed, In
  <1>8. s.activeTasks \subseteq Calls /\ s.queued \in Seq(Calls) /\ Rising(s.queued) /\ running \subseteq s.activeTasks
    BY <1>3 DEF Placed
  <1>9. \A j \in s.activeTasks \ running :
            (\A h \in running : ~conflict(j, h)) /\ \A h \in Calls : In(tasks, h) /\ h < j => ~conflict(j, h)
    BY <1>3 DEF Placed, In
  <1>10. i \notin s.activeTasks
    BY <1>2, <1>5, <1>6
  <1>11. \A j \in Calls : In(tasks, j) => toolTask[j] = "none" /\ j \notin activeTasks
    BY <1>2 DEF BatchInv, Scheduled
  <1>12. \A j \in s.activeTasks \ activeTasks : j \in Calls /\ In(tasks, j)
    BY <1>2, <1>6, <1>8
  <1>13. \A j \in s.activeTasks : j \in activeTasks \/ j \in s.activeTasks \ activeTasks
    OBVIOUS
  <1>14. NothingYet'
    BY <1>4 DEF NothingYet
  <1>15. Scheduled'
    <2>1. \A j \in Calls : In(s.queued, j) => toolTask'[j] = "none"
      BY <1>2, <1>4, <1>5, <1>7, <1>11
    <2>2. \A j \in Calls : toolTask'[j] \notin {"none", "joined"} => j \in s.activeTasks
      <3> TAKE j \in Calls
      <3>1. CASE j \in s.activeTasks \ activeTasks
        BY <3>1
      <3>2. CASE j \notin s.activeTasks \ activeTasks
        <4>1. HAVE toolTask'[j] \notin {"none", "joined"}
        <4>2. j # i /\ toolTask'[j] = toolTask[j]
          BY <4>1, <3>2, <1>4
        <4>3. j \in activeTasks
          BY <4>1, <4>2 DEF BatchInv, Scheduled
        <4> QED BY <4>2, <4>3, <1>2, <1>8
      <3> QED BY <3>1, <3>2
    <2>3. \A j \in s.activeTasks : toolTask'[j] # "none"
      <3> TAKE j \in s.activeTasks
      <3>1. j \in Calls /\ j # i
        BY <1>8, <1>10
      <3>2. CASE j \in activeTasks
        BY <3>1, <3>2, <1>4 DEF BatchInv, Scheduled
      <3>3. CASE j \notin activeTasks
        BY <3>1, <3>3, <1>4
      <3> QED BY <3>2, <3>3
    <2>4. \A j \in Calls : toolTask[j] = "none" => In(tasks, j)
      BY <1>2, <1>5 DEF BatchInv, Scheduled
    <2>5. \A j \in Calls : toolTask'[j] = "none" => In(s.queued, j)
      <3> TAKE j \in Calls
      <3>1. HAVE toolTask'[j] = "none"
      <3>2. toolTask[j] = "none"
        BY <3>1, <1>4
      <3>3. j \notin s.activeTasks
        BY <3>1, <2>3
      <3> QED BY <3>2, <3>3, <2>4, <1>6
    <2> QED BY <2>1, <2>2, <2>3, <2>5, <1>4, <1>8 DEF Scheduled
  <1>16. InOrder'
    <2> SUFFICES ASSUME NEW h \in Calls, NEW j \in Calls, h < j, toolTask'[j] = "running", conflict(h, j)'
                 PROVE  toolTask'[h] \in Over
      BY DEF InOrder
    <2>1. conflict(h, j) /\ conflict(j, h)
      BY <1>4, ConflictIsMutual DEF conflict
    <2>2. CASE j \in s.activeTasks \ activeTasks
      <3>1. j \in s.activeTasks \ running /\ h \notin running /\ ~In(tasks, h)
        BY <2>1, <2>2, <1>2, <1>9
      <3>2. h # i => toolTask[h] \in {"none", "joined"}
        BY <3>1, <1>2 DEF BatchInv, Scheduled
      <3>3. toolTask[h] # "none"
        BY <3>1, <1>2, <1>5 DEF BatchInv, Scheduled
      <3>4. h \notin s.activeTasks
        BY <3>1, <1>6
      <3> QED BY <3>2, <3>3, <3>4, <1>4 DEF Over
    <2>3. CASE j \notin s.activeTasks \ activeTasks
      <3>1. j # i /\ toolTask[j] = "running"
        BY <2>3, <1>4
      <3>2. toolTask[h] \in Over
        BY <3>1, <2>1 DEF BatchInv, InOrder
      <3>3. h \notin s.activeTasks \ activeTasks
        BY <3>2, <1>11, <1>12 DEF Over
      <3> QED BY <3>2, <3>3, <1>4 DEF Over
    <2> QED BY <2>2, <2>3
  <1>17. final[i] = "none"
    BY <1>4 DEF BatchInv, Accounted
  <1>18. \A j \in Calls : final'[j] = IF j = i THEN "hooks" ELSE final[j]
    BY <1>4 DEF BatchInv, BatchTypes, BatchTypeOK
  <1>19. Accounted'
    <2>1. \A j \in Calls : final'[j] # "none" => toolTask'[j] = "joined"
      <3> TAKE j \in Calls
      <3>1. CASE j = i
        BY <3>1, <1>4
      <3>2. CASE j # i
        <4>1. HAVE final'[j] # "none"
        <4>2. toolTask[j] = "joined"
          BY <4>1, <3>2, <1>18 DEF BatchInv, Accounted
        <4>3. j \notin s.activeTasks \ activeTasks
          BY <4>2, <1>11, <1>12
        <4> QED BY <4>2, <4>3, <3>2, <1>4
      <3> QED BY <3>1, <3>2
    <2>2. \A j \in Calls : sent'[j] = IF final'[j] = "done" THEN 1 ELSE 0
      BY <1>4, <1>17, <1>18 DEF BatchInv, Accounted
    <2>3. ASSUME panics = 0
          PROVE  /\ \A j \in Calls : toolTask'[j] \in {"none", "running", "finished", "joined"}
                 /\ \A j \in Calls : toolTask'[j] = "joined" => final'[j] # "none"
      BY <2>3, <1>4, <1>18 DEF BatchInv, Accounted
    <2> QED BY <2>1, <2>2, <2>3, <1>4 DEF BatchInv, Accounted
  <1> QED BY <1>14, <1>15, <1>16, <1>19 DEF Rest

LEMMA FinalizeKeeps == ASSUME BatchInv, NEW i \in Calls, finalize(i) PROVE Rest'
  <1>1. /\ UNCHANGED <<accesses, batchPhase, toolTask, activeTasks, queued, reaping, sent, firstError, panics>>
        /\ final[i] = "hooks"
    BY DEF finalize, prepareVars
  <1>2. \A j \in Calls : final'[j] = IF j = i THEN "ready" ELSE final[j]
    BY DEF finalize, BatchInv, BatchTypes, BatchTypeOK
  <1>3. NothingYet'
    BY <1>1, <1>2 DEF BatchInv, NothingYet
  <1>4. Scheduled' /\ InOrder'
    BY <1>1 DEF BatchInv, Scheduled, InOrder, conflict
  <1>5. Accounted'
    BY <1>1, <1>2 DEF BatchInv, Accounted
  <1> QED BY <1>3, <1>4, <1>5 DEF Rest

LEMMA FinalizationKeeps ==
    ASSUME BatchInv, batchPhase = "run", NEW i \in Calls, FinalizationReturns(i) PROVE Rest'
  <1>1. /\ UNCHANGED <<accesses, batchPhase, toolTask, activeTasks, queued, firstError, panics>>
        /\ final[i] = "ready" /\ ~reaping'
    BY DEF FinalizationReturns, prepareVars
  <1>2. \A j \in Calls : final'[j] = IF j = i THEN "done" ELSE final[j]
    BY DEF FinalizationReturns, BatchInv, BatchTypes, BatchTypeOK
  <1>3. \A j \in Calls : sent'[j] = IF j = i THEN sent[i] + 1 ELSE sent[j]
    BY DEF FinalizationReturns, BatchInv, BatchTypes
  <1>4. NothingYet'
    BY <1>1 DEF NothingYet
  <1>5. Scheduled' /\ InOrder'
    BY <1>1 DEF BatchInv, Scheduled, InOrder, conflict
  <1>6. \A j \in Calls : sent'[j] = IF final'[j] = "done" THEN 1 ELSE 0
    BY <1>1, <1>2, <1>3 DEF BatchInv, Accounted
  <1>7. Accounted'
    BY <1>1, <1>2, <1>6 DEF BatchInv, Accounted
  <1> QED BY <1>4, <1>5, <1>7 DEF Rest

\* A task of the JoinSet that ends, is aborted or is joined without a result.
LEMMA TaskKeeps ==
    ASSUME BatchInv, batchPhase = "run", UNCHANGED <<accesses, batchPhase, activeTasks, queued, final, sent, firstError>>,
           panics' \in Nat, panics' >= panics,
           \A j \in Calls : \/ toolTask'[j] = toolTask[j]
                            \/ toolTask[j] \notin {"none", "joined"} /\ toolTask'[j] \in TaskStates \ {"none", "running"},
           \A j \in Calls : toolTask[j] \in Over => toolTask'[j] \in Over,
           panics' = 0 => /\ ~reaping'
                          /\ \A j \in Calls : toolTask'[j] = toolTask[j] \/ toolTask'[j] = "finished"
    PROVE  Rest'
  <1>1. panics \in Nat
    BY BatchAssumption DEF BatchInv, BatchTypes, BatchTypeOK
  <1>2. NothingYet'
    BY DEF NothingYet
  <1>3. \A j \in Calls : (toolTask'[j] = "none" <=> toolTask[j] = "none") /\ (toolTask'[j] = "running" => toolTask[j] = "running")
    OBVIOUS
  <1>4. \A j \in Calls : toolTask'[j] \notin {"none", "joined"} => toolTask[j] \notin {"none", "joined"}
    OBVIOUS
  <1>5. panics > 0 => panics' > 0
    BY <1>1
  <1>6. activeTasks \subseteq Calls
    BY DEF BatchInv, BatchTypes, BatchTypeOK
  <1>7. Scheduled'
    BY <1>3, <1>4, <1>5, <1>6 DEF BatchInv, Scheduled
  <1>8. InOrder'
    BY <1>3 DEF BatchInv, InOrder, conflict
  <1>9. \A j \in Calls : final[j] # "none" => toolTask'[j] = "joined"
    BY DEF BatchInv, Accounted
  <1>10. panics' = 0 => panics = 0
    BY <1>1
  <1>11. Accounted'
    BY <1>9, <1>10 DEF BatchInv, Accounted
  <1> QED BY <1>2, <1>7, <1>8, <1>11 DEF Rest

\* The last task of the JoinSet is joined behind an error, and the scheduler cleared.
LEMMA ErrorKeeps ==
    ASSUME BatchInv, NEW i \in Calls, InSet = {i}, panics # 0,
           UNCHANGED <<accesses, batchPhase, final, sent, panics>>,
           \A j \in Calls : toolTask'[j] = IF j = i THEN "joined" ELSE toolTask[j],
           batchPhase = "run", ~reaping', activeTasks' = {}, queued' = <<>>
    PROVE  Rest'
  <1>1. \A j \in Calls : toolTask'[j] \in {"none", "joined"} /\ (toolTask[j] = "joined" => toolTask'[j] = "joined")
    BY DEF InSet
  <1>2. panics \in Nat /\ panics' > 0
    BY BatchAssumption DEF BatchInv, BatchTypes, BatchTypeOK
  <1>3. \A j : ~In(<<>>, j)
    BY DEF In
  <1>4. Rising(<<>>)
    BY DEF Rising
  <1>5. Scheduled'
    BY <1>1, <1>2, <1>3, <1>4 DEF Scheduled
  <1>6. InOrder'
    BY <1>1 DEF InOrder
  <1>7. NothingYet' /\ Accounted'
    BY <1>1, <1>2 DEF BatchInv, NothingYet, Accounted
  <1> QED BY <1>5, <1>6, <1>7 DEF Rest

LEMMA TasksKeep ==
    ASSUME BatchInv, batchPhase = "run", NEW i \in Calls,
           NextMeetsError(i) \/ Reap(i) \/ TaskFinishes(i) \/ TaskPanics(i) \/ AbortLands(i)
    PROVE  Rest'
  <1>1. panics \in Nat /\ toolTask \in [Calls -> TaskStates]
    BY BatchAssumption DEF BatchInv, BatchTypes, BatchTypeOK, TaskStates
  <1>2. panics = 0 => ~reaping /\ \A j \in Calls : toolTask[j] \in {"none", "running", "finished", "joined"}
    BY DEF BatchInv, Accounted
  <1>3. CASE NextMeetsError(i)
    <2>1. /\ UNCHANGED <<accesses, batchPhase, final, sent, panics>>
          /\ toolTask[i] \in {"panicked", "cancelled"} /\ Reaped(i)
          /\ toolTask' = [j \in Calls |-> CASE j = i -> "joined"
                                        [] toolTask[j] = "running" -> "aborting"
                                        [] OTHER -> toolTask[j]]
      BY <1>3 DEF NextMeetsError, prepareVars
    <2>2. \A j \in Calls : toolTask'[j] = IF j = i THEN "joined" ELSE IF toolTask[j] = "running" THEN "aborting" ELSE toolTask[j]
      BY <2>1
    <2>3. panics # 0
      BY <2>1, <1>2
    <2>4. CASE InSet = {i}
      <3>1. \A j \in Calls : j # i => toolTask[j] \in {"none", "joined"}
        BY <2>4 DEF InSet
      <3>2. \A j \in Calls : toolTask'[j] = IF j = i THEN "joined" ELSE toolTask[j]
        BY <3>1, <2>2
      <3> QED BY <3>2, <2>1, <2>3, <2>4, ErrorKeeps DEF Reaped
    <2>5. CASE InSet # {i}
      <3>1. UNCHANGED <<activeTasks, queued, firstError>>
        BY <2>1, <2>5 DEF Reaped
      <3> QED BY <3>1, <2>1, <2>2, <2>3, <1>1, TaskKeeps DEF TaskStates, Over
    <2> QED BY <2>4, <2>5
  <1>4. CASE Reap(i)
    <2>1. /\ UNCHANGED <<accesses, batchPhase, final, sent, panics>>
          /\ toolTask[i] \in {"finished", "panicked", "cancelled"} /\ reaping /\ Reaped(i)
          /\ toolTask' = [toolTask EXCEPT ![i] = "joined"]
      BY <1>4 DEF Reap, Ended, prepareVars
    <2>2. panics # 0
      BY <2>1, <1>2
    <2>3. \A j \in Calls : toolTask'[j] = IF j = i THEN "joined" ELSE toolTask[j]
      BY <2>1, <1>1
    <2>4. CASE InSet = {i}
      BY <2>1, <2>2, <2>3, <2>4, ErrorKeeps DEF Reaped
    <2>5. CASE InSet # {i}
      <3>1. UNCHANGED <<activeTasks, queued, firstError>>
        BY <2>1, <2>5 DEF Reaped
      <3> QED BY <3>1, <2>1, <2>2, <2>3, <1>1, TaskKeeps DEF TaskStates, Over
    <2> QED BY <2>4, <2>5
  <1>5. CASE TaskFinishes(i)
    <2>1. /\ UNCHANGED <<accesses, batchPhase, activeTasks, queued, reaping, final, sent, firstError, panics>>
          /\ toolTask[i] \in {"running", "aborting"}
          /\ toolTask' = [toolTask EXCEPT ![i] = "finished"]
      BY <1>5 DEF TaskFinishes, prepareVars
    <2> QED BY <2>1, <1>1, <1>2, TaskKeeps DEF TaskStates, Over
  <1>6. CASE TaskPanics(i)
    <2>1. /\ UNCHANGED <<accesses, batchPhase, activeTasks, queued, reaping, final, sent, firstError>>
          /\ toolTask[i] = "running" /\ panics' = panics + 1
          /\ toolTask' = [toolTask EXCEPT ![i] = "panicked"]
      BY <1>6 DEF TaskPanics, prepareVars
    <2>2. panics' \in Nat /\ panics' >= panics /\ panics' # 0
      BY <2>1, <1>1
    <2> QED BY <2>1, <2>2, <1>1, TaskKeeps DEF TaskStates, Over
  <1>7. CASE AbortLands(i)
    <2>1. /\ UNCHANGED <<accesses, batchPhase, activeTasks, queued, final, sent, firstError, panics>>
          /\ toolTask[i] = "aborting"
          /\ toolTask' = [toolTask EXCEPT ![i] = "cancelled"]
      BY <1>7 DEF AbortLands, prepareVars
    <2>2. panics # 0
      BY <2>1, <1>2
    <2> QED BY <2>1, <2>2, <1>1, TaskKeeps DEF TaskStates, Over
  <1> QED BY <1>3, <1>4, <1>5, <1>6, <1>7

\* The end: with nothing pending every call has been joined, and with no panic finalized.
LEMMA EndKeeps == ASSUME BatchInv, batchPhase = "run", BatchEnds \/ SelectPanics PROVE Rest'
  <1>1. /\ UNCHANGED <<accesses, toolTask, activeTasks, queued, reaping, final, sent, firstError, panics>>
        /\ batchPhase' \in {"done", "failed", "panicked"}
        /\ InSet = {} /\ Finalizing = {} /\ (batchPhase' = "done" => queued = <<>>)
    BY DEF BatchEnds, SelectPanics, has_pending, execute_Returns, prepareVars
  <1>2. NothingYet'
    BY <1>1 DEF NothingYet
  <1>3. Scheduled' /\ InOrder'
    BY <1>1 DEF BatchInv, Scheduled, InOrder, conflict
  <1>4. ASSUME panics = 0, batchPhase' = "done", NEW i \in Calls PROVE final[i] = "done"
    <2>1. ~In(queued, i)
      BY <1>1, <1>4 DEF In
    <2>2. toolTask[i] # "none"
      BY <2>1, <1>4 DEF BatchInv, Scheduled
    <2>3. toolTask[i] = "joined"
      BY <2>2, <1>1 DEF InSet
    <2>4. final[i] # "none"
      BY <2>3, <1>4 DEF BatchInv, Accounted
    <2> QED BY <2>4, <1>1 DEF Finalizing
  <1>5. Accounted'
    BY <1>1, <1>4 DEF BatchInv, Accounted
  <1> QED BY <1>2, <1>3, <1>5 DEF Rest

-----------------------------------------------------------------------------
LEMMA BatchInvStep == BatchInv /\ [BatchStep]_batchVars => BatchInv'
  <1> SUFFICES ASSUME BatchInv, [BatchStep]_batchVars PROVE BatchInv'
    OBVIOUS
  <1>1. BatchTypes /\ Scheduled
    BY DEF BatchInv
  <1>2. CASE execute
    BY <1>1, <1>2, ExecuteTyped, EarlyKeeps DEF BatchInv, Rest
  <1>3. CASE PrepareOne
    BY <1>1, <1>3, PrepareTyped, EarlyKeeps DEF BatchInv, Rest
  <1>4. CASE Schedule
    BY <1>1, <1>4, ScheduleTyped, ScheduleKeeps DEF BatchInv, Rest
  <1>5. ASSUME batchPhase = "run", NEW i \in Calls, NextReturnsResult(i) PROVE BatchInv'
    BY <1>1, <1>5, ResultTyped, ResultKeeps DEF BatchInv, Rest
  <1>6. ASSUME batchPhase = "run", NEW i \in Calls, finalize(i) PROVE BatchInv'
    BY <1>1, <1>6, FinalizeTyped, FinalizeKeeps DEF BatchInv, Rest
  <1>7. ASSUME batchPhase = "run", OtherStep PROVE BatchInv'
    <2>1. BatchTypes'
      BY <1>1, <1>7, OtherTyped
    <2>2. Rest'
      BY <1>7, TasksKeep, FinalizationKeeps, EndKeeps DEF OtherStep
    <2> QED BY <2>1, <2>2 DEF BatchInv, Rest
  <1>8. CASE RunStep
    BY <1>5, <1>6, <1>7, <1>8 DEF RunStep, ExecutorStep, OtherStep
  <1>9. CASE UNCHANGED batchVars
    <2>1. BatchTypes'
      BY <1>1, <1>9 DEF batchVars, BatchTypes, BatchTypeOK
    <2>2. NothingYet' /\ Scheduled' /\ Accounted'
      BY <1>9 DEF batchVars, BatchInv, NothingYet, Scheduled, Accounted
    <2>3. InOrder'
      BY <1>9 DEF batchVars, BatchInv, InOrder, conflict
    <2> QED BY <2>1, <2>2, <2>3 DEF BatchInv
  <1> QED BY <1>2, <1>3, <1>4, <1>8, <1>9 DEF BatchStep

\* The invariant, of every batch.
THEOREM BatchInvariant == BatchSpec => []BatchInv
  <1>1. BatchInit => BatchInv
    BY BatchTypesInit, RestInit DEF BatchInv, Rest
  <1> QED BY <1>1, BatchInvStep, PTL DEF BatchSpec

\* The types of execute's, the scheduler's and tool_dedupe's state.
THEOREM BatchTypeCorrect == BatchSpec => []BatchTypeOK
  <1>1. BatchInv => BatchTypeOK
    BY DEF BatchInv, BatchTypes
  <1> QED BY <1>1, BatchInvariant, PTL

\* Calls that interfere never overlap, and run in the order of the batch (tool_scheduler.rs),
\* whatever the calls are and whichever of them end, panic or are aborted, if no call declares a
\* recursive access at the root.
THEOREM ConflictingCallsInOrder ==
    ASSUME NEW C, AccessesOK(C)
    PROVE  BatchSpec => []ConflictsRunInOrder
  <1>1. BatchInv => ConflictsRunInOrder
    <2> SUFFICES ASSUME BatchInv, NEW i \in Calls, NEW j \in Calls, i < j, toolTask[j] = "running", Interfere(i, j)
                 PROVE  toolTask[i] \in Over
      BY DEF ConflictsRunInOrder, Over
    <2>1. conflict(i, j)
      BY InterferenceConflicts DEF BatchInv, BatchTypes
    <2> QED BY <2>1 DEF BatchInv, InOrder
  <1> QED BY <1>1, BatchInvariant, PTL

\* The stream of execute carries at most one result of a call, and one of each when the batch
\* ends with no error and no panic.
THEOREM OneResultPerCall == BatchSpec => []OneResultEach
  <1>1. BatchInv => OneResultEach
    BY DEF BatchInv, Accounted, OneResultEach
  <1> QED BY <1>1, BatchInvariant, PTL

-----------------------------------------------------------------------------
(***************************************************************************)
(* execute can go on: the calls that opened a key, their duplicates, and   *)
(* the tasks next() still has to reap.                                     *)
(***************************************************************************)
Opens == {"blocked", "substituted", "run"}

\* next() reaps while there is a task to join.
Reapable == reaping => InSet # {}

\* The calls are prepared in order.
InTurn ==
    /\ \A i \in Calls : i >= preparing => form[i] = "none"
    /\ batchPhase = "idle" => DOMAIN deferreds = {} /\ \A i \in Calls : form[i] = "none"

\* One call opens a key, which is in deferreds until that call is finalized.
OneOpener ==
    /\ \A i, j \in Calls : form[i] \in Opens /\ form[j] \in Opens /\ keyOf[i] = keyOf[j] => i = j
    /\ batchPhase = "prepare" => \A j \in Calls : form[j] \in Opens => keyOf[j] \in DOMAIN deferreds
    /\ batchPhase \in {"prepare", "run"} =>
           \A k \in DOMAIN deferreds : \E j \in Calls : form[j] \in Opens /\ keyOf[j] = k
    /\ \A j \in Calls : form[j] \in {"substituted", "run"} /\ final[j] \in {"ready", "done"} =>
           keyOf[j] \notin DOMAIN deferreds

\* A duplicate has been told or is registered with its key, which a call has opened.
Registered ==
    batchPhase \in {"prepare", "run"} =>
        \A i \in Calls : form[i] = "duplicate" =>
            /\ \E j \in Calls : form[j] \in Opens /\ keyOf[j] = keyOf[i]
            /\ i \in told \/ (keyOf[i] \in DOMAIN deferreds /\ i \in deferreds[keyOf[i]])

DuplicatesInv == Reapable /\ InTurn /\ OneOpener /\ Registered

LEMMA DuplicatesInit == BatchInit => DuplicatesInv
  <1>1. DOMAIN <<>> = {}
    OBVIOUS
  <1> QED BY <1>1 DEF BatchInit, DuplicatesInv, Reapable, InTurn, OneOpener, Registered, Opens

\* next() starts or goes on to reap only while a task is left.
LEMMA ReapableKeeps == ASSUME BatchInv, Reapable, BatchStep PROVE Reapable'
  <1>1. CASE execute \/ PrepareOne
    <2>1. UNCHANGED <<toolTask, reaping>>
      BY <1>1 DEF execute, PrepareOne, Prepared, Skip, Reject, Resolve, Deduplicate, Block, Substitute, Allow, HookFails
    <2> QED BY <2>1 DEF Reapable, InSet
  <1>2. CASE Schedule
    BY <1>2 DEF Schedule, BatchInv, NothingYet, Reapable
  <1>3. toolTask \in [Calls -> TaskStates]
    BY DEF BatchInv, BatchTypes, BatchTypeOK, TaskStates
  <1>4. ASSUME NEW i \in Calls, NextReturnsResult(i) \/ FinalizationReturns(i) PROVE Reapable'
    BY <1>4 DEF NextReturnsResult, FinalizationReturns, Reapable
  <1>5. ASSUME NEW i \in Calls, i \in InSet, Reaped(i), \A j \in InSet : j # i => toolTask'[j] \notin {"none", "joined"}
        PROVE  Reapable'
    <2>1. CASE InSet = {i}
      BY <1>5, <2>1 DEF Reaped, Reapable
    <2>2. CASE InSet # {i}
      <3>1. PICK j \in InSet : j # i
        BY <1>5, <2>2
      <3> QED BY <3>1, <1>5 DEF InSet, Reapable
    <2> QED BY <2>1, <2>2
  <1>6. ASSUME NEW i \in Calls, NextMeetsError(i) PROVE Reapable'
    <2>1. toolTask[i] \in {"panicked", "cancelled"} /\ Reaped(i)
      BY <1>6 DEF NextMeetsError
    <2>2. \A j \in Calls : j # i => toolTask'[j] = IF toolTask[j] = "running" THEN "aborting" ELSE toolTask[j]
      BY <1>6 DEF NextMeetsError
    <2> QED BY <2>1, <2>2, <1>5 DEF InSet
  <1>7. ASSUME NEW i \in Calls, Reap(i) PROVE Reapable'
    BY <1>3, <1>5, <1>7 DEF Reap, Ended, InSet
  <1>8. ASSUME NEW i \in Calls, TaskFinishes(i) \/ TaskPanics(i) \/ AbortLands(i) PROVE Reapable'
    <2>1. /\ reaping' = reaping /\ toolTask[i] \notin {"none", "joined"} /\ toolTask'[i] \notin {"none", "joined"}
          /\ \A j \in Calls : j # i => toolTask'[j] = toolTask[j]
      BY <1>3, <1>8 DEF TaskFinishes, TaskPanics, AbortLands
    <2> QED BY <2>1 DEF Reapable, InSet
  <1>9. ASSUME NEW i \in Calls, finalize(i) PROVE Reapable'
    BY <1>9 DEF finalize, Reapable, InSet
  <1>10. CASE BatchEnds \/ SelectPanics
    BY <1>10 DEF BatchEnds, SelectPanics, execute_Returns, Reapable, InSet
  <1> QED BY <1>1, <1>2, <1>4, <1>6, <1>7, <1>8, <1>9, <1>10 DEF BatchStep, RunStep, ExecutorStep

\* A call is prepared: what check_tool_call makes of its key.
LEMMA PrepareKeepsDuplicates ==
    ASSUME BatchInv, DuplicatesInv, PrepareOne PROVE InTurn' /\ OneOpener' /\ Registered'
  <1>1. PICK i \in Calls : i = preparing
    BY BatchAssumption DEF PrepareOne, BatchInv, BatchTypes, BatchTypeOK, Calls
  <1>2. /\ batchPhase = "prepare" /\ form[i] = "none" /\ \A j \in Calls : final[j] = "none"
    BY <1>1 DEF PrepareOne, BatchInv, NothingYet, DuplicatesInv, InTurn, Calls
  <1>3. keyOf \in [Calls -> Calls] /\ form \in [Calls -> {"none", "rejected", "answered", "duplicate"} \cup Opens] /\ preparing \in Int
    BY BatchAssumption DEF BatchInv, BatchTypes, BatchTypeOK, Opens
  <1>4. ASSUME NEW f, NEW stops, Prepared(f, stops), batchPhase' = batchPhase
        PROVE  /\ \A j \in Calls : form'[j] = IF j = i THEN f ELSE form[j]
               /\ keyOf' = keyOf /\ told' = told /\ final' = final /\ batchPhase' = "prepare"
               /\ InTurn'
    <2>1. /\ \A j \in Calls : form'[j] = IF j = i THEN f ELSE form[j]
          /\ keyOf' = keyOf /\ told' = told /\ final' = final /\ batchPhase' = "prepare" /\ preparing' = i + 1
      BY <1>1, <1>2, <1>3, <1>4 DEF Prepared
    <2>2. \A j \in Calls : j >= i + 1 => j >= i /\ j # i
      BY DEF Calls
    <2>3. InTurn'
      BY <1>1, <2>1, <2>2 DEF DuplicatesInv, InTurn
    <2> QED BY <2>1, <2>3
  <1>5. ASSUME NEW f \in {"rejected", "answered"}, NEW stops, Prepared(f, stops), UNCHANGED <<batchPhase, deferreds>>
        PROVE  InTurn' /\ OneOpener' /\ Registered'
    <2>1. /\ \A j \in Calls : form'[j] = IF j = i THEN f ELSE form[j]
          /\ keyOf' = keyOf /\ told' = told /\ final' = final /\ batchPhase' = "prepare" /\ deferreds' = deferreds
          /\ InTurn'
      BY <1>4, <1>5
    <2>2. \A j \in Calls : (form'[j] \in Opens <=> form[j] \in Opens) /\ (form'[j] = "duplicate" => form[j] = "duplicate")
      BY <2>1, <1>2 DEF Opens
    <2>3. OneOpener'
      BY <2>1, <2>2, <1>2 DEF DuplicatesInv, OneOpener
    <2>4. Registered'
      BY <2>1, <2>2, <1>2 DEF DuplicatesInv, Registered
    <2> QED BY <2>1, <2>3, <2>4
  <1>6. CASE Deduplicate
    <2>1. /\ \A j \in Calls : form'[j] = IF j = i THEN "duplicate" ELSE form[j]
          /\ keyOf' = keyOf /\ told' = told /\ final' = final /\ batchPhase' = "prepare"
          /\ InTurn'
      BY <1>4, <1>6 DEF Deduplicate
    <2>2. keyOf[i] \in DOMAIN deferreds /\ deferreds' = [deferreds EXCEPT ![keyOf[i]] = @ \union {i}]
      BY <1>1, <1>6 DEF Deduplicate, check_tool_call
    <2>3. /\ DOMAIN deferreds' = DOMAIN deferreds /\ i \in deferreds'[keyOf[i]]
          /\ \A k \in DOMAIN deferreds : deferreds[k] \subseteq deferreds'[k]
      BY <2>2
    <2>4. \A j \in Calls : (form'[j] \in Opens <=> form[j] \in Opens) /\ (form'[j] = "duplicate" => j = i \/ form[j] = "duplicate")
      BY <2>1, <1>2 DEF Opens
    <2>5. OneOpener'
      BY <2>1, <2>3, <2>4, <1>2 DEF DuplicatesInv, OneOpener
    <2>6. \E j \in Calls : form[j] \in Opens /\ keyOf[j] = keyOf[i]
      BY <2>2, <1>2 DEF DuplicatesInv, OneOpener
    <2>7. Registered'
      BY <2>1, <2>2, <2>3, <2>4, <2>6, <1>2 DEF DuplicatesInv, Registered
    <2> QED BY <2>1, <2>5, <2>7
  <1>7. ASSUME keyOf[i] \notin DOMAIN deferreds, check_tool_call(i)
        PROVE  /\ DOMAIN deferreds' = DOMAIN deferreds \union {keyOf[i]}
               /\ \A k \in DOMAIN deferreds : deferreds'[k] = deferreds[k]
    BY <1>7 DEF check_tool_call
  <1>8. ASSUME NEW f \in Opens, NEW stops, FirstOfItsKey, check_tool_call(preparing), Prepared(f, stops),
               batchPhase' = batchPhase
        PROVE  InTurn' /\ OneOpener' /\ Registered'
    <2>1. /\ \A j \in Calls : form'[j] = IF j = i THEN f ELSE form[j]
          /\ keyOf' = keyOf /\ told' = told /\ final' = final /\ batchPhase' = "prepare"
          /\ InTurn'
      BY <1>4, <1>8
    <2>2. keyOf[i] \notin DOMAIN deferreds
      BY <1>1, <1>8 DEF FirstOfItsKey
    <2>3. /\ DOMAIN deferreds' = DOMAIN deferreds \union {keyOf[i]}
          /\ \A k \in DOMAIN deferreds : deferreds'[k] = deferreds[k]
      BY <2>2, <1>1, <1>7, <1>8
    <2>4. \A j \in Calls : form[j] \in Opens => form'[j] \in Opens /\ keyOf[j] # keyOf[i]
      BY <2>1, <2>2, <1>2 DEF DuplicatesInv, OneOpener, Opens
    <2>5. \A j \in Calls : form'[j] = "duplicate" => form[j] = "duplicate"
      BY <2>1 DEF Opens
    <2>6. \A j \in Calls : form'[j] \in Opens => j = i \/ form[j] \in Opens
      BY <2>1
    <2>7. OneOpener'
      <3>1. \A g, h \in Calls : form'[g] \in Opens /\ form'[h] \in Opens /\ keyOf[g] = keyOf[h] => g = h
        BY <2>4, <2>6 DEF DuplicatesInv, OneOpener
      <3>2. \A j \in Calls : form'[j] \in Opens => keyOf[j] \in DOMAIN deferreds'
        BY <2>3, <2>6, <1>2 DEF DuplicatesInv, OneOpener
      <3>3. \A k \in DOMAIN deferreds' : \E j \in Calls : form'[j] \in Opens /\ keyOf[j] = k
        <4> TAKE k \in DOMAIN deferreds'
        <4>1. CASE k = keyOf[i]
          BY <4>1, <2>1
        <4>2. CASE k # keyOf[i]
          BY <4>2, <2>3, <2>4, <1>2 DEF DuplicatesInv, OneOpener
        <4> QED BY <4>1, <4>2
      <3> QED BY <3>1, <3>2, <3>3, <2>1, <1>2 DEF OneOpener
    <2>8. Registered'
      BY <2>1, <2>3, <2>4, <2>5, <1>2 DEF DuplicatesInv, Registered
    <2> QED BY <2>1, <2>7, <2>8
  <1>9. CASE HookFails
    BY <1>2, <1>9 DEF HookFails, DuplicatesInv, InTurn, OneOpener, Registered
  <1>10. CASE Skip
    BY <1>5, <1>10 DEF Skip
  <1>11. CASE Reject
    BY <1>5, <1>11 DEF Reject
  <1>12. CASE Resolve
    BY <1>5, <1>12 DEF Resolve
  <1>13. CASE Block
    BY <1>8, <1>13 DEF Block, Opens
  <1>14. CASE Substitute
    BY <1>8, <1>14 DEF Substitute, Opens
  <1>15. CASE Allow
    BY <1>8, <1>15 DEF Allow, Opens
  <1> QED BY <1>6, <1>9, <1>10, <1>11, <1>12, <1>13, <1>14, <1>15 DEF PrepareOne

\* The finalization of the call that opened a key tells its duplicates and closes the key.
LEMMA FinalizeKeepsDuplicates ==
    ASSUME BatchInv, DuplicatesInv, batchPhase = "run", NEW i \in Calls, finalize(i)
    PROVE  InTurn' /\ OneOpener' /\ Registered'
  <1>1. UNCHANGED <<keyOf, preparing, form, batchPhase>> /\ final[i] = "hooks"
    BY DEF finalize, prepareVars
  <1>2. \A j \in Calls : final'[j] = IF j = i THEN "ready" ELSE final[j]
    BY DEF finalize, BatchInv, BatchTypes, BatchTypeOK
  <1>3. InTurn'
    BY <1>1 DEF DuplicatesInv, InTurn
  <1>4. CASE form[i] \in {"run", "substituted"} /\ keyOf[i] \in DOMAIN deferreds
    <2>1. /\ told' = told \union deferreds[keyOf[i]]
          /\ DOMAIN deferreds' = DOMAIN deferreds \ {keyOf[i]}
          /\ \A k \in DOMAIN deferreds \ {keyOf[i]} : deferreds'[k] = deferreds[k]
      BY <1>4 DEF finalize, finalize_result, Restrict
    <2>2. OneOpener'
      BY <2>1, <1>1, <1>2 DEF DuplicatesInv, OneOpener, Opens
    <2>3. Registered'
      BY <2>1, <1>1 DEF DuplicatesInv, Registered
    <2> QED BY <2>2, <2>3, <1>3
  <1>5. CASE ~(form[i] \in {"run", "substituted"} /\ keyOf[i] \in DOMAIN deferreds)
    <2>1. UNCHANGED <<told, deferreds>>
      BY <1>5 DEF finalize, finalize_result
    <2>2. OneOpener'
      BY <2>1, <1>1, <1>2, <1>5 DEF DuplicatesInv, OneOpener
    <2>3. Registered'
      BY <2>1, <1>1 DEF DuplicatesInv, Registered
    <2> QED BY <2>2, <2>3, <1>3
  <1> QED BY <1>4, <1>5

\* No other step touches the keys.
LEMMA OthersKeepDuplicates ==
    ASSUME BatchInv, DuplicatesInv,
           execute \/ Schedule \/ (batchPhase = "run" /\ (OtherStep \/ \E i \in Calls : NextReturnsResult(i)))
    PROVE  InTurn' /\ OneOpener' /\ Registered'
  <1>1. CASE execute
    BY <1>1 DEF execute, DuplicatesInv, InTurn, OneOpener, Registered, Opens
  <1>2. CASE Schedule
    BY <1>2 DEF Schedule, prepareVars, DuplicatesInv, InTurn, OneOpener, Registered
  <1>3. ASSUME batchPhase = "run", UNCHANGED <<prepareVars, deferreds, told>>, batchPhase' # "idle", batchPhase' # "prepare",
               \A j \in Calls : final'[j] \in {"ready", "done"} => final[j] \in {"ready", "done"}
        PROVE  InTurn' /\ OneOpener' /\ Registered'
    BY <1>3 DEF prepareVars, DuplicatesInv, InTurn, OneOpener, Registered
  <1>4. final \in [Calls -> {"none", "hooks", "ready", "done"}]
    BY DEF BatchInv, BatchTypes, BatchTypeOK
  <1>5. ASSUME batchPhase = "run", NEW i \in Calls, NextReturnsResult(i) PROVE InTurn' /\ OneOpener' /\ Registered'
    <2>1. UNCHANGED <<prepareVars, deferreds, told, batchPhase>> /\ final' = [final EXCEPT ![i] = "hooks"]
      BY <1>5 DEF NextReturnsResult
    <2>2. \A j \in Calls : final'[j] \in {"ready", "done"} => final[j] \in {"ready", "done"}
      BY <2>1, <1>4
    <2> QED BY <2>1, <2>2, <1>3, <1>5
  <1>6. ASSUME batchPhase = "run", NEW i \in Calls, FinalizationReturns(i) PROVE InTurn' /\ OneOpener' /\ Registered'
    <2>1. /\ UNCHANGED <<prepareVars, deferreds, told, batchPhase>>
          /\ final[i] = "ready" /\ final' = [final EXCEPT ![i] = "done"]
      BY <1>6 DEF FinalizationReturns
    <2>2. \A j \in Calls : final'[j] \in {"ready", "done"} => final[j] \in {"ready", "done"}
      BY <2>1, <1>4
    <2> QED BY <2>1, <2>2, <1>3, <1>6
  <1>7. ASSUME batchPhase = "run", NEW i \in Calls,
               NextMeetsError(i) \/ Reap(i) \/ TaskFinishes(i) \/ TaskPanics(i) \/ AbortLands(i)
        PROVE  InTurn' /\ OneOpener' /\ Registered'
    <2>1. UNCHANGED <<prepareVars, deferreds, told, batchPhase, final>>
      BY <1>7 DEF NextMeetsError, Reap, TaskFinishes, TaskPanics, AbortLands
    <2> QED BY <2>1, <1>3, <1>7
  <1>8. ASSUME batchPhase = "run", BatchEnds \/ SelectPanics PROVE InTurn' /\ OneOpener' /\ Registered'
    <2>1. UNCHANGED <<prepareVars, deferreds, told, final>> /\ batchPhase' \in {"done", "failed", "panicked"}
      BY <1>8 DEF BatchEnds, SelectPanics, execute_Returns
    <2> QED BY <2>1, <1>3, <1>8
  <1> QED BY <1>1, <1>2, <1>5, <1>6, <1>7, <1>8 DEF OtherStep

LEMMA DuplicatesStep == BatchInv /\ DuplicatesInv /\ [BatchStep]_batchVars => DuplicatesInv'
  <1> SUFFICES ASSUME BatchInv, DuplicatesInv, [BatchStep]_batchVars PROVE DuplicatesInv'
    OBVIOUS
  <1>1. CASE BatchStep
    <2>1. Reapable'
      BY <1>1, ReapableKeeps DEF DuplicatesInv
    <2>2. InTurn' /\ OneOpener' /\ Registered'
      <3>1. CASE PrepareOne
        BY <3>1, PrepareKeepsDuplicates
      <3>2. CASE execute \/ Schedule
        BY <3>2, OthersKeepDuplicates
      <3>3. CASE RunStep
        <4>1. batchPhase = "run" /\ (OtherStep \/ \E i \in Calls : NextReturnsResult(i) \/ finalize(i))
          BY <3>3 DEF RunStep, ExecutorStep, OtherStep
        <4> QED BY <4>1, FinalizeKeepsDuplicates, OthersKeepDuplicates
      <3> QED BY <1>1, <3>1, <3>2, <3>3 DEF BatchStep
    <2> QED BY <2>1, <2>2 DEF DuplicatesInv
  <1>2. CASE UNCHANGED batchVars
    BY <1>2 DEF batchVars, DuplicatesInv, Reapable, InSet, InTurn, OneOpener, Registered
  <1> QED BY <1>1, <1>2

\* Two calls never open one key, and a duplicate is always told or registered with a key that a
\* call has opened (tool_dedupe's check_tool_call and finalize_result).
THEOREM DuplicatesInvariant == BatchSpec => [](BatchInv /\ DuplicatesInv)
  <1>1. BatchInit => DuplicatesInv
    BY DuplicatesInit
  <1>2. BatchInit => BatchInv
    BY BatchTypesInit, RestInit DEF BatchInv, Rest
  <1> QED BY <1>1, <1>2, BatchInvStep, DuplicatesStep, PTL DEF BatchSpec

\* A duplicate that waits, with no task left and no finalization that could go on, is an orphan.
LEMMA WaitingIsOrphaned ==
    ASSUME BatchInv, DuplicatesInv, batchPhase = "run", InSet = {}, NEW i \in Finalizing,
           \A j \in Finalizing : form[j] = "duplicate" /\ final[j] = "hooks" /\ j \notin told
    PROVE  Orphaned(i)
  <1>1. i \in Calls /\ form[i] = "duplicate" /\ final[i] = "hooks" /\ i \notin told
    BY DEF Finalizing
  <1>2. PICK j : j = Original(i)
    OBVIOUS
  <1>3. j \in Calls /\ keyOf[j] = keyOf[i] /\ form[j] \in {"blocked", "substituted", "run"}
    <2>1. \E h \in Calls : keyOf[h] = keyOf[i] /\ form[h] \in {"blocked", "substituted", "run"}
      BY <1>1 DEF DuplicatesInv, Registered, Opens
    <2> QED BY <2>1, <1>2 DEF Original
  <1>4. toolTask[j] \in {"none", "joined"}
    BY <1>3 DEF InSet
  <1>5. ASSUME form[j] # "blocked", toolTask[j] = "joined", final[j] # "none" PROVE FALSE
    <2>1. CASE final[j] = "done"
      <3>1. keyOf[i] \notin DOMAIN deferreds
        BY <2>1, <1>3, <1>5 DEF DuplicatesInv, OneOpener
      <3> QED BY <3>1, <1>1 DEF DuplicatesInv, Registered
    <2>2. CASE final[j] # "done"
      BY <2>2, <1>3, <1>5 DEF Finalizing
    <2> QED BY <2>1, <2>2
  <1> QED BY <1>1, <1>2, <1>4, <1>5 DEF Orphaned

\* execute always has something to go on with, unless a duplicate's original was blocked or lost:
\* a call to prepare, a task of the JoinSet, a finalization that waits for nobody, or its end.
THEOREM BatchCanGoOn ==
    BatchSpec => [](batchPhase \in {"prepare", "run"} /\ (\A i \in Calls : ~Orphaned(i)) => CanGoOn)
  <1>1. BatchInv /\ DuplicatesInv =>
            (batchPhase \in {"prepare", "run"} /\ (\A i \in Calls : ~Orphaned(i)) => CanGoOn)
    <2> SUFFICES ASSUME BatchInv, DuplicatesInv, batchPhase = "run", \A i \in Calls : ~Orphaned(i), InSet = {},
                        \A i \in Finalizing : form[i] = "duplicate" /\ final[i] = "hooks" /\ i \notin told,
                        Finalizing # {} \/ reaping
                 PROVE  FALSE
      BY DEF CanGoOn
    <2>1. ~reaping
      BY DEF DuplicatesInv, Reapable
    <2>2. PICK i \in Finalizing : TRUE
      BY <2>1
    <2>3. Orphaned(i)
      BY WaitingIsOrphaned
    <2> QED BY <2>3 DEF Finalizing
  <1> QED BY <1>1, DuplicatesInvariant, PTL
=============================================================================
