-------------------------- MODULE Interaction_proofs --------------------------
(***************************************************************************)
(* Proofs about the session's interactions, for any number of requests,    *)
(* agents, ids and turns.                                                  *)
(***************************************************************************)
EXTENDS Interaction, FiniteSetTheorems, TLAPS

(***************************************************************************)
(* The inductive invariant.                                                *)
(***************************************************************************)
Pcs == {"idle", "spawned", "waiting", "checking", "draining", "withdrawing", "returned"}
Waits == {"waiting", "checking", "draining", "withdrawing"}

AskTypes ==
    /\ AskTypeOK
    /\ ask \in [Asks -> [kind : {"none", "approval", "userTool", "question", "background"},
                         id : Nat, agent : Nat, turn : Nat]]
    /\ order \in Seq(AskIds)
    /\ \A r \in Asks : askPc[r] # "idle" => ask[r].id \in AskIds /\ ask[r].agent \in SessionAgents

\* An entry is that of a request that was made under its id, and that nobody
\* has answered; a background question leaves no entry behind.
EntriesAreOpen ==
    \A i \in AskIds : LET r == parked[i] IN
        r # NoAsk =>
            /\ ask[r].id = i
            /\ askPc[r] \notin {"idle", "spawned"}
            /\ hand[r] = "none"
            /\ askPc[r] # "returned" => channel[r] = "empty"
            /\ askPc[r] = "returned" => InTurn(r)

\* A turn does not end while a request that is part of it waits.
TurnsLast ==
    \A r \in Asks : InTurn(r) /\ askPc[r] \in Waits => turnOf[ask[r].agent] = ask[r].turn

\* Only background tasks are spawned.
SpawnedInBackground == \A r \in Asks : askPc[r] = "spawned" => ~InTurn(r)

\* Nothing is sent to a request that is yet to be parked.
Untouched ==
    \A r \in Asks : askPc[r] \in {"idle", "spawned"} => channel[r] = "empty" /\ hand[r] = "none"

AskInv == /\ AskTypes /\ EntriesAreOpen /\ TurnsLast /\ SpawnedInBackground /\ Untouched
          /\ WaitingIsPending /\ EntriesAreSwept

-----------------------------------------------------------------------------
(***************************************************************************)
(* What Vec::retain leaves.                                                *)
(***************************************************************************)
Kept(seq, ids) == {n \in DOMAIN seq : seq[n] \notin ids}
Rank(kept, n) == Cardinality({m \in kept : m <= n})

\* The ranks of a finite set of positions are 1, 2, ..., each taken once.
LEMMA RanksAreUnique ==
    ASSUME NEW kept \in SUBSET Nat, IsFiniteSet(kept)
    PROVE  /\ Cardinality(kept) \in Nat
           /\ \A n \in kept : Rank(kept, n) \in 1 .. Cardinality(kept)
           /\ \A n, p \in kept : Rank(kept, n) = Rank(kept, p) => n = p
           /\ \A k \in 1 .. Cardinality(kept) : \E n \in kept : Rank(kept, n) = k
  <1> DEFINE N == Cardinality(kept)
             below(n) == {m \in kept : m <= n}
  <1>1. N \in Nat
    BY FS_CardinalityType
  <1>2. ASSUME NEW n \in kept
        PROVE  IsFiniteSet(below(n)) /\ Rank(kept, n) \in Nat /\ Rank(kept, n) <= N
    <2>1. below(n) \in SUBSET kept
      OBVIOUS
    <2>2. IsFiniteSet(below(n)) /\ Cardinality(below(n)) <= N
      BY <2>1, FS_Subset
    <2>3. Cardinality(below(n)) \in Nat
      BY <2>2, FS_CardinalityType
    <2> QED BY <2>2, <2>3 DEF Rank
  <1>3. ASSUME NEW n \in kept PROVE Rank(kept, n) \in 1 .. N
    <2>1. n \in below(n)
      OBVIOUS
    <2>2. Cardinality(below(n)) # 0
      BY <1>2, <2>1, FS_EmptySet
    <2> QED BY <1>1, <1>2, <2>2 DEF Rank
  <1>4. ASSUME NEW n \in kept, NEW p \in kept, n < p PROVE Rank(kept, n) # Rank(kept, p)
    <2>0. n \in Nat /\ p \in Nat /\ \A m \in kept : m \in Nat
      OBVIOUS
    <2>a. \A m \in kept : m <= n => m <= p
      BY <2>0, <1>4
    <2>b. p <= p /\ ~(p <= n)
      BY <2>0, <1>4
    <2>1. below(n) \in SUBSET below(p) /\ p \in below(p) /\ p \notin below(n)
      BY <2>a, <2>b
    <2>2. below(n) # below(p)
      BY <2>1
    <2>3. Cardinality(below(n)) # Cardinality(below(p))
      BY <2>1, <2>2, <1>2, FS_Subset
    <2> QED BY <2>3 DEF Rank
  <1>5. \A n, p \in kept : Rank(kept, n) = Rank(kept, p) => n = p
    <2> SUFFICES ASSUME NEW n \in kept, NEW p \in kept, n # p PROVE Rank(kept, n) # Rank(kept, p)
      OBVIOUS
    <2>1. n < p \/ p < n
      OBVIOUS
    <2> QED BY <2>1, <1>4
  <1>6. \A k \in 1 .. N : \E n \in kept : Rank(kept, n) = k
    <2> DEFINE f == [n \in kept |-> Rank(kept, n)]
    <2>1. IsFiniteSet(1 .. N) /\ Cardinality(1 .. N) = N
      <3>1. PICK b \in Int : b = N
        BY <1>1
      <3>2. IsFiniteSet(1 .. b) /\ Cardinality(1 .. b) = IF 1 > b THEN 0 ELSE b - 1 + 1
        BY FS_Interval
      <3> QED BY <1>1, <3>1, <3>2
    <2>2. f \in [kept -> 1 .. N] /\ \A n, p \in kept : f[n] = f[p] => n = p
      BY <1>3, <1>5
    <2>3. f \in Injection(kept, 1 .. N)
      BY <2>2 DEF Injection, IsInjective
    <2>4. f \in Surjection(kept, 1 .. N)
      BY <2>1, <2>3, FS_Injection
    <2>5. \A k \in 1 .. N : \E n \in kept : f[n] = k
      BY <2>4 DEF Surjection
    <2> QED BY <2>5
  <1> QED BY <1>1, <1>3, <1>5, <1>6

\* The entries that are kept are the elements of what is left.
LEMMA RetainedRange ==
    ASSUME NEW seq \in Seq(AskIds), NEW ids
    PROVE  /\ Retained(seq, ids) \in Seq(AskIds)
           /\ Range(Retained(seq, ids)) = Range(seq) \ ids
  <1> DEFINE kept == Kept(seq, ids)
             N == Cardinality(kept)
             nth(k) == CHOOSE n \in kept : Rank(kept, n) = k
  <1>1. DOMAIN seq = 1 .. Len(seq) /\ Len(seq) \in Nat
    OBVIOUS
  <1>2. kept \in SUBSET (1 .. Len(seq)) /\ kept \in SUBSET Nat
    BY <1>1 DEF Kept
  <1>3. IsFiniteSet(kept)
    <2>0. Len(seq) \in Int
      BY <1>1
    <2>1. PICK b \in Int : b = Len(seq)
      BY <2>0, Zenon
    <2>2. IsFiniteSet(1 .. b)
      BY FS_Interval
    <2> QED BY <1>2, <2>1, <2>2, FS_Subset
  <1>4. Retained(seq, ids) = [k \in 1 .. N |-> seq[nth(k)]]
    BY DEF Retained, Kept, Rank
  <1> HIDE DEF kept
  <1>5. /\ N \in Nat
        /\ \A n \in kept : Rank(kept, n) \in 1 .. N
        /\ \A n, p \in kept : Rank(kept, n) = Rank(kept, p) => n = p
        /\ \A k \in 1 .. N : \E n \in kept : Rank(kept, n) = k
    BY <1>2, <1>3, RanksAreUnique
  <1>6. \A k \in 1 .. N : nth(k) \in kept /\ Rank(kept, nth(k)) = k
    BY <1>5
  <1>7. \A n \in kept : nth(Rank(kept, n)) = n
    BY <1>5, <1>6
  <1>8. \A n \in kept : seq[n] \in AskIds /\ seq[n] \notin ids /\ seq[n] \in Range(seq)
    BY <1>1, <1>2 DEF kept, Kept, Range
  <1>9. ASSUME NEW x \in Range(seq) \ ids PROVE \E n \in kept : seq[n] = x
    BY DEF kept, Kept, Range
  <1> HIDE DEF nth, N
  <1>10. PICK t : t = Retained(seq, ids)
    OBVIOUS
  <1>11. t = [k \in 1 .. N |-> seq[nth(k)]]
    BY <1>4, <1>10
  <1>12. t \in Seq(AskIds)
    BY <1>5, <1>6, <1>8, <1>11
  <1>13. ASSUME NEW x \in Range(t) PROVE x \in Range(seq) \ ids
    <2>1. PICK k \in 1 .. N : x = seq[nth(k)]
      BY <1>11, <1>13 DEF Range
    <2> QED BY <2>1, <1>6, <1>8
  <1>14. ASSUME NEW x \in Range(seq) \ ids PROVE x \in Range(t)
    <2>1. PICK n \in kept : seq[n] = x
      BY <1>9
    <2>2. PICK k \in 1 .. N : nth(k) = n
      BY <1>5, <1>7
    <2>3. t[k] = x /\ k \in DOMAIN t
      BY <1>11, <2>1, <2>2
    <2> QED BY <2>3 DEF Range
  <1> QED BY <1>10, <1>12, <1>13, <1>14

\* An entry that is added.
LEMMA AppendRange ==
    ASSUME NEW seq \in Seq(AskIds), NEW i \in AskIds
    PROVE  Append(seq, i) \in Seq(AskIds) /\ Range(Append(seq, i)) = Range(seq) \cup {i}
  <1> DEFINE t == Append(seq, i)
  <1>1. /\ t \in Seq(AskIds) /\ DOMAIN t = 1 .. Len(seq) + 1 /\ Len(seq) \in Nat
        /\ DOMAIN seq = 1 .. Len(seq)
        /\ \A n \in 1 .. Len(seq) : t[n] = seq[n]
        /\ t[Len(seq) + 1] = i
    OBVIOUS
  <1> HIDE DEF t
  <1>2. \A n \in DOMAIN t : n \in 1 .. Len(seq) \/ n = Len(seq) + 1
    BY <1>1
  <1>3. \A n \in 1 .. Len(seq) : n \in DOMAIN t
    BY <1>1
  <1>4. Len(seq) + 1 \in DOMAIN t
    BY <1>1
  <1>5. Range(t) \subseteq Range(seq) \cup {i}
    BY <1>1, <1>2 DEF Range
  <1>6. Range(seq) \cup {i} \subseteq Range(t)
    BY <1>1, <1>3, <1>4 DEF Range
  <1> QED BY <1>1, <1>5, <1>6 DEF t

-----------------------------------------------------------------------------
(***************************************************************************)
(* The kernel.                                                             *)
(***************************************************************************)
Values == {"answer", "withdrawn", "cancelled"}

\* What respond and cancel_pending_for_turn do to the entries.
Removes(ids) ==
    /\ parked' \in [AskIds -> Asks \union {NoAsk}]
    /\ order' \in Seq(AskIds)
    /\ Range(order') = {i \in AskIds : parked'[i] # NoAsk}
    /\ recently' \subseteq AskIds
    /\ hand' \in [Asks -> {"none", "answer", "withdrawn", "cancelled"}]
    /\ \A i \in AskIds : parked'[i] # NoAsk => parked'[i] = parked[i] /\ hand'[parked[i]] = "none"
    /\ \A r \in Asks : hand[r] # "none" => hand'[r] # "none"
    /\ \A i \in AskIds : parked[i] # NoAsk => parked'[i] = parked[i] \/ hand'[parked[i]] # "none"
    /\ \A i \in ids : parked'[i] = NoAsk
    /\ \A r \in Asks : hand'[r] = hand[r] \/ \E i \in AskIds : parked[i] = r

LEMMA NoAskIsNone == NoAsk \notin Asks
  BY DEF NoAsk, Asks

LEMMA TakeRemoves ==
    ASSUME AskTypes, EntriesAreOpen, NEW ids \in SUBSET AskIds, NEW value \in Values, take(ids, value)
    PROVE  Removes(ids)
  <1> USE NoAskIsNone
  <1>1. parked \in [AskIds -> Asks \union {NoAsk}] /\ hand \in [Asks -> {"none", "answer", "withdrawn", "cancelled"}]
        /\ Range(order) = {i \in AskIds : parked[i] # NoAsk} /\ recently \subseteq AskIds /\ order \in Seq(AskIds)
    BY DEF AskTypes, AskTypeOK
  <1>2. /\ parked' = [i \in AskIds |-> IF i \in ids THEN NoAsk ELSE parked[i]]
        /\ recently' = recently \union ids
        /\ hand' = [r \in Asks |-> IF \E i \in ids : parked[i] = r THEN value ELSE hand[r]]
        /\ order' = Retained(order, ids)
    BY DEF take
  <1>3. order' \in Seq(AskIds) /\ Range(order') = Range(order) \ ids
    BY <1>1, <1>2, RetainedRange
  <1>4. \A i, j \in AskIds : parked[i] # NoAsk /\ parked[i] = parked[j] => i = j
    BY DEF EntriesAreOpen
  <1>5. \A i \in AskIds : parked[i] # NoAsk => parked[i] \in Asks /\ hand[parked[i]] = "none"
    BY <1>1 DEF EntriesAreOpen
  <1>6. \A i \in AskIds : i \notin ids /\ parked[i] # NoAsk => hand'[parked[i]] = "none"
    BY <1>2, <1>4, <1>5
  <1>7. \A i \in ids : i \in AskIds /\ (parked[i] # NoAsk => hand'[parked[i]] # "none")
    BY <1>2, <1>5 DEF Values
  <1>8. Range(order') = {i \in AskIds : parked'[i] # NoAsk}
    BY <1>1, <1>2, <1>3
  <1>9. /\ \A i \in AskIds : parked'[i] # NoAsk => parked'[i] = parked[i] /\ hand'[parked[i]] = "none"
        /\ \A i \in AskIds : parked[i] # NoAsk => parked'[i] = parked[i] \/ hand'[parked[i]] # "none"
        /\ \A i \in ids : parked'[i] = NoAsk
    BY <1>2, <1>6, <1>7
  <1>10. \A r \in Asks : hand[r] # "none" => hand'[r] # "none"
    BY <1>2 DEF Values
  <1>11. /\ parked' \in [AskIds -> Asks \union {NoAsk}] /\ recently' \subseteq AskIds
         /\ hand' \in [Asks -> {"none", "answer", "withdrawn", "cancelled"}]
    BY <1>1, <1>2 DEF Values
  <1>12. \A r \in Asks : hand'[r] = hand[r] \/ \E i \in AskIds : parked[i] = r
    BY <1>2
  <1> QED BY <1>3, <1>8, <1>9, <1>10, <1>11, <1>12 DEF Removes

LEMMA RespondRemoves ==
    ASSUME AskTypes, EntriesAreOpen, NEW i \in AskIds, NEW value \in Values, respond(i, value)
    PROVE  Removes({i})
  <1>1. CASE parked[i] = NoAsk
    <2>1. UNCHANGED <<hand, parked, order, recently>>
      BY <1>1 DEF respond, kernelVars
    <2> QED BY <1>1, <2>1 DEF Removes, AskTypes, AskTypeOK, EntriesAreOpen
  <1>2. CASE parked[i] # NoAsk
    <2>1. take({i}, value) /\ {i} \in SUBSET AskIds
      BY <1>2 DEF respond
    <2> QED BY <2>1, TakeRemoves
  <1> QED BY <1>1, <1>2

\* A step that removes entries and lets some requests return.
LEMMA RemovalStep ==
    ASSUME AskInv, NEW ids \in SUBSET AskIds, Removes(ids),
           UNCHANGED <<ask, turnOf>>,
           askPc' \in [Asks -> Pcs], channel' \in [Asks -> {"empty", "answer", "withdrawn", "cancelled", "closed"}],
           aborted' \subseteq Asks,
           \A r \in Asks : \/ askPc'[r] = askPc[r] /\ channel'[r] = channel[r]
                           \/ /\ askPc[r] \in Waits /\ askPc'[r] = "returned"
                              /\ ask[r].id \in ids,
           \A c \in cancels \ cancels' :
               \A i \in AskIds : parked'[i] # NoAsk => ask[parked'[i]].turn # c.turn
    PROVE  AskInv'
  <1> USE NoAskIsNone
  <1>1. /\ AskTypes /\ EntriesAreOpen /\ TurnsLast /\ SpawnedInBackground /\ Untouched /\ WaitingIsPending /\ EntriesAreSwept
    BY DEF AskInv
  <1>2. AskTypes'
    <2>1. /\ parked' \in [AskIds -> Asks \union {NoAsk}] /\ order' \in Seq(AskIds)
          /\ Range(order') = {i \in AskIds : parked'[i] # NoAsk} /\ recently' \subseteq AskIds
          /\ hand' \in [Asks -> {"none", "answer", "withdrawn", "cancelled"}]
      BY DEF Removes
    <2>2. \A r \in Asks : askPc'[r] # "idle" => askPc[r] # "idle"
      BY DEF Waits
    <2>3. AskTypeOK'
      BY <1>1, <2>1 DEF AskTypes, AskTypeOK, Pcs
    <2> QED BY <1>1, <2>1, <2>2, <2>3 DEF AskTypes
  <1>3. \A i \in AskIds : parked'[i] # NoAsk =>
            /\ parked'[i] = parked[i] /\ parked[i] \in Asks /\ hand'[parked[i]] = "none" /\ ask[parked[i]].id = i
            /\ i \notin ids
    BY <1>1 DEF Removes, EntriesAreOpen, AskTypes, AskTypeOK
  <1>4. \A i \in AskIds : parked'[i] # NoAsk =>
            askPc'[parked[i]] = askPc[parked[i]] /\ channel'[parked[i]] = channel[parked[i]]
    BY <1>3
  <1>5. EntriesAreOpen'
    BY <1>1, <1>3, <1>4 DEF EntriesAreOpen, InTurn
  <1>6. TurnsLast' /\ SpawnedInBackground'
    BY <1>1 DEF TurnsLast, SpawnedInBackground, InTurn, Waits
  <1>7. WaitingIsPending'
    <2> SUFFICES ASSUME NEW r \in Asks, askPc'[r] \in {"waiting", "checking", "draining"}, channel'[r] = "empty"
                 PROVE  \/ parked'[ask[r].id] = r /\ ask[r].id \in Range(order')
                        \/ hand'[r] # "none"
      BY DEF WaitingIsPending
    <2>1. askPc[r] = askPc'[r] /\ channel[r] = channel'[r]
      OBVIOUS
    <2>2. ask[r].id \in AskIds
      BY <2>1, <1>1 DEF AskTypes
    <2>3. parked[ask[r].id] = r \/ hand[r] # "none"
      BY <2>1, <1>1 DEF WaitingIsPending
    <2>4. CASE hand[r] # "none"
      BY <2>4 DEF Removes
    <2>5. CASE parked[ask[r].id] = r
      <3>1. PICK i \in AskIds : i = ask[r].id
        BY <2>2
      <3>2. parked[i] = r /\ parked[i] # NoAsk
        BY <2>5, <3>1
      <3>3. parked'[i] = r \/ hand'[r] # "none"
        BY <3>2 DEF Removes
      <3>4. parked'[i] = r => i \in Range(order')
        BY DEF Removes
      <3> QED BY <3>1, <3>3, <3>4
    <2> QED BY <2>3, <2>4, <2>5
  <1>8. EntriesAreSwept'
    <2> SUFFICES ASSUME NEW i \in AskIds, parked'[i] # NoAsk, askPc'[parked'[i]] = "returned"
                 PROVE  \/ turnOf[ask[parked'[i]].agent] = ask[parked'[i]].turn
                        \/ \E c \in cancels' : c.turn = ask[parked'[i]].turn
      BY DEF EntriesAreSwept
    <2>1. parked'[i] = parked[i] /\ askPc[parked[i]] = "returned"
      BY <1>3, <1>4
    <2>2. \/ turnOf[ask[parked[i]].agent] = ask[parked[i]].turn
          \/ \E c \in cancels : c.turn = ask[parked[i]].turn
      BY <2>1, <1>1 DEF EntriesAreSwept
    <2> QED BY <2>1, <2>2
  <1>9. Untouched'
    <2> SUFFICES ASSUME NEW r \in Asks, askPc'[r] \in {"idle", "spawned"}
                 PROVE  channel'[r] = "empty" /\ hand'[r] = "none"
      BY DEF Untouched
    <2>1. askPc[r] = askPc'[r] /\ channel'[r] = channel[r]
      OBVIOUS
    <2>2. \A i \in AskIds : parked[i] # r
      BY <2>1, <1>1 DEF EntriesAreOpen
    <2>3. hand'[r] = hand[r]
      BY <2>2 DEF Removes
    <2> QED BY <2>1, <2>3, <1>1 DEF Untouched
  <1> QED BY <1>2, <1>5, <1>6, <1>7, <1>8, <1>9 DEF AskInv

\* A request is parked, by its caller or by the background task.
LEMMA ParkStep ==
    ASSUME AskInv, NEW r \in Asks, NEW i \in AskIds,
           askPc[r] \in {"idle", "spawned"}, park(r, i), AskGoto(r, "waiting"),
           ask' \in [Asks -> [kind : {"none", "approval", "userTool", "question", "background"},
                              id : Nat, agent : Nat, turn : Nat]],
           \A q \in Asks : q # r => ask'[q] = ask[q],
           ask'[r].id = i, ask'[r].agent \in SessionAgents,
           ask'[r].kind # "background" => turnOf[ask'[r].agent] = ask'[r].turn,
           UNCHANGED <<aborted, hand, recently, turnOf, cancels>>
    PROVE  AskInv'
  <1> USE NoAskIsNone
  <1>1. /\ AskTypes /\ EntriesAreOpen /\ TurnsLast /\ SpawnedInBackground /\ Untouched /\ WaitingIsPending /\ EntriesAreSwept
    BY DEF AskInv
  <1>2. /\ parked' = [parked EXCEPT ![i] = r] /\ order' = Append(order, i)
        /\ askPc' = [askPc EXCEPT ![r] = "waiting"]
        /\ channel' = IF parked[i] # NoAsk /\ askPc[parked[i]] # "returned"
                      THEN [channel EXCEPT ![parked[i]] = "closed"] ELSE channel
    BY DEF park, AskGoto, AskAt
  <1>3. /\ parked \in [AskIds -> Asks \union {NoAsk}] /\ order \in Seq(AskIds) /\ askPc \in [Asks -> Pcs]
        /\ channel \in [Asks -> {"empty", "answer", "withdrawn", "cancelled", "closed"}]
        /\ Range(order) = {j \in AskIds : parked[j] # NoAsk}
    BY <1>1 DEF AskTypes, AskTypeOK, Pcs
  <1>4. /\ parked'[i] = r /\ \A j \in AskIds : j # i => parked'[j] = parked[j]
        /\ askPc'[r] = "waiting" /\ \A q \in Asks : q # r => askPc'[q] = askPc[q]
        /\ \A q \in Asks : q # parked[i] => channel'[q] = channel[q]
        /\ parked[i] \in Asks /\ askPc[parked[i]] # "returned" => channel'[parked[i]] = "closed"
        /\ parked[i] \in Asks /\ askPc[parked[i]] = "returned" => channel'[parked[i]] = channel[parked[i]]
    BY <1>2, <1>3
  <1>5. order' \in Seq(AskIds) /\ Range(order') = Range(order) \cup {i}
    BY <1>2, <1>3, AppendRange
  <1>6. \A j \in AskIds : parked[j] # r
    BY <1>1 DEF EntriesAreOpen
  <1>7. Range(order') = {j \in AskIds : parked'[j] # NoAsk}
    BY <1>3, <1>4, <1>5
  <1>8. AskTypes'
    <2>1. /\ parked' \in [AskIds -> Asks \union {NoAsk}] /\ askPc' \in [Asks -> Pcs]
          /\ channel' \in [Asks -> {"empty", "answer", "withdrawn", "cancelled", "closed"}]
      BY <1>2, <1>3 DEF Pcs
    <2>2. AskTypeOK'
      BY <1>1, <1>7, <2>1 DEF AskTypes, AskTypeOK, Pcs
    <2> QED BY <1>1, <1>4, <1>5, <2>2 DEF AskTypes
  <1>9. EntriesAreOpen'
    <2> SUFFICES ASSUME NEW j \in AskIds, parked'[j] # NoAsk
                 PROVE  /\ ask'[parked'[j]].id = j
                        /\ askPc'[parked'[j]] \notin {"idle", "spawned"}
                        /\ hand[parked'[j]] = "none"
                        /\ askPc'[parked'[j]] # "returned" => channel'[parked'[j]] = "empty"
                        /\ askPc'[parked'[j]] = "returned" => ask'[parked'[j]].kind # "background"
      BY DEF EntriesAreOpen, InTurn
    <2>1. CASE j = i
      <3>1. parked'[j] = r /\ channel'[r] = channel[r]
        BY <2>1, <1>4, <1>6
      <3>2. channel[r] = "empty" /\ hand[r] = "none"
        BY <1>1 DEF Untouched
      <3> QED BY <2>1, <3>1, <3>2, <1>4
    <2>2. CASE j # i
      <3>1. parked'[j] = parked[j] /\ parked[j] \in Asks /\ parked[j] # r
        BY <2>2, <1>3, <1>4, <1>6
      <3>2. parked[j] # parked[i]
        BY <2>2, <3>1, <1>1 DEF EntriesAreOpen
      <3> QED BY <3>1, <3>2, <1>1, <1>4 DEF EntriesAreOpen, InTurn
    <2> QED BY <2>1, <2>2
  <1>10. TurnsLast' /\ SpawnedInBackground'
    <2>1. \A q \in Asks : q # r => ask'[q] = ask[q] /\ askPc'[q] = askPc[q]
      BY <1>4
    <2>2. InTurn(r)' => turnOf[ask'[r].agent] = ask'[r].turn
      BY DEF InTurn
    <2> QED BY <1>1, <1>4, <2>1, <2>2 DEF TurnsLast, SpawnedInBackground, InTurn
  <1>11. Untouched'
    <2> SUFFICES ASSUME NEW q \in Asks, askPc'[q] \in {"idle", "spawned"}
                 PROVE  channel'[q] = "empty" /\ hand[q] = "none"
      BY DEF Untouched
    <2>1. q # r /\ askPc[q] = askPc'[q]
      BY <1>4
    <2>2. parked[i] # q
      BY <2>1, <1>1 DEF EntriesAreOpen
    <2> QED BY <2>1, <2>2, <1>1, <1>4 DEF Untouched
  <1>12. WaitingIsPending'
    <2> SUFFICES ASSUME NEW q \in Asks, askPc'[q] \in {"waiting", "checking", "draining"}, channel'[q] = "empty"
                 PROVE  \/ parked'[ask'[q].id] = q /\ ask'[q].id \in Range(order')
                        \/ hand[q] # "none"
      BY DEF WaitingIsPending
    <2>1. CASE q = r
      BY <2>1, <1>4, <1>5
    <2>2. CASE q # r
      <3>1. askPc[q] = askPc'[q] /\ ask'[q] = ask[q] /\ ask[q].id \in AskIds
        BY <2>2, <1>1, <1>4 DEF AskTypes
      <3>2. q # parked[i]
        BY <3>1, <1>4
      <3>3. channel[q] = "empty"
        BY <3>2, <1>4
      <3>4. (parked[ask[q].id] = q /\ ask[q].id \in Range(order)) \/ hand[q] # "none"
        BY <3>1, <3>3, <1>1 DEF WaitingIsPending
      <3> QED BY <3>1, <3>2, <3>4, <1>4, <1>5
    <2> QED BY <2>1, <2>2
  <1>13. EntriesAreSwept'
    <2> SUFFICES ASSUME NEW j \in AskIds, parked'[j] # NoAsk, askPc'[parked'[j]] = "returned"
                 PROVE  \/ turnOf[ask'[parked'[j]].agent] = ask'[parked'[j]].turn
                        \/ \E c \in cancels : c.turn = ask'[parked'[j]].turn
      BY DEF EntriesAreSwept
    <2>1. parked'[j] # r /\ parked'[j] = parked[j] /\ parked[j] \in Asks
      BY <1>3, <1>4
    <2> QED BY <2>1, <1>1, <1>4 DEF EntriesAreSwept
  <1> QED BY <1>8, <1>9, <1>10, <1>11, <1>12, <1>13 DEF AskInv

-----------------------------------------------------------------------------
(***************************************************************************)
(* The steps.                                                              *)
(***************************************************************************)
LEMMA AskInvInit == AskInit => AskInv
  <1> SUFFICES ASSUME AskInit PROVE AskInv
    OBVIOUS
  <1> USE NoAskIsNone DEF AskInit
  <1>1. order \in Seq(AskIds) /\ Range(order) = {}
    <2>1. PICK q : q = <<>>
      OBVIOUS
    <2>2. q \in Seq(AskIds) /\ DOMAIN q = {}
      BY <2>1
    <2> QED BY <2>1, <2>2 DEF Range
  <1>2. AskTypeOK
    BY <1>1, AskAssumption DEF AskTypeOK
  <1>3. AskTypes
    BY <1>1, <1>2 DEF AskTypes
  <1> QED BY <1>3 DEF AskInv, EntriesAreOpen, TurnsLast, SpawnedInBackground, Untouched, WaitingIsPending,
                      EntriesAreSwept, Waits

\* A request that waits moves on, or returns, and the entries stay.
LEMMA MoveStep ==
    ASSUME AskInv, NEW r \in Asks, askPc[r] \in Waits,
           askPc' = [askPc EXCEPT ![r] = askPc'[r]], askPc'[r] \in Waits \cup {"returned"},
           channel' \in [Asks -> {"empty", "answer", "withdrawn", "cancelled", "closed"}],
           \A q \in Asks : q # r => channel'[q] = channel[q],
           askPc'[r] # "returned" => channel'[r] = channel[r],
           askPc'[r] = "returned" => channel[r] # "empty" \/ InTurn(r),
           askPc[r] = "withdrawing" => askPc'[r] = "returned",
           aborted' \subseteq Asks,
           UNCHANGED <<ask, hand, parked, order, recently, turnOf, cancels>>
    PROVE  AskInv'
  <1> USE NoAskIsNone
  <1>1. /\ AskTypes /\ EntriesAreOpen /\ TurnsLast /\ SpawnedInBackground /\ Untouched /\ WaitingIsPending /\ EntriesAreSwept
    BY DEF AskInv
  <1>2. askPc \in [Asks -> Pcs]
    BY <1>1 DEF AskTypes, AskTypeOK, Pcs
  <1>3. askPc' \in [Asks -> Pcs] /\ \A q \in Asks : q # r => askPc'[q] = askPc[q]
    BY <1>2 DEF Pcs, Waits
  <1>4. AskTypes'
    <2>1. AskTypeOK'
      BY <1>1, <1>3 DEF AskTypes, AskTypeOK, Pcs
    <2>2. \A q \in Asks : askPc'[q] # "idle" => askPc[q] # "idle"
      BY <1>3 DEF Waits
    <2> QED BY <1>1, <2>1, <2>2 DEF AskTypes
  <1>5. \A i \in AskIds : parked[i] # NoAsk => parked[i] \in Asks
    BY <1>1 DEF AskTypes, AskTypeOK
  <1>6. EntriesAreOpen'
    <2> SUFFICES ASSUME NEW i \in AskIds, parked[i] # NoAsk
                 PROVE  /\ askPc'[parked[i]] \notin {"idle", "spawned"}
                        /\ askPc'[parked[i]] # "returned" => channel'[parked[i]] = "empty"
                        /\ askPc'[parked[i]] = "returned" => InTurn(parked[i])
      BY <1>1 DEF EntriesAreOpen, InTurn
    <2>1. CASE parked[i] # r
      BY <2>1, <1>1, <1>3, <1>5 DEF EntriesAreOpen
    <2>2. CASE parked[i] = r
      <3>1. channel[r] = "empty"
        BY <2>2, <1>1 DEF EntriesAreOpen, Waits
      <3> QED BY <2>2, <3>1 DEF Waits
    <2> QED BY <2>1, <2>2
  <1>7. TurnsLast' /\ SpawnedInBackground' /\ Untouched'
    BY <1>1, <1>3 DEF TurnsLast, SpawnedInBackground, Untouched, InTurn, Waits
  <1>8. WaitingIsPending'
    <2> SUFFICES ASSUME NEW q \in Asks, askPc'[q] \in {"waiting", "checking", "draining"}, channel'[q] = "empty"
                 PROVE  \/ parked[ask[q].id] = q /\ ask[q].id \in Range(order)
                        \/ hand[q] # "none"
      BY DEF WaitingIsPending
    <2>1. askPc[q] \in {"waiting", "checking", "draining"} /\ channel[q] = "empty"
      BY <1>3 DEF Waits
    <2> QED BY <2>1, <1>1 DEF WaitingIsPending
  <1>9. EntriesAreSwept'
    <2> SUFFICES ASSUME NEW i \in AskIds, parked[i] # NoAsk, askPc'[parked[i]] = "returned"
                 PROVE  \/ turnOf[ask[parked[i]].agent] = ask[parked[i]].turn
                        \/ \E c \in cancels : c.turn = ask[parked[i]].turn
      BY DEF EntriesAreSwept
    <2>1. CASE parked[i] # r
      BY <2>1, <1>1, <1>3, <1>5 DEF EntriesAreSwept
    <2>2. CASE parked[i] = r
      <3>1. channel[r] = "empty"
        BY <2>2, <1>1 DEF EntriesAreOpen, Waits
      <3>2. InTurn(r)
        BY <2>2, <3>1
      <3> QED BY <2>2, <3>2, <1>1 DEF TurnsLast
    <2> QED BY <2>1, <2>2
  <1> QED BY <1>4, <1>6, <1>7, <1>8, <1>9 DEF AskInv

\* Neither requests nor entries change.
LEMMA SignalStep ==
    ASSUME AskInv, aborted' \subseteq Asks, recently' \subseteq AskIds,
           UNCHANGED <<ask, askPc, channel, hand, parked, order, turnOf, cancels>>
    PROVE  AskInv'
  <1>1. AskTypes'
    BY DEF AskInv, AskTypes, AskTypeOK
  <1> QED BY <1>1 DEF AskInv, EntriesAreOpen, TurnsLast, SpawnedInBackground, Untouched, WaitingIsPending,
                      EntriesAreSwept, InTurn

LEMMA SendStep ==
    ASSUME AskInv, NEW r \in Asks, Send(r)
    PROVE  AskInv'
  <1> USE NoAskIsNone
  <1>1. /\ AskTypes /\ EntriesAreOpen /\ TurnsLast /\ SpawnedInBackground /\ Untouched /\ WaitingIsPending /\ EntriesAreSwept
    BY DEF AskInv
  <1>2. /\ hand[r] # "none" /\ hand' = [hand EXCEPT ![r] = "none"]
        /\ channel' = IF askPc[r] = "returned" THEN channel ELSE [channel EXCEPT ![r] = hand[r]]
        /\ UNCHANGED <<ask, askPc, aborted, parked, order, recently, turnOf, cancels>>
    BY DEF Send, AskAt, kernelVars
  <1>3. /\ hand \in [Asks -> {"none", "answer", "withdrawn", "cancelled"}]
        /\ channel \in [Asks -> {"empty", "answer", "withdrawn", "cancelled", "closed"}]
    BY <1>1 DEF AskTypes, AskTypeOK
  <1>4. /\ hand' \in [Asks -> {"none", "answer", "withdrawn", "cancelled"}]
        /\ channel' \in [Asks -> {"empty", "answer", "withdrawn", "cancelled", "closed"}]
        /\ \A q \in Asks : q # r => hand'[q] = hand[q] /\ channel'[q] = channel[q]
        /\ hand'[r] = "none"
        /\ askPc[r] # "returned" => channel'[r] # "empty"
    BY <1>2, <1>3
  <1>5. AskTypes'
    BY <1>1, <1>2, <1>4 DEF AskTypes, AskTypeOK
  <1>6. \A i \in AskIds : parked[i] # r /\ (parked[i] # NoAsk => parked[i] \in Asks)
    BY <1>1, <1>2 DEF EntriesAreOpen, AskTypes, AskTypeOK
  <1>7. EntriesAreOpen'
    BY <1>1, <1>2, <1>4, <1>6 DEF EntriesAreOpen, InTurn
  <1>8. askPc[r] \notin {"idle", "spawned"}
    BY <1>1, <1>2 DEF Untouched
  <1>9. TurnsLast' /\ SpawnedInBackground' /\ Untouched' /\ EntriesAreSwept'
    BY <1>1, <1>2, <1>4, <1>8 DEF TurnsLast, SpawnedInBackground, Untouched, EntriesAreSwept, InTurn
  <1>10. WaitingIsPending'
    BY <1>1, <1>2, <1>4 DEF WaitingIsPending
  <1> QED BY <1>5, <1>7, <1>9, <1>10 DEF AskInv

LEMMA TurnEndsStep ==
    ASSUME AskInv, NEW a \in SessionAgents, TurnEnds(a)
    PROVE  AskInv'
  <1> USE NoAskIsNone
  <1>1. /\ AskTypes /\ EntriesAreOpen /\ TurnsLast /\ SpawnedInBackground /\ Untouched /\ WaitingIsPending /\ EntriesAreSwept
    BY DEF AskInv
  <1>2. /\ turnOf[a] < MaxTurns
        /\ \A r \in Asks : ask[r].agent = a /\ ask[r].turn = turnOf[a] /\ InTurn(r) => askPc[r] \in {"idle", "returned"}
        /\ cancels' = cancels \union {[agent |-> a, turn |-> turnOf[a]]}
        /\ turnOf' = [turnOf EXCEPT ![a] = @ + 1]
        /\ UNCHANGED <<ask, askPc, aborted, channel, hand, parked, order, recently>>
    BY DEF TurnEnds, kernelVars
  <1>3. turnOf \in [SessionAgents -> 0 .. MaxTurns]
    BY <1>1 DEF AskTypes, AskTypeOK
  <1>4. turnOf' \in [SessionAgents -> 0 .. MaxTurns] /\ \A b \in SessionAgents : b # a => turnOf'[b] = turnOf[b]
    BY <1>2, <1>3, AskAssumption
  <1>5. AskTypes'
    BY <1>1, <1>2, <1>4 DEF AskTypes, AskTypeOK
  <1>6. EntriesAreOpen' /\ SpawnedInBackground' /\ Untouched' /\ WaitingIsPending'
    BY <1>1, <1>2 DEF EntriesAreOpen, SpawnedInBackground, Untouched, WaitingIsPending, InTurn
  <1>7. TurnsLast'
    <2> SUFFICES ASSUME NEW r \in Asks, InTurn(r), askPc[r] \in Waits
                 PROVE  turnOf'[ask[r].agent] = ask[r].turn
      BY <1>2 DEF TurnsLast, InTurn
    <2>1. turnOf[ask[r].agent] = ask[r].turn /\ ask[r].agent \in SessionAgents
      BY <1>1 DEF TurnsLast, AskTypes, Waits
    <2>2. ask[r].agent # a
      BY <2>1, <1>2 DEF Waits
    <2> QED BY <2>1, <2>2, <1>4
  <1>8. EntriesAreSwept'
    <2> SUFFICES ASSUME NEW i \in AskIds, parked[i] # NoAsk, askPc[parked[i]] = "returned"
                 PROVE  \/ turnOf'[ask[parked[i]].agent] = ask[parked[i]].turn
                        \/ \E c \in cancels' : c.turn = ask[parked[i]].turn
      BY <1>2 DEF EntriesAreSwept
    <2> DEFINE r == parked[i]
    <2>1. r \in Asks /\ ask[r].agent \in SessionAgents
      BY <1>1 DEF AskTypes, AskTypeOK
    <2>2. turnOf[ask[r].agent] = ask[r].turn \/ \E c \in cancels : c.turn = ask[r].turn
      BY <1>1 DEF EntriesAreSwept
    <2> HIDE DEF r
    <2>3. CASE \E c \in cancels : c.turn = ask[r].turn
      BY <2>3, <1>2 DEF r
    <2>4. CASE turnOf[ask[r].agent] = ask[r].turn /\ ask[r].agent # a
      BY <2>1, <2>4, <1>4 DEF r
    <2>5. CASE turnOf[ask[r].agent] = ask[r].turn /\ ask[r].agent = a
      <3>1. [agent |-> a, turn |-> turnOf[a]] \in cancels'
        BY <1>2
      <3> QED BY <2>5, <3>1 DEF r
    <2> QED BY <2>2, <2>3, <2>4, <2>5
  <1> QED BY <1>5, <1>6, <1>7, <1>8 DEF AskInv

LEMMA RequestStep ==
    ASSUME AskInv, NEW r \in Asks, NEW kind \in {"approval", "userTool", "question", "background"},
           NEW i \in AskIds, NEW a \in SessionAgents, Request(r, kind, i, a)
    PROVE  AskInv'
  <1> USE NoAskIsNone
  <1>1. /\ AskTypes /\ EntriesAreOpen /\ TurnsLast /\ SpawnedInBackground /\ Untouched /\ WaitingIsPending /\ EntriesAreSwept
    BY DEF AskInv
  <1> DEFINE new == [kind |-> kind, id |-> i, agent |-> a, turn |-> turnOf[a]]
             Rows == [kind : {"none", "approval", "userTool", "question", "background"},
                      id : Nat, agent : Nat, turn : Nat]
  <1>2. /\ askPc[r] = "idle" /\ ask' = [ask EXCEPT ![r] = new]
        /\ UNCHANGED <<aborted, hand, turnOf, cancels>>
    BY DEF Request, AskAt
  <1>3. ask \in [Asks -> Rows] /\ askPc \in [Asks -> Pcs] /\ turnOf[a] \in Nat
    BY <1>1 DEF AskTypes, AskTypeOK, Pcs
  <1>4. new \in Rows
    BY <1>3 DEF AskIds, SessionAgents
  <1>5. ask' \in [Asks -> Rows] /\ ask'[r] = new /\ \A q \in Asks : q # r => ask'[q] = ask[q]
    BY <1>2, <1>3, <1>4
  <1>6. new.id = i /\ new.agent = a /\ new.turn = turnOf[a] /\ new.kind = kind
    OBVIOUS
  <1> HIDE DEF new
  <1>7. CASE kind # "background"
    <2>1. AskGoto(r, "waiting") /\ park(r, i) /\ UNCHANGED recently
      BY <1>7 DEF Request
    <2> QED BY <2>1, <1>2, <1>5, <1>6, ParkStep
  <1>8. CASE kind = "background"
    <2>1. askPc' = [askPc EXCEPT ![r] = "spawned"] /\ UNCHANGED <<parked, order, recently, channel>>
      BY <1>8 DEF Request, AskGoto, kernelVars
    <2>2. askPc' \in [Asks -> Pcs] /\ askPc'[r] = "spawned" /\ \A q \in Asks : q # r => askPc'[q] = askPc[q]
      BY <2>1, <1>3 DEF Pcs
    <2>3. AskTypes'
      <3>1. AskTypeOK'
        BY <1>1, <1>2, <2>1, <2>2 DEF AskTypes, AskTypeOK, Pcs
      <3> QED BY <1>1, <1>5, <1>6, <2>1, <2>2, <3>1 DEF AskTypes
    <2>4. \A j \in AskIds : parked[j] # NoAsk => parked[j] # r /\ parked[j] \in Asks
      BY <1>1, <1>2 DEF EntriesAreOpen, AskTypes, AskTypeOK
    <2>5. EntriesAreOpen' /\ EntriesAreSwept'
      BY <1>1, <1>2, <1>5, <2>1, <2>2, <2>4 DEF EntriesAreOpen, EntriesAreSwept, InTurn
    <2>6. TurnsLast' /\ SpawnedInBackground' /\ Untouched'
      BY <1>1, <1>2, <1>5, <1>6, <1>8, <2>1, <2>2 DEF TurnsLast, SpawnedInBackground, Untouched, InTurn, Waits
    <2>7. WaitingIsPending'
      BY <1>1, <1>2, <1>5, <2>1, <2>2 DEF WaitingIsPending
    <2> QED BY <2>3, <2>5, <2>6, <2>7 DEF AskInv
  <1> QED BY <1>7, <1>8

\* Every step keeps the invariant.
LEMMA AskInvStep == AskInv /\ [AskStep]_askVars => AskInv'
  <1> SUFFICES ASSUME AskInv, [AskStep]_askVars PROVE AskInv'
    OBVIOUS
  <1>0. /\ AskTypes /\ EntriesAreOpen /\ aborted \subseteq Asks /\ askPc \in [Asks -> Pcs] /\ recently \subseteq AskIds
        /\ channel \in [Asks -> {"empty", "answer", "withdrawn", "cancelled", "closed"}]
    BY DEF AskInv, AskTypes, AskTypeOK, Pcs
  <1>1. ASSUME NEW r \in Asks, NEW kind \in {"approval", "userTool", "question", "background"},
               NEW i \in AskIds, NEW a \in SessionAgents, Request(r, kind, i, a)
        PROVE  AskInv'
    BY <1>1, RequestStep
  <1>2. ASSUME NEW r \in Asks, BackgroundAsks(r) PROVE AskInv'
    <2>1. /\ askPc[r] = "spawned" /\ AskGoto(r, "waiting") /\ park(r, ask[r].id)
          /\ UNCHANGED <<ask, aborted, hand, recently, turnOf, cancels>>
      BY <1>2 DEF BackgroundAsks, AskAt
    <2>2. ask[r].id \in AskIds /\ ask[r].agent \in SessionAgents /\ ask[r].kind = "background"
      BY <2>1 DEF AskInv, AskTypes, SpawnedInBackground, InTurn
    <2>3. ask' \in [Asks -> [kind : {"none", "approval", "userTool", "question", "background"},
                             id : Nat, agent : Nat, turn : Nat]]
      BY <2>1, <1>0 DEF AskTypes
    <2> QED BY <2>1, <2>2, <2>3, ParkStep
  <1>3. ASSUME NEW r \in Asks, StopTask(r) PROVE AskInv'
    <2>1. aborted' \subseteq Asks /\ UNCHANGED <<ask, askPc, channel, hand, parked, order, recently, turnOf, cancels>>
      BY <1>3, <1>0 DEF StopTask, Abort, kernelVars
    <2> QED BY <2>1, <1>0, SignalStep
  <1>4. ASSUME NEW r \in Asks, Hears(r) PROVE AskInv'
    <2>1. /\ askPc[r] \in {"draining", "waiting"} /\ channel[r] # "empty"
          /\ askPc' = [askPc EXCEPT ![r] = "returned"] /\ channel' = [channel EXCEPT ![r] = "empty"]
          /\ aborted' = aborted \ {r}
          /\ UNCHANGED <<ask, hand, parked, order, recently, turnOf, cancels>>
      BY <1>4 DEF Hears, Returns, AskGoto, AskAt, kernelVars
    <2>2. /\ askPc'[r] = "returned" /\ \A q \in Asks : q # r => channel'[q] = channel[q]
          /\ channel' \in [Asks -> {"empty", "answer", "withdrawn", "cancelled", "closed"}]
          /\ aborted' \subseteq Asks
      BY <2>1, <1>0
    <2>3. askPc[r] \in Waits /\ askPc' = [askPc EXCEPT ![r] = askPc'[r]]
      BY <2>1, <2>2 DEF Waits
    <2> QED BY <2>1, <2>2, <2>3, MoveStep
  <1>5. ASSUME NEW r \in Asks, SeesAbort(r) PROVE AskInv'
    <2>1. askPc[r] = "waiting" /\ UNCHANGED <<ask, hand, parked, order, recently, turnOf, cancels>>
      BY <1>5 DEF SeesAbort, AskAt, kernelVars
    <2>2. CASE ask[r].kind = "approval"
      <3>1. /\ askPc' = [askPc EXCEPT ![r] = "returned"] /\ channel' = [channel EXCEPT ![r] = "empty"]
            /\ aborted' = aborted \ {r}
        BY <1>5, <2>2 DEF SeesAbort, Returns, AskGoto
      <3>2. /\ askPc'[r] = "returned" /\ \A q \in Asks : q # r => channel'[q] = channel[q]
            /\ channel' \in [Asks -> {"empty", "answer", "withdrawn", "cancelled", "closed"}]
            /\ aborted' \subseteq Asks
        BY <3>1, <1>0
      <3>3. askPc[r] \in Waits /\ askPc' = [askPc EXCEPT ![r] = askPc'[r]] /\ InTurn(r)
        BY <2>1, <2>2, <3>1, <3>2 DEF Waits, InTurn
      <3> QED BY <2>1, <3>2, <3>3, MoveStep
    <2>3. CASE ask[r].kind # "approval"
      <3>1. PICK pc \in {"withdrawing", "checking"} : askPc' = [askPc EXCEPT ![r] = pc]
        BY <1>5, <2>3 DEF SeesAbort, AskGoto
      <3>2. UNCHANGED <<aborted, channel>>
        BY <1>5, <2>3 DEF SeesAbort
      <3>3. askPc'[r] = pc
        BY <3>1, <1>0
      <3>4. askPc[r] \in Waits /\ askPc' = [askPc EXCEPT ![r] = askPc'[r]] /\ askPc'[r] \in Waits
        BY <2>1, <3>1, <3>3 DEF Waits
      <3>5. askPc'[r] # "returned" /\ askPc[r] # "withdrawing"
        BY <2>1, <3>3
      <3> QED BY <2>1, <3>2, <3>4, <3>5, <1>0, MoveStep
    <2> QED BY <2>2, <2>3
  <1>6. ASSUME NEW r \in Asks, ChecksResolved(r) PROVE AskInv'
    <2>1. askPc[r] = "checking" /\ UNCHANGED <<ask, aborted, channel, hand, parked, order, recently, turnOf, cancels>>
      BY <1>6 DEF ChecksResolved, AskAt, kernelVars
    <2>2. PICK pc \in {"draining", "withdrawing"} : askPc' = [askPc EXCEPT ![r] = pc]
      BY <1>6 DEF ChecksResolved, AskGoto
    <2>3. askPc'[r] = pc
      BY <2>2, <1>0
    <2>4. askPc[r] \in Waits /\ askPc' = [askPc EXCEPT ![r] = askPc'[r]] /\ askPc'[r] \in Waits
      BY <2>1, <2>2, <2>3 DEF Waits
    <2>5. askPc'[r] # "returned" /\ askPc[r] # "withdrawing"
      BY <2>1, <2>3
    <2> QED BY <2>1, <2>4, <2>5, <1>0, MoveStep
  <1>7. ASSUME NEW r \in Asks, Withdraws(r) PROVE AskInv'
    <2>1. /\ askPc[r] = "withdrawing" /\ respond(ask[r].id, "withdrawn")
          /\ askPc' = [askPc EXCEPT ![r] = "returned"] /\ channel' = [channel EXCEPT ![r] = "empty"]
          /\ aborted' = aborted \ {r} /\ UNCHANGED <<ask, turnOf, cancels>>
      BY <1>7 DEF Withdraws, Returns, AskGoto, AskAt
    <2>2. ask[r].id \in AskIds /\ "withdrawn" \in Values
      BY <2>1, <1>0 DEF AskTypes, Values
    <2>3. PICK i \in AskIds : i = ask[r].id
      BY <2>2
    <2>4. Removes({i})
      BY <2>1, <2>2, <2>3, <1>0, RespondRemoves
    <2>5. /\ askPc' \in [Asks -> Pcs] /\ aborted' \subseteq Asks
          /\ channel' \in [Asks -> {"empty", "answer", "withdrawn", "cancelled", "closed"}]
          /\ askPc'[r] = "returned"
          /\ \A q \in Asks : q # r => askPc'[q] = askPc[q] /\ channel'[q] = channel[q]
      BY <2>1, <1>0 DEF Pcs
    <2>6. \A q \in Asks : \/ askPc'[q] = askPc[q] /\ channel'[q] = channel[q]
                          \/ askPc[q] \in Waits /\ askPc'[q] = "returned" /\ ask[q].id \in {i}
      BY <2>1, <2>3, <2>5 DEF Waits
    <2>7. cancels \ cancels' = {} /\ {i} \in SUBSET AskIds
      BY <2>1
    <2> QED BY <2>1, <2>4, <2>5, <2>6, <2>7, RemovalStep
  <1>8. ASSUME NEW r \in Asks, GraceEnds(r) PROVE AskInv'
    <2>1. /\ ask[r].kind \in {"userTool", "question"} /\ askPc[r] \in Waits
          /\ askPc' = [askPc EXCEPT ![r] = "returned"] /\ channel' = [channel EXCEPT ![r] = "empty"]
          /\ aborted' = aborted \ {r}
          /\ UNCHANGED <<ask, hand, parked, order, recently, turnOf, cancels>>
      BY <1>8 DEF GraceEnds, Returns, AskGoto, kernelVars, Waits
    <2>2. /\ askPc'[r] = "returned" /\ \A q \in Asks : q # r => channel'[q] = channel[q]
          /\ channel' \in [Asks -> {"empty", "answer", "withdrawn", "cancelled", "closed"}]
          /\ aborted' \subseteq Asks
      BY <2>1, <1>0
    <2>3. askPc' = [askPc EXCEPT ![r] = askPc'[r]] /\ InTurn(r)
      BY <2>1, <2>2 DEF InTurn
    <2> QED BY <2>1, <2>2, <2>3, MoveStep
  <1>9. ASSUME NEW r \in Asks, Send(r) PROVE AskInv'
    BY <1>9, SendStep
  <1>10. ASSUME NEW i \in AskIds, Forget(i) PROVE AskInv'
    <2>1. recently' \subseteq AskIds /\ UNCHANGED <<ask, askPc, aborted, channel, hand, parked, order, turnOf, cancels>>
      BY <1>10, <1>0 DEF Forget
    <2> QED BY <2>1, <1>0, SignalStep
  <1>11. ASSUME NEW i \in AskIds, Answer(i) PROVE AskInv'
    <2>1. respond(i, "answer") /\ UNCHANGED <<ask, askPc, aborted, channel, turnOf, cancels>>
      BY <1>11 DEF Answer
    <2>2. "answer" \in Values
      BY DEF Values
    <2>3. Removes({i})
      BY <2>1, <2>2, <1>0, RespondRemoves
    <2>4. cancels \ cancels' = {} /\ {i} \in SUBSET AskIds
      BY <2>1
    <2> QED BY <2>1, <2>3, <2>4, <1>0, RemovalStep
  <1>12. ASSUME NEW a \in SessionAgents, CancelTurn(a) PROVE AskInv'
    <2>1. aborted' \subseteq Asks /\ UNCHANGED <<ask, askPc, channel, hand, parked, order, recently, turnOf, cancels>>
      BY <1>12, <1>0 DEF CancelTurn, Abort, kernelVars
    <2> QED BY <2>1, <1>0, SignalStep
  <1>13. ASSUME NEW a \in SessionAgents, TurnEnds(a) PROVE AskInv'
    BY <1>13, TurnEndsStep
  <1>14. ASSUME NEW c \in cancels, cancel_pending_for_turn(c) PROVE AskInv'
    <2>1. take(OfTurn(c), "cancelled") /\ cancels' = cancels \ {c} /\ UNCHANGED <<ask, askPc, aborted, channel, turnOf>>
      BY <1>14 DEF cancel_pending_for_turn
    <2>2. OfTurn(c) \in SUBSET AskIds /\ "cancelled" \in Values
      BY DEF OfTurn, Values
    <2>3. Removes(OfTurn(c))
      BY <2>1, <2>2, <1>0, TakeRemoves
    <2>4. \A d \in cancels \ cancels' : d = c
      BY <2>1
    <2>5. \A i \in AskIds : parked'[i] # NoAsk => ask[parked'[i]].turn # c.turn
      BY <2>3 DEF Removes, OfTurn
    <2> QED BY <2>1, <2>2, <2>3, <2>4, <2>5, <1>0, RemovalStep
  <1>15. CASE UNCHANGED askVars
    <2>1. UNCHANGED <<ask, askPc, aborted, channel, hand, parked, order, recently, turnOf, cancels>>
      BY <1>15 DEF askVars, kernelVars
    <2> QED BY <2>1, <1>0, SignalStep
  <1> QED
    BY <1>1, <1>2, <1>3, <1>4, <1>5, <1>6, <1>7, <1>8, <1>9, <1>10, <1>11, <1>12, <1>13, <1>14, <1>15 DEF AskStep

\* The invariant of every behaviour of the session's interactions.
THEOREM AsksInvariant == AskSpec => []AskInv
  BY AskInvInit, AskInvStep, PTL DEF AskSpec

\* The kernel's maps keep their types, and pending_order lists exactly what is
\* pending (park, respond and cancel_pending_for_turn change both together).
THEOREM AskTypeCorrect == AskSpec => []AskTypeOK
  <1>1. AskInv => AskTypeOK
    BY DEF AskInv, AskTypes
  <1> QED BY <1>1, AsksInvariant, PTL

\* No request is lost while its caller waits: across answers, withdrawals,
\* sweeps and ids used twice it can be answered, or its answer is on the way.
THEOREM NoRequestIsLost == AskSpec => []WaitingIsPending
  <1>1. AskInv => WaitingIsPending
    BY DEF AskInv
  <1> QED BY <1>1, AsksInvariant, PTL

\* An entry whose caller is gone does not outlive the turn it was made in,
\* whichever way the caller went (abort of an approval, the grace of a tool).
THEOREM LeftEntriesAreSwept == AskSpec => []EntriesAreSwept
  <1>1. AskInv => EntriesAreSwept
    BY DEF AskInv
  <1> QED BY <1>1, AsksInvariant, PTL
=============================================================================
