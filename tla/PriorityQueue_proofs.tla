------------------------- MODULE PriorityQueue_proofs -------------------------
(***************************************************************************)
(* The properties of the systolic priority queue, for every queue size,    *)
(* every set of distances and every number of inputs and queries.          *)
(***************************************************************************)
EXTENDS PriorityQueue, TLAPS

-----------------------------------------------------------------------------
(* One insertion: two rounds over an array whose entry 0 is the new input. *)

\* Neighbouring indices have opposite parities.
LEMMA Parity ==
  \A i \in Int : /\ i % 2 \in {0, 1}
                 /\ i % 2 = 0 <=> (i + 1) % 2 = 1
                 /\ i % 2 = 0 <=> (i - 1) % 2 = 1
BY SMT

\* The index round A takes entry i of its result from.
FromA(a, i) ==
  IF i % 2 = 0
  THEN IF i + 1 \in Idx /\ a[i].dist < a[i + 1].dist THEN i + 1 ELSE i
  ELSE IF a[i - 1].dist < a[i].dist THEN i - 1 ELSE i

\* The index round B takes entry i of its result from.
FromB(a, i) ==
  IF i % 2 = 1
  THEN IF i + 1 \in Idx /\ a[i].dist < a[i + 1].dist THEN i + 1 ELSE i
  ELSE IF i # 0 /\ a[i - 1].dist < a[i].dist THEN i - 1 ELSE i

\* Round A permutes the entries.
LEMMA RoundAPermutes ==
  ASSUME NEW a \in [Idx -> Entry]
  PROVE  /\ compare_swap_array_step_A(a) \in [Idx -> Entry]
         /\ \A i \in Idx : /\ FromA(a, i) \in Idx
                           /\ compare_swap_array_step_A(a)[i] = a[FromA(a, i)]
                           /\ FromA(a, FromA(a, i)) = i
  <1>1. ASSUME NEW i \in Idx
        PROVE  /\ FromA(a, i) \in Idx
               /\ compare_swap_array_step_A(a)[i] = a[FromA(a, i)]
    BY PriorityQueueAssumption, Parity
    DEF Idx, FromA, compare_swap_array_step_A, LeftOf, RightOf
  <1>2. ASSUME NEW i \in Idx  PROVE FromA(a, FromA(a, i)) = i
    BY PriorityQueueAssumption, Parity DEF Idx, FromA, Entry
  <1>3. compare_swap_array_step_A(a) \in [Idx -> Entry]
    BY <1>1 DEF compare_swap_array_step_A
  <1> QED BY <1>1, <1>2, <1>3

\* Round B permutes the entries and leaves entry 0 where it is.
LEMMA RoundBPermutes ==
  ASSUME NEW a \in [Idx -> Entry]
  PROVE  /\ compare_swap_array_step_B(a) \in [Idx -> Entry]
         /\ \A i \in Idx : /\ FromB(a, i) \in Idx
                           /\ i = 0 <=> FromB(a, i) = 0
                           /\ compare_swap_array_step_B(a)[i] = a[FromB(a, i)]
                           /\ FromB(a, FromB(a, i)) = i
  <1>1. ASSUME NEW i \in Idx
        PROVE  /\ FromB(a, i) \in Idx
               /\ i = 0 <=> FromB(a, i) = 0
               /\ compare_swap_array_step_B(a)[i] = a[FromB(a, i)]
    BY PriorityQueueAssumption, Parity
    DEF Idx, FromB, compare_swap_array_step_B, LeftOf, RightOf
  <1>2. ASSUME NEW i \in Idx  PROVE FromB(a, FromB(a, i)) = i
    BY PriorityQueueAssumption, Parity DEF Idx, FromB, Entry
  <1>3. compare_swap_array_step_B(a) \in [Idx -> Entry]
    BY <1>1 DEF compare_swap_array_step_B
  <1> QED BY <1>1, <1>2, <1>3

\* The two rounds of one cycle.
Insertion(a) == compare_swap_array_step_B(compare_swap_array_step_A(a))

\* An insertion loses and duplicates nothing: it permutes the entries.
LEMMA InsertionPermutes ==
  ASSUME NEW a \in [Idx -> Entry]
  PROVE  /\ Insertion(a) \in [Idx -> Entry]
         /\ \E p \in [Idx -> Idx] :
              /\ \A i \in Idx : Insertion(a)[i] = a[p[i]]
              /\ \A i, j \in Idx : i # j => p[i] # p[j]
              /\ \A i \in Idx : \E j \in Idx : p[j] = i
  <1> DEFINE b == compare_swap_array_step_A(a)
             p == [i \in Idx |-> FromA(a, FromB(b, i))]
             r == [i \in Idx |-> FromB(b, FromA(a, i))]
  <1>1. b \in [Idx -> Entry]
    BY RoundAPermutes
  <1>2. /\ Insertion(a) \in [Idx -> Entry]
        /\ \A i \in Idx : FromB(b, i) \in Idx /\ Insertion(a)[i] = b[FromB(b, i)]
    BY <1>1, RoundBPermutes DEF Insertion
  <1>3. p \in [Idx -> Idx] /\ r \in [Idx -> Idx]
    BY <1>1, <1>2, RoundAPermutes
  <1>4. \A i \in Idx : Insertion(a)[i] = a[p[i]]
    BY <1>2, RoundAPermutes
  <1>5. \A i \in Idx : r[p[i]] = i /\ p[r[i]] = i
    <2>1. \A i \in Idx : FromA(a, i) \in Idx /\ FromA(a, FromA(a, i)) = i
      BY RoundAPermutes
    <2>2. \A i \in Idx : FromB(b, i) \in Idx /\ FromB(b, FromB(b, i)) = i
      BY <1>1, RoundBPermutes
    <2> QED BY <2>1, <2>2
  <1> HIDE DEF p, r
  <1>6. \A i, j \in Idx : i # j => p[i] # p[j]
    BY <1>5
  <1>7. \A i \in Idx : \E j \in Idx : p[j] = i
    BY <1>3, <1>5
  <1> QED BY <1>2, <1>3, <1>4, <1>6, <1>7

\* If the odd registers dominate before an insertion they do after it, the
\* entry left in position 0 is the farthest, and no register gets farther than
\* the first one was.
LEMMA InsertionDominates ==
  ASSUME NEW a \in [Idx -> Entry],
         \A i, j \in Kept : i % 2 = 1 /\ i < j => a[i].dist >= a[j].dist
  PROVE  LET b == Insertion(a) IN
         /\ \A i, j \in Kept : i % 2 = 1 /\ i < j => b[i].dist >= b[j].dist
         /\ \A j \in Kept : b[j].dist <= b[0].dist /\ b[j].dist <= a[1].dist
  <1> DEFINE m == compare_swap_array_step_A(a)
             b == Insertion(a)
  <1>1. /\ m \in [Idx -> Entry] /\ b \in [Idx -> Entry]
        /\ \A i \in Idx : a[i].dist \in Int /\ m[i].dist \in Int /\ b[i].dist \in Int
    BY RoundAPermutes, InsertionPermutes DEF Entry
  <1>2. 1 \in Idx /\ 1 \in Kept /\ 0 \in Idx /\ Kept \subseteq Idx
    BY PriorityQueueAssumption DEF Idx, Kept
  <1>3. \A j \in Kept : m[j].dist <= a[1].dist /\ m[j].dist <= m[0].dist
    <2> SUFFICES ASSUME NEW j \in Kept
                 PROVE  m[j].dist <= a[1].dist /\ m[j].dist <= m[0].dist
      OBVIOUS
    <2>1. a[1].dist <= m[0].dist /\ m[1].dist <= m[0].dist /\ m[1].dist <= a[1].dist
      BY <1>1, <1>2 DEF compare_swap_array_step_A, LeftOf, RightOf
    <2>2. CASE j = 1
      BY <2>1, <2>2
    <2>3. CASE j # 1
      <3>1. j \in Idx /\ FromA(a, j) \in Kept
        BY <2>3, PriorityQueueAssumption, Parity DEF Idx, Kept, FromA
      <3>2. a[FromA(a, j)].dist <= a[1].dist
        BY <3>1, <1>1, <1>2 DEF Kept
      <3>3. m[j].dist <= a[1].dist
        BY <3>1, <3>2, RoundAPermutes
      <3> QED BY <3>1, <3>3, <2>1, <1>1, <1>2
    <2> QED BY <2>2, <2>3
  <1>4. \A i, j \in Kept : i % 2 = 0 /\ i < j => m[i].dist >= m[j].dist
    <2> SUFFICES ASSUME NEW i \in Kept, NEW j \in Kept, i % 2 = 0, i < j
                 PROVE  m[i].dist >= m[j].dist
      OBVIOUS
    <2>1. i \in Idx /\ j \in Idx /\ i + 1 \in Kept /\ i + 1 \in Idx /\ (i + 1) % 2 = 1
      BY PriorityQueueAssumption, Parity DEF Idx, Kept
    <2>2. m[i].dist >= a[i + 1].dist /\ m[i].dist >= m[i + 1].dist
      BY <1>1, <2>1 DEF compare_swap_array_step_A, LeftOf, RightOf, Idx
    <2>3. CASE j # i + 1
      <3>1. FromA(a, j) \in Kept /\ i + 1 < FromA(a, j)
        BY <2>1, <2>3, PriorityQueueAssumption, Parity DEF Idx, Kept, FromA
      <3>2. m[j].dist <= a[i + 1].dist
        BY <3>1, <2>1, RoundAPermutes
      <3> QED BY <3>2, <2>1, <2>2, <1>1
    <2> QED BY <2>2, <2>3
  <1>5. \A i, j \in Kept : i % 2 = 1 /\ i < j => b[i].dist >= b[j].dist
    <2> SUFFICES ASSUME NEW i \in Kept, NEW j \in Kept, i % 2 = 1, i < j
                 PROVE  b[i].dist >= b[j].dist
      OBVIOUS
    <2>1. i \in Idx /\ j \in Idx /\ i + 1 \in Kept /\ i + 1 \in Idx /\ (i + 1) % 2 = 0
      BY PriorityQueueAssumption, Parity DEF Idx, Kept
    <2>2. b[i].dist >= m[i + 1].dist /\ b[i].dist >= b[i + 1].dist
      BY <1>1, <2>1 DEF Insertion, compare_swap_array_step_B, LeftOf, RightOf, Idx, Kept
    <2>3. CASE j # i + 1
      <3>1. FromB(m, j) \in Kept /\ i + 1 < FromB(m, j)
        BY <2>1, <2>3, PriorityQueueAssumption, Parity DEF Idx, Kept, FromB
      <3>2. b[j].dist <= m[i + 1].dist
        BY <3>1, <2>1, <1>1, <1>4, RoundBPermutes DEF Insertion
      <3> QED BY <3>2, <2>1, <2>2, <1>1
    <2> QED BY <2>2, <2>3
  <1>6. \A j \in Kept : b[j].dist <= b[0].dist /\ b[j].dist <= a[1].dist
    <2> SUFFICES ASSUME NEW j \in Kept
                 PROVE  b[j].dist <= b[0].dist /\ b[j].dist <= a[1].dist
      OBVIOUS
    <2>1. b[0] = m[0] /\ j \in Idx /\ FromB(m, j) \in Kept /\ b[j] = m[FromB(m, j)]
      <3>1. \A i \in Idx : /\ FromB(m, i) \in Idx
                           /\ i = 0 <=> FromB(m, i) = 0
                           /\ b[i] = m[FromB(m, i)]
        BY <1>1, RoundBPermutes DEF Insertion
      <3> HIDE DEF m, b
      <3> QED BY <3>1, <1>2, PriorityQueueAssumption DEF Idx, Kept
    <2> QED BY <2>1, <1>3
  <1> QED BY <1>5, <1>6

-----------------------------------------------------------------------------
(* The inductive invariant.                                                *)

\* The queries still to be answered of a batch being processed.
LeftPositive == pc \in {"init", "insert"} => left > 0

\* What the history says of an entry: the current query's inputs are numbered
\* below iter, and a register holding anything else was left by an earlier
\* query.  Without it an input could be mistaken for a stale register.
Identity ==
  /\ \A e \in inserted : e.query = query_id /\ e.pos < iter
  /\ \A i \in Kept : queue[i].query <= query_id
  /\ pc = "insert" =>
       \A i \in Kept : queue[i] \in inserted \/ queue[i].query < query_id

IInv == /\ TypeOK /\ LeftPositive /\ Identity
        /\ OddDominates /\ KeepsSmallest /\ NoDuplicate /\ NoStaleRegister

\* There is a register besides the input position queue[0].
LEMMA KeptInIdx ==
  /\ 0 \in Idx /\ 1 \in Idx /\ 1 \in Kept
  /\ \A i : i \in Kept <=> i \in Idx /\ i # 0
  BY PriorityQueueAssumption DEF Idx, Kept

\* The invariant holds before the first batch header.
LEMMA InitIInv == Init => IInv
  <1> SUFFICES ASSUME Init PROVE IInv
    OBVIOUS
  <1> USE PriorityQueueAssumption, KeptInIdx DEF Init
  <1>1. TypeOK
    BY DEF TypeOK, Entry
  <1>2. LeftPositive /\ Identity /\ KeepsSmallest /\ NoDuplicate /\ NoStaleRegister
    BY DEF LeftPositive, Identity, KeepsSmallest, NoDuplicate, NoStaleRegister
  <1>3. OddDominates
    BY DEF OddDominates
  <1> QED BY <1>1, <1>2, <1>3 DEF IInv

\* The heart of the argument: an insertion preserves the invariant.
LEMMA InsertIInv ==
  ASSUME IInv, NEW d \in Dist, Insert(d)
  PROVE  IInv'
  <1> DEFINE e == [query |-> query_id, pos |-> iter, dist |-> d]
             a == [queue EXCEPT ![0] = e]
             b == Insertion(a)
  <1> USE KeptInIdx
  <1>1. /\ TypeOK /\ LeftPositive /\ Identity /\ OddDominates
        /\ KeepsSmallest /\ NoDuplicate /\ NoStaleRegister
    BY DEF IInv
  <1>2. /\ pc = "insert" /\ iter' = iter + 1 /\ inserted' = inserted \cup {e}
        /\ queue' = b
        /\ UNCHANGED <<pc, left, query_id, iter_num, s_output>>
    BY DEF Insert, Insertion
  <1>3. e \in Entry /\ a \in [Idx -> Entry] /\ a[0] = e
    BY <1>1, PriorityQueueAssumption DEF TypeOK, Entry
  <1>4. \A i \in Kept : a[i] = queue[i]
    BY <1>1 DEF TypeOK
  <1> HIDE DEF a, e
  <1>5. b \in [Idx -> Entry]
    BY <1>3, InsertionPermutes
  <1>6. PICK p \in [Idx -> Idx] :
              /\ \A i \in Idx : b[i] = a[p[i]]
              /\ \A i, j \in Idx : i # j => p[i] # p[j]
              /\ \A i \in Idx : \E j \in Idx : p[j] = i
    BY <1>3, InsertionPermutes
  <1>7. /\ \A i, j \in Kept : i % 2 = 1 /\ i < j => b[i].dist >= b[j].dist
        /\ \A j \in Kept : b[j].dist <= b[0].dist /\ b[j].dist <= a[1].dist
    <2>1. \A i, j \in Kept : i % 2 = 1 /\ i < j => a[i].dist >= a[j].dist
      BY <1>1, <1>4 DEF OddDominates
    <2> QED BY <2>1, <1>3, InsertionDominates
  <1> HIDE DEF b
  <1>8. TypeOK'
    BY <1>1, <1>2, <1>3, <1>5 DEF TypeOK
  <1>9. LeftPositive' /\ OddDominates'
    BY <1>1, <1>2, <1>7 DEF LeftPositive, OddDominates
  <1>10. \A i \in Kept : queue[i] = e => FALSE
    BY <1>1, <1>2 DEF e, Identity, TypeOK, Entry
  <1>11. e.query = query_id /\ e.pos = iter /\ e.dist = d
    BY DEF e
  <1>12. \A i \in Kept : b[i] = e \/ \E j \in Kept : b[i] = queue[j]
    BY <1>3, <1>4, <1>6
  <1>13. Identity'
    BY <1>1, <1>2, <1>11, <1>12 DEF Identity, TypeOK, Entry
  <1>14. NoStaleRegister'
    BY <1>1, <1>2, <1>12 DEF NoStaleRegister
  <1>15. NoDuplicate'
    <2> SUFFICES ASSUME NEW i \in Kept, NEW j \in Kept, i # j, b[i] \in inserted',
                        b[i] = b[j]
                 PROVE  FALSE
      BY <1>2 DEF NoDuplicate
    <2>1. p[i] \in Idx /\ p[j] \in Idx /\ p[i] # p[j] /\ a[p[i]] = a[p[j]]
      BY <1>6
    <2>2. CASE p[i] = 0 \/ p[j] = 0
      BY <2>1, <2>2, <1>3, <1>4, <1>10
    <2>3. CASE p[i] # 0 /\ p[j] # 0
      <3>1. queue[p[i]] = queue[p[j]] /\ queue[p[i]] \in inserted
        BY <2>1, <2>3, <1>2, <1>4, <1>6, <1>10
      <3> QED BY <3>1, <2>1, <2>3, <1>1 DEF NoDuplicate
    <2> QED BY <2>2, <2>3
  <1>16. KeepsSmallest'
    <2> SUFFICES ASSUME NEW x \in inserted', \A i \in Kept : b[i] # x,
                        NEW k \in Kept
                 PROVE  b[k].dist <= x.dist
      BY <1>2 DEF KeepsSmallest
    <2>1. CASE \E i \in Idx : a[i] = x
      BY <2>1, <1>6, <1>7
    <2>2. CASE \A i \in Idx : a[i] # x
      <3>1. x \in inserted /\ \A i \in Kept : queue[i] # x
        BY <2>2, <1>2, <1>3, <1>4
      <3>2. a[1].dist <= x.dist
        BY <3>1, <1>1, <1>4 DEF KeepsSmallest
      <3>3. a[1].dist \in Int /\ x.dist \in Int /\ b[k].dist \in Int
        BY <3>1, <1>1, <1>3, <1>5 DEF TypeOK, Entry
      <3> QED BY <3>2, <3>3, <1>7
    <2> QED BY <2>1, <2>2
  <1> QED BY <1>8, <1>9, <1>13, <1>14, <1>15, <1>16 DEF IInv

\* Every step preserves the invariant, one case per action of the kernel.
LEMMA NextIInv == IInv /\ [Next]_vars => IInv'
  <1> SUFFICES ASSUME IInv, [Next]_vars PROVE IInv'
    OBVIOUS
  <1> USE KeptInIdx
  <1>0. /\ TypeOK /\ LeftPositive /\ Identity /\ OddDominates
        /\ KeepsSmallest /\ NoDuplicate /\ NoStaleRegister
    BY DEF IInv
  <1>1. CASE ReadHeader
    <2>1. left' \in Nat /\ LeftPositive'
      BY <1>0, <1>1, PriorityQueueAssumption DEF ReadHeader, TypeOK, LeftPositive
    <2>2. TypeOK'
      BY <1>0, <1>1, <2>1 DEF ReadHeader, TypeOK
    <2>3. Identity' /\ NoStaleRegister'
      BY <1>0, <1>1 DEF ReadHeader, Identity, NoStaleRegister
    <2>4. OddDominates' /\ KeepsSmallest' /\ NoDuplicate'
      BY <1>0, <1>1 DEF ReadHeader, OddDominates, KeepsSmallest, NoDuplicate
    <2> QED BY <2>1, <2>2, <2>3, <2>4 DEF IInv
  <1>2. CASE InitQueue
    <2>1. /\ queue' \in [Idx -> Entry]
          /\ \A i \in Idx : queue'[i].dist = LARGE_NUM /\ queue'[i].query = queue[i].query
      BY <1>0, <1>2, PriorityQueueAssumption DEF InitQueue, TypeOK, Entry
    <2>2. /\ pc = "init" /\ pc' = "insert" /\ iter' = 0 /\ query_id' = query_id + 1
          /\ iter_num' \in Nat /\ inserted' = {} /\ UNCHANGED <<left, s_output>>
      BY <1>2, PriorityQueueAssumption DEF InitQueue
    <2>3. TypeOK' /\ LeftPositive'
      BY <1>0, <2>1, <2>2 DEF TypeOK, LeftPositive
    <2>4. Identity'
      BY <1>0, <2>1, <2>2 DEF Identity, TypeOK, Entry
    <2>5. OddDominates'
      BY <2>1, PriorityQueueAssumption DEF OddDominates
    <2>6. KeepsSmallest' /\ NoDuplicate' /\ NoStaleRegister'
      BY <2>1, <2>2 DEF KeepsSmallest, NoDuplicate, NoStaleRegister
    <2> QED BY <2>3, <2>4, <2>5, <2>6 DEF IInv
  <1>3. CASE \E d \in Dist : Insert(d)
    BY <1>3, InsertIInv
  <1>4. CASE WriteOutput
    <2>1. left' \in Nat /\ LeftPositive'
      BY <1>0, <1>4 DEF WriteOutput, TypeOK, LeftPositive
    <2>2. TypeOK'
      BY <1>0, <1>4, <2>1 DEF WriteOutput, TypeOK
    <2>3. Identity' /\ NoStaleRegister'
      BY <1>0, <1>4 DEF WriteOutput, Identity, NoStaleRegister
    <2>4. OddDominates' /\ KeepsSmallest' /\ NoDuplicate'
      BY <1>0, <1>4 DEF WriteOutput, OddDominates, KeepsSmallest, NoDuplicate
    <2> QED BY <2>1, <2>2, <2>3, <2>4 DEF IInv
  <1>5. CASE Terminated \/ UNCHANGED vars
    <2>1. UNCHANGED vars
      BY <1>5 DEF Terminated
    <2> QED BY <1>0, <2>1 DEF vars, IInv, TypeOK, LeftPositive, Identity,
               OddDominates, KeepsSmallest, NoDuplicate, NoStaleRegister
  <1> QED BY <1>1, <1>2, <1>3, <1>4, <1>5 DEF Next

-----------------------------------------------------------------------------
(* The theorems.                                                           *)

\* The invariant holds in every state of insert_wrapper.
LEMMA Inductive == Spec => []IInv
BY InitIInv, NextIInv, PTL DEF Spec

\* The registers and counters of insert_wrapper always have their types; in
\* particular the loop over the queries of a batch never runs past its end.
THEOREM TypeCorrect == Spec => []TypeOK
<1>1. IInv => TypeOK
  BY DEF IInv
<1> QED BY <1>1, Inductive, PTL

\* For every queue size and every input order, the registers of insert_wrapper
\* hold the smallest of the distances read so far.
THEOREM Smallest == Spec => []KeepsSmallest
<1>1. IInv => KeepsSmallest
  BY DEF IInv
<1> QED BY <1>1, Inductive, PTL

\* The two rounds of compare_swap never store one input in two registers.
THEOREM Once == Spec => []NoDuplicate
<1>1. IInv => NoDuplicate
  BY DEF IInv
<1> QED BY <1>1, Inductive, PTL

\* Although insert_wrapper resets only the distances between queries, nothing
\* of an earlier query shows up with a real distance.
THEOREM NotStale == Spec => []NoStaleRegister
<1>1. IInv => NoStaleRegister
  BY DEF IInv
<1> QED BY <1>1, Inductive, PTL

\* The partial order that one round A and one round B per input keep up.
THEOREM Dominates == Spec => []OddDominates
<1>1. IInv => OddDominates
  BY DEF IInv
<1> QED BY <1>1, Inductive, PTL
=============================================================================
