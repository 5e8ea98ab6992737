---------------------------- MODULE DataflowLemmas ----------------------------
(***************************************************************************)
(* What the proofs about the dataflow modules share: induction, division,  *)
(* the sequence of all elements of sequences of one length or of several,  *)
(* parts of a numbered stream that move from one queue to the next, and    *)
(* the streams of Dataflow when what passes through each is known.         *)
(***************************************************************************)
EXTENDS Dataflow, SequenceTheorems, WellFoundedInduction, TLAPS

-----------------------------------------------------------------------------
(* Numbers.                                                                *)

\* Induction, for a set of numbers.
LEMMA Induction ==
  ASSUME NEW S \in SUBSET Nat, 0 \in S, \A n \in S : n + 1 \in S
  PROVE  S = Nat
  <1> DEFINE R == {p \in Nat \X Nat : p[1] < p[2]}
             T == Nat \ S
  <1>1. IsWellFoundedOn(R, Nat)
    BY NatLessThanWellFounded DEF OpToRel
  <1> SUFFICES ASSUME T # {} PROVE FALSE
    OBVIOUS
  <1>2. PICK x \in T : \A y \in T : ~ (<<y, x>> \in R)
    <2> HIDE DEF R
    <2> QED BY <1>1, WFMin
  <1>3. x - 1 \in Nat /\ <<x - 1, x>> \in R
    OBVIOUS
  <1> QED BY <1>2, <1>3

\* Quotient and remainder are what they should be.
LEMMA Division ==
  ASSUME NEW n \in Nat \ {0}, NEW q \in Nat, NEW r \in 0 .. n - 1
  PROVE  (q * n + r) \div n = q /\ (q * n + r) % n = r
  <1> DEFINE a == q * n + r
             d == a \div n
             m == a % n
  <1>1. a \in Nat /\ d \in Int /\ m \in 0 .. n - 1 /\ a = n * d + m
    OBVIOUS
  <1>2. (d - q) * n = r - m
    <2>1. n * d = d * n /\ (d - q) * n = d * n - q * n
      BY <1>1
    <2> QED BY <1>1, <2>1
  <1>3. d = q
    <2>1. CASE d >= q + 1
      <3>1. (d - q) * n >= n
        BY <1>1, <2>1
      <3> QED BY <1>1, <1>2, <3>1
    <2>2. CASE d <= q - 1
      <3>1. (d - q) * n <= 0 - n
        BY <1>1, <2>2
      <3> QED BY <1>1, <1>2, <3>1
    <2> QED BY <1>1, <2>1, <2>2
  <1> QED BY <1>1, <1>3

LEMMA Quotient ==
  ASSUME NEW n \in Nat \ {0}, NEW k \in Nat
  PROVE  /\ k \div n \in Nat /\ k % n \in 0 .. n - 1 /\ k = (k \div n) * n + (k % n)
         /\ \A m \in Nat : k < m * n => k \div n < m
  <1>1. /\ k \div n \in Int /\ k % n \in 0 .. n - 1
        /\ k = n * (k \div n) + (k % n)
    OBVIOUS
  <1> DEFINE d == k \div n
             r == k % n
  <1>2. n * d = d * n
    BY <1>1
  <1> HIDE DEF d, r
  <1>3. d \in Int /\ r \in 0 .. n - 1 /\ k = d * n + r
    BY <1>1, <1>2 DEF d, r
  <1>4. d \in Nat
    <2> SUFFICES ASSUME d <= 0 - 1 PROVE FALSE
      BY <1>3
    <2>1. d * n <= 0 - n
      BY <1>3
    <2> QED BY <1>3, <2>1
  <1>5. ASSUME NEW m \in Nat, k < m * n PROVE d < m
    <2> SUFFICES ASSUME m <= d PROVE FALSE
      BY <1>3
    <2>1. m * n <= d * n
      BY <1>3
    <2> QED BY <1>3, <1>5, <2>1
  <1> QED BY <1>3, <1>4, <1>5 DEF d, r

\* Counting to the next number moves on to the next multiple or not.
LEMMA NextQuotient ==
  ASSUME NEW n \in Nat \ {0}, NEW p \in Nat
  PROVE  /\ (p + 1) % n = 0 => (p + 1) \div n = (p \div n) + 1
         /\ (p + 1) % n # 0 => (p + 1) \div n = p \div n
  <1> DEFINE d == p \div n
             m == p % n
  <1>1. d \in Nat /\ m \in 0 .. n - 1 /\ p = d * n + m
    BY Quotient
  <1> HIDE DEF d, m
  <1>2. CASE m + 1 = n
    <2>1. (d + 1) * n = d * n + n
      BY <1>1
    <2>2. p + 1 = (d + 1) * n + 0 /\ d + 1 \in Nat /\ 0 \in 0 .. n - 1
      BY <1>1, <1>2, <2>1
    <2>3. ((d + 1) * n + 0) \div n = d + 1 /\ ((d + 1) * n + 0) % n = 0
      BY <2>2, Division
    <2>4. (p + 1) \div n = d + 1 /\ (p + 1) % n = 0
      BY <2>2, <2>3
    <2> QED BY <2>4 DEF d
  <1>3. CASE m + 1 # n
    <2>1. p + 1 = d * n + (m + 1) /\ m + 1 \in 0 .. n - 1
      BY <1>1, <1>3
    <2>2. (p + 1) \div n = d /\ (p + 1) % n = m + 1
      BY <1>1, <2>1, Division
    <2>3. (p + 1) % n # 0
      BY <1>1, <2>2
    <2> QED BY <2>2, <2>3 DEF d
  <1> QED BY <1>2, <1>3

-----------------------------------------------------------------------------
(* Sequences of anything.                                                  *)

IsSequence(s) == \E S : s \in Seq(S)

LEMMA Sequences ==
  ASSUME NEW s, IsSequence(s), NEW v
  PROVE  /\ Len(s) \in Nat /\ (s = <<>> <=> Len(s) = 0)
         /\ s \o <<>> = s /\ s \o <<v>> = Append(s, v)
         /\ IsSequence(Append(s, v)) /\ Len(Append(s, v)) = Len(s) + 1
         /\ \A j \in 1 .. Len(s) : Append(s, v)[j] = s[j]
         /\ Append(s, v)[Len(s) + 1] = v
         /\ s # <<>> => /\ Head(s) = s[1]
                        /\ IsSequence(Tail(s)) /\ Len(Tail(s)) = Len(s) - 1
                        /\ \A j \in 1 .. Len(s) - 1 : Tail(s)[j] = s[j + 1]
  <1>1. PICK S : s \in Seq(S)
    BY DEF IsSequence
  <1>2. s \in Seq(S \cup {v}) /\ v \in S \cup {v}
    BY <1>1
  <1>3. /\ Append(s, v) \in Seq(S \cup {v}) /\ Len(Append(s, v)) = Len(s) + 1
        /\ \A j \in 1 .. Len(s) : Append(s, v)[j] = s[j]
        /\ Append(s, v)[Len(s) + 1] = v
    BY <1>2
  <1>4. Len(s) \in Nat /\ (s = <<>> <=> Len(s) = 0) /\ s \o <<>> = s
    BY <1>1
  <1>5. s \o <<v>> = Append(s, v)
    BY <1>2
  <1>6. s # <<>> => /\ Head(s) = s[1]
                    /\ Tail(s) \in Seq(S) /\ Len(Tail(s)) = Len(s) - 1
                    /\ \A j \in 1 .. Len(s) - 1 : Tail(s)[j] = s[j + 1]
    BY <1>1
  <1> QED BY <1>3, <1>4, <1>5, <1>6 DEF IsSequence

\* The elements of sequences of length L, all in one.
LEMMA FlattenUniform ==
  ASSUME NEW V, NEW N \in Nat, NEW L \in Nat \ {0}, NEW seqs \in [1 .. N -> Seq(V)],
         \A q \in 1 .. N : Len(seqs[q]) = L
  PROVE  /\ FlattenSeq(seqs) \in Seq(V) /\ Len(FlattenSeq(seqs)) = N * L
         /\ \A k \in 1 .. N * L :
              FlattenSeq(seqs)[k] = seqs[(k - 1) \div L + 1][((k - 1) % L) + 1]
  <1> DEFINE E(i) == [k \in 1 .. i * L |-> seqs[(k - 1) \div L + 1][((k - 1) % L) + 1]]
             Step(f, i) == IF i = 1 THEN seqs[i] ELSE f[i - 1] \o seqs[i]
             h == CHOOSE f : f = [i \in 1 .. Len(seqs) |-> Step(f, i)]
             g == [i \in 1 .. N |-> E(i)]
  <1>1. Len(seqs) = N
    OBVIOUS
  <1>2. ASSUME NEW i \in 1 .. N
        PROVE  i * L \in Nat /\ E(i) \in Seq(V) /\ Len(E(i)) = i * L
    <2>1. i * L \in Nat
      OBVIOUS
    <2>2. ASSUME NEW k \in 1 .. i * L
          PROVE  seqs[(k - 1) \div L + 1][((k - 1) % L) + 1] \in V
      <3> DEFINE p == k - 1
      <3>1. p \in Nat /\ p < i * L /\ i \in Nat
        BY <2>1
      <3>2. p \div L \in Nat /\ p % L \in 0 .. L - 1 /\ p \div L < i
        <4> HIDE DEF p
        <4> QED BY <3>1, Quotient
      <3>3. (k - 1) \div L + 1 \in 1 .. N /\ ((k - 1) % L) + 1 \in 1 .. L
        BY <3>2
      <3> QED BY <3>3
    <2> QED BY <2>1, <2>2
  <1>3. ASSUME NEW i \in 1 .. N PROVE E(i) = Step(g, i)
    <2>1. ASSUME NEW j \in 1 .. L, NEW m \in Nat
          PROVE  (m * L + j - 1) \div L = m /\ ((m * L + j - 1) % L) + 1 = j
      <3>1. j - 1 \in 0 .. L - 1 /\ m * L + (j - 1) = m * L + j - 1
        OBVIOUS
      <3>2. (m * L + (j - 1)) \div L = m /\ (m * L + (j - 1)) % L = j - 1
        BY <3>1, Division
      <3> QED BY <3>1, <3>2
    <2>2. CASE i = 1
      <3>1. seqs[1] \in Seq(V) /\ Len(seqs[1]) = L /\ E(1) \in Seq(V) /\ Len(E(1)) = L
        BY <1>2, <2>2
      <3>2. ASSUME NEW j \in 1 .. L PROVE E(1)[j] = seqs[1][j]
        <4>1. (j - 1) \div L = 0 /\ ((j - 1) % L) + 1 = j
          <5>1. 0 * L + j - 1 = j - 1 /\ 0 \in Nat
            OBVIOUS
          <5> QED BY <2>1, <5>1
        <4>2. j \in 1 .. 1 * L
          OBVIOUS
        <4> QED BY <4>1, <4>2
      <3> HIDE DEF E
      <3> QED BY <2>2, <3>1, <3>2, SeqEqual
    <2>3. CASE i > 1
      <3> DEFINE m == i - 1
      <3>1. m \in 1 .. N /\ m \in Nat /\ g[m] = E(m)
        BY <2>3
      <3>2. /\ E(m) \in Seq(V) /\ Len(E(m)) = m * L /\ m * L \in Nat
            /\ seqs[i] \in Seq(V) /\ Len(seqs[i]) = L
            /\ E(i) \in Seq(V) /\ Len(E(i)) = i * L
        BY <1>2, <3>1
      <3>3. i * L = m * L + L
        OBVIOUS
      <3> DEFINE c == E(m) \o seqs[i]
      <3>4. /\ c \in Seq(V) /\ Len(c) = m * L + L
            /\ \A k \in 1 .. m * L + L :
                 c[k] = IF k <= m * L THEN E(m)[k] ELSE seqs[i][k - m * L]
        <4> DEFINE u == E(m)
                   v == seqs[i]
        <4>1. /\ u \in Seq(V) /\ Len(u) = m * L /\ v \in Seq(V) /\ Len(v) = L
              /\ c = u \o v
          BY <3>2
        <4>2. /\ u \o v \in Seq(V) /\ Len(u \o v) = Len(u) + Len(v)
              /\ \A k \in 1 .. Len(u) + Len(v) :
                   (u \o v)[k] = IF k <= Len(u) THEN u[k] ELSE v[k - Len(u)]
          <5> HIDE DEF u, v
          <5> QED BY <4>1, ConcatProperties
        <4> HIDE DEF c, u, v, m
        <4>3. c \in Seq(V) /\ Len(c) = m * L + L
          BY <4>1, <4>2
        <4>4. ASSUME NEW k \in 1 .. m * L + L
              PROVE  c[k] = IF k <= m * L THEN u[k] ELSE v[k - m * L]
          BY <4>1, <4>2
        <4> QED BY <4>3, <4>4 DEF u, v
      <3>5. ASSUME NEW k \in 1 .. i * L PROVE E(i)[k] = c[k]
        <4>1. CASE k <= m * L
          <5>1. k \in 1 .. m * L
            BY <3>2, <4>1
          <5> QED BY <3>2, <3>3, <3>4, <4>1, <5>1
        <4>2. CASE k > m * L
          <5> DEFINE j == k - m * L
          <5>1. j \in 1 .. L /\ k = m * L + j
            BY <3>2, <3>3, <4>2
          <5>2. (m * L + j - 1) \div L = m /\ ((m * L + j - 1) % L) + 1 = j
            BY <2>1, <3>1, <5>1
          <5>3. (k - 1) \div L + 1 = i /\ ((k - 1) % L) + 1 = j
            BY <5>1, <5>2
          <5>4. E(i)[k] = seqs[i][j]
            BY <5>3
          <5> HIDE DEF c, E
          <5> QED BY <3>2, <3>3, <3>4, <4>2, <5>1, <5>4
        <4> QED BY <3>2, <4>1, <4>2
      <3>6. E(i) = c
        <4> HIDE DEF c, E
        <4>1. Len(E(i)) = Len(c) /\ \A k \in 1 .. Len(E(i)) : E(i)[k] = c[k]
          <5> HIDE DEF m
          <5> QED BY <3>2, <3>3, <3>4, <3>5
        <4> QED BY <3>2, <3>4, <4>1, SeqEqual
      <3> HIDE DEF E, g
      <3> QED BY <2>3, <3>1, <3>6
    <2> QED BY <2>2, <2>3
  <1>4. N > 0 => h = [i \in 1 .. N |-> Step(h, i)]
    <2>1. g = [i \in 1 .. Len(seqs) |-> Step(g, i)]
      BY <1>1, <1>3
    <2> HIDE DEF g, Step
    <2> QED BY <1>1, <2>1
  <1>5. ASSUME NEW i \in 1 .. N PROVE h[i] = E(i)
    <2> DEFINE S == {n \in Nat : n + 1 \in 1 .. N => h[n + 1] = E(n + 1)}
    <2> HIDE DEF E, h
    <2>1. 0 \in S
      <3> SUFFICES ASSUME 1 \in 1 .. N PROVE h[1] = E(1)
        OBVIOUS
      <3>1. h[1] = seqs[1]
        BY <1>4
      <3> QED BY <1>3, <3>1
    <2>2. ASSUME NEW n \in S PROVE n + 1 \in S
      <3> SUFFICES ASSUME n + 2 \in 1 .. N PROVE h[n + 2] = E(n + 2)
        OBVIOUS
      <3>1. n + 1 \in 1 .. N /\ h[n + 1] = E(n + 1)
        OBVIOUS
      <3>a. n + 2 # 1 /\ (n + 2) - 1 = n + 1
        OBVIOUS
      <3>2. h[n + 2] = h[n + 1] \o seqs[n + 2]
        <4>1. h = [k \in 1 .. N |-> Step(h, k)]
          <5>1. N > 0
            OBVIOUS
          <5> QED BY <1>4, <5>1
        <4>2. h[n + 2] = Step(h, n + 2)
          <5> HIDE DEF Step
          <5> QED BY <4>1
        <4> QED BY <3>a, <4>2
      <3>3. E(n + 2) = E(n + 1) \o seqs[n + 2]
        <4>1. E(n + 2) = Step(g, n + 2) /\ g[n + 1] = E(n + 1)
          BY <1>3, <3>1
        <4> HIDE DEF g
        <4> QED BY <3>a, <4>1
      <3> QED BY <3>1, <3>2, <3>3
    <2>3. S = Nat
      <3> HIDE DEF S
      <3>1. S \in SUBSET Nat
        BY DEF S
      <3> QED BY <2>1, <2>2, <3>1, Induction
    <2>4. i - 1 \in S
      <3> HIDE DEF S
      <3> QED BY <2>3
    <2> QED BY <2>4
  <1>6. CASE N = 0
    <2>1. FlattenSeq(seqs) = seqs /\ seqs = <<>>
      BY <1>1, <1>6 DEF FlattenSeq
    <2>2. N * L = 0
      BY <1>6
    <2> QED BY <2>1, <2>2
  <1>7. CASE N > 0
    <2>1. FlattenSeq(seqs) = h[Len(seqs)]
      BY <1>1, <1>7 DEF FlattenSeq
    <2>2. FlattenSeq(seqs) = E(N)
      <3> HIDE DEF h, E
      <3> QED BY <1>1, <1>5, <1>7, <2>1
    <2>3. E(N) \in Seq(V) /\ Len(E(N)) = N * L
      BY <1>2, <1>7
    <2> QED BY <2>2, <2>3
  <1> QED BY <1>6, <1>7

-----------------------------------------------------------------------------
(* A stream numbered from 1 on is a function F; the part of it from number  *)
(* a + 1 on that a queue holds.                                            *)

InOrder(F, s, a) == \A j \in 1 .. Len(s) : s[j] = F[a + j]

LEMMA NoneInOrder == \A F, a : InOrder(F, <<>>, a)
BY DEF InOrder

\* The next one comes.
LEMMA AppendInOrder ==
  ASSUME NEW F, NEW a \in Nat, NEW s, IsSequence(s), InOrder(F, s, a)
  PROVE  InOrder(F, Append(s, F[a + Len(s) + 1]), a)
  <1>1. /\ Len(s) \in Nat /\ Len(Append(s, F[a + Len(s) + 1])) = Len(s) + 1
        /\ \A j \in 1 .. Len(s) : Append(s, F[a + Len(s) + 1])[j] = s[j]
        /\ Append(s, F[a + Len(s) + 1])[Len(s) + 1] = F[a + Len(s) + 1]
    BY Sequences
  <1> SUFFICES ASSUME NEW j \in 1 .. Len(s) + 1
               PROVE  Append(s, F[a + Len(s) + 1])[j] = F[a + j]
    BY <1>1 DEF InOrder
  <1>2. CASE j = Len(s) + 1
    BY <1>1, <1>2
  <1>3. CASE j # Len(s) + 1
    BY <1>1, <1>3 DEF InOrder
  <1> QED BY <1>2, <1>3

\* The first one goes.
LEMMA TailInOrder ==
  ASSUME NEW F, NEW a \in Nat, NEW s, IsSequence(s), s # <<>>, InOrder(F, s, a)
  PROVE  Head(s) = F[a + 1] /\ InOrder(F, Tail(s), a + 1)
  <1>1. /\ Len(s) \in Nat /\ Len(s) # 0 /\ Head(s) = s[1] /\ Len(Tail(s)) = Len(s) - 1
        /\ \A j \in 1 .. Len(s) - 1 : Tail(s)[j] = s[j + 1]
    BY Sequences
  <1>2. s[1] = F[a + 1]
    BY <1>1 DEF InOrder
  <1>3. ASSUME NEW j \in 1 .. Len(s) - 1 PROVE Tail(s)[j] = F[a + 1 + j]
    <2>1. j + 1 \in 1 .. Len(s) /\ a + (j + 1) = a + 1 + j
      BY <1>1
    <2> QED BY <1>1, <2>1 DEF InOrder
  <1> QED BY <1>1, <1>2, <1>3 DEF InOrder

\* Two parts are one.
LEMMA ConcatInOrder ==
  ASSUME NEW F, NEW a \in Nat, NEW V, NEW s \in Seq(V), NEW t \in Seq(V),
         InOrder(F, s, a), InOrder(F, t, a + Len(s))
  PROVE  InOrder(F, s \o t, a)
  <1> SUFFICES ASSUME NEW j \in 1 .. Len(s \o t) PROVE (s \o t)[j] = F[a + j]
    BY DEF InOrder
  <1>1. Len(s) \in Nat /\ Len(t) \in Nat /\ j \in 1 .. Len(s) + Len(t)
        /\ (s \o t)[j] = IF j <= Len(s) THEN s[j] ELSE t[j - Len(s)]
    BY ConcatProperties
  <1>2. CASE j <= Len(s)
    BY <1>1, <1>2 DEF InOrder
  <1>3. CASE j > Len(s)
    <2>1. j - Len(s) \in 1 .. Len(t) /\ a + Len(s) + (j - Len(s)) = a + j
      BY <1>1, <1>3
    <2> QED BY <1>1, <1>3, <2>1 DEF InOrder
  <1> QED BY <1>1, <1>2, <1>3

-----------------------------------------------------------------------------
(* Sequences of sequences, of any lengths.                                 *)

\* T holds the sums of the first lengths: T[j] elements are in the first j of
\* the N sequences.
IsTotal(T, N, len) ==
  T[0] = 0 /\ \A j \in 1 .. N : len[j] \in Nat /\ T[j] = T[j - 1] + len[j]

\* Lengths have sums.
LEMMA TotalExists ==
  ASSUME NEW N \in Nat, NEW len, \A j \in 1 .. N : len[j] \in Nat
  PROVE  \E T \in [0 .. N -> Nat] : IsTotal(T, N, len)
  <1> DEFINE Good(m) == m <= N => \E T \in [0 .. m -> Nat] : IsTotal(T, m, len)
             S == {m \in Nat : Good(m)}
  <1>1. 0 \in S
    <2>1. [j \in 0 .. 0 |-> 0] \in [0 .. 0 -> Nat] /\ IsTotal([j \in 0 .. 0 |-> 0], 0, len)
      BY DEF IsTotal
    <2> QED BY <2>1
  <1>2. ASSUME NEW m \in S PROVE m + 1 \in S
    <2> SUFFICES ASSUME m + 1 <= N PROVE \E T \in [0 .. m + 1 -> Nat] : IsTotal(T, m + 1, len)
      OBVIOUS
    <2>1. PICK T \in [0 .. m -> Nat] : IsTotal(T, m, len)
      OBVIOUS
    <2> DEFINE U == [j \in 0 .. m + 1 |-> IF j <= m THEN T[j] ELSE T[m] + len[m + 1]]
    <2>2. len[m + 1] \in Nat /\ T[m] \in Nat
      BY <2>1
    <2>3. U \in [0 .. m + 1 -> Nat]
      BY <2>1, <2>2
    <2>4. IsTotal(U, m + 1, len)
      <3>1. U[0] = 0
        BY <2>1 DEF IsTotal
      <3>2. ASSUME NEW j \in 1 .. m + 1 PROVE len[j] \in Nat /\ U[j] = U[j - 1] + len[j]
        <4>1. CASE j <= m
          BY <2>1, <4>1 DEF IsTotal
        <4>2. CASE j = m + 1
          <5>1. U[m + 1] = T[m] + len[m + 1] /\ U[(m + 1) - 1] = T[m]
            OBVIOUS
          <5> HIDE DEF U
          <5> QED BY <2>2, <4>2, <5>1
        <4>3. j <= m \/ j = m + 1
          OBVIOUS
        <4> QED BY <4>1, <4>2, <4>3, Zenon
      <3> HIDE DEF U
      <3> QED BY <3>1, <3>2 DEF IsTotal
    <2> HIDE DEF U
    <2> QED BY <2>3, <2>4
  <1>3. S = Nat
    <2> HIDE DEF Good
    <2>1. S \in SUBSET Nat
      OBVIOUS
    <2> HIDE DEF S
    <2> QED BY <1>1, <1>2, <2>1, Induction
  <1>4. N \in S
    <2> HIDE DEF S
    <2> QED BY <1>3
  <1> QED BY <1>4

\* They do not decrease, and every number up to the last lies in one sequence.
LEMMA Totals ==
  ASSUME NEW N \in Nat, NEW len, NEW T, IsTotal(T, N, len)
  PROVE  /\ \A j \in 0 .. N : T[j] \in Nat
         /\ \A i, j \in 0 .. N : i <= j => T[i] <= T[j]
         /\ \A x \in 1 .. T[N] : \E j \in 1 .. N : \E k \in 1 .. len[j] : x = T[j - 1] + k
  <1> DEFINE Good(m) ==
               m <= N => /\ \A j \in 0 .. m : T[j] \in Nat
                         /\ \A i \in 0 .. m : T[i] <= T[m]
                         /\ \A x \in 1 .. T[m] :
                              \E j \in 1 .. m : \E k \in 1 .. len[j] : x = T[j - 1] + k
             S == {m \in Nat : Good(m)}
  <1>1. 0 \in S
    BY DEF IsTotal
  <1>2. ASSUME NEW m \in S PROVE m + 1 \in S
    <2> SUFFICES ASSUME m + 1 <= N PROVE Good(m + 1)
      OBVIOUS
    <2>1. /\ \A j \in 0 .. m : T[j] \in Nat
          /\ \A i \in 0 .. m : T[i] <= T[m]
          /\ \A x \in 1 .. T[m] :
               \E j \in 1 .. m : \E k \in 1 .. len[j] : x = T[j - 1] + k
      OBVIOUS
    <2>2. len[m + 1] \in Nat /\ T[m + 1] = T[m] + len[m + 1] /\ T[m] \in Nat
      <3>1. m + 1 \in 1 .. N /\ (m + 1) - 1 = m /\ m \in 0 .. m
        OBVIOUS
      <3>2. T[m + 1] = T[(m + 1) - 1] + len[m + 1] /\ len[m + 1] \in Nat
        BY <3>1 DEF IsTotal
      <3> QED BY <2>1, <3>1, <3>2
    <2>3. \A j \in 0 .. m + 1 : T[j] \in Nat
      BY <2>1, <2>2
    <2>4. \A i \in 0 .. m + 1 : T[i] <= T[m + 1]
      BY <2>1, <2>2
    <2>5. ASSUME NEW x \in 1 .. T[m + 1]
          PROVE  \E j \in 1 .. m + 1 : \E k \in 1 .. len[j] : x = T[j - 1] + k
      <3>1. CASE x <= T[m]
        <4>1. PICK j \in 1 .. m : \E k \in 1 .. len[j] : x = T[j - 1] + k
          BY <2>1, <2>2, <3>1
        <4> QED BY <4>1
      <3>2. CASE x > T[m]
        <4>1. x - T[m] \in 1 .. len[m + 1] /\ x = T[(m + 1) - 1] + (x - T[m])
          BY <2>2, <3>2
        <4> QED BY <4>1
      <3> QED BY <2>2, <3>1, <3>2
    <2> QED BY <2>3, <2>4, <2>5
  <1>3. S = Nat
    <2> HIDE DEF Good
    <2>1. S \in SUBSET Nat
      OBVIOUS
    <2> HIDE DEF S
    <2> QED BY <1>1, <1>2, <2>1, Induction
  <1>4. \A m \in 0 .. N : Good(m)
    <2> HIDE DEF Good
    <2> QED BY <1>3
  <1>5. \A m \in 0 .. N : /\ T[m] \in Nat /\ \A i \in 0 .. m : T[i] <= T[m]
    BY <1>4
  <1>6. \A x \in 1 .. T[N] : \E j \in 1 .. N : \E k \in 1 .. len[j] : x = T[j - 1] + k
    BY <1>4
  <1> QED BY <1>5, <1>6

\* s holds the elements of the N sequences, one sequence after the other.
Flattened(s, V, N, seqs, T) ==
  /\ s \in Seq(V) /\ Len(s) = T[N]
  /\ \A j \in 1 .. N : \A k \in 1 .. Len(seqs[j]) :
       T[j - 1] + k \in 1 .. T[N] /\ s[T[j - 1] + k] = seqs[j][k]

\* The elements of several sequences, all in one.
LEMMA FlattenTotal ==
  ASSUME NEW V, NEW N \in Nat, NEW seqs \in [1 .. N -> Seq(V)], NEW len, NEW T,
         IsTotal(T, N, len), \A j \in 1 .. N : len[j] = Len(seqs[j])
  PROVE  Flattened(FlattenSeq(seqs), V, N, seqs, T)
  <1> DEFINE Step(f, i) == IF i = 1 THEN seqs[i] ELSE f[i - 1] \o seqs[i]
             Solved(m) == \E f : f = [i \in 1 .. m |-> Step(f, i)]
             h == CHOOSE f : f = [i \in 1 .. Len(seqs) |-> Step(f, i)]
             Good(s, m) ==
               /\ s \in Seq(V) /\ Len(s) = T[m]
               /\ \A j \in 1 .. m : \A k \in 1 .. Len(seqs[j]) : s[T[j - 1] + k] = seqs[j][k]
  <1>1. /\ Len(seqs) = N /\ \A j \in 0 .. N : T[j] \in Nat
        /\ \A i, j \in 0 .. N : i <= j => T[i] <= T[j]
        /\ T[0] = 0 /\ \A j \in 1 .. N : Len(seqs[j]) \in Nat /\ T[j] = T[j - 1] + Len(seqs[j])
    <2>1. T[0] = 0 /\ \A j \in 1 .. N : Len(seqs[j]) \in Nat /\ T[j] = T[j - 1] + Len(seqs[j])
      BY DEF IsTotal
    <2>2. /\ \A j \in 0 .. N : T[j] \in Nat
          /\ \A i, j \in 0 .. N : i <= j => T[i] <= T[j]
      BY Totals
    <2> QED BY <2>1, <2>2
  <1>2. ASSUME NEW m \in Nat, Solved(m) PROVE Solved(m + 1)
    <2>1. PICK f : f = [i \in 1 .. m |-> Step(f, i)]
      BY <1>2
    <2> DEFINE g == [i \in 1 .. m + 1 |->
                       IF i <= m THEN f[i] ELSE IF m = 0 THEN seqs[1] ELSE f[m] \o seqs[m + 1]]
    <2>2. ASSUME NEW i \in 1 .. m + 1 PROVE g[i] = Step(g, i)
      <3>1. CASE i <= m
        <4>1. i \in 1 .. m /\ g[i] = f[i] /\ (i # 1 => g[i - 1] = f[i - 1])
          BY <3>1
        <4>2. f[i] = Step(f, i)
          <5> HIDE DEF Step
          <5> QED BY <2>1, <4>1
        <4> HIDE DEF g
        <4> QED BY <4>1, <4>2
      <3>2. CASE i = m + 1 /\ m = 0
        BY <3>2
      <3>3. CASE i = m + 1 /\ m > 0
        <4>1. i - 1 = m /\ g[m] = f[m] /\ i # 1 /\ ~ (i <= m) /\ m # 0
          BY <3>3
        <4>2. g[i] = f[m] \o seqs[m + 1]
          BY <4>1
        <4> HIDE DEF g
        <4> QED BY <3>3, <4>1, <4>2
      <3> QED BY <3>1, <3>2, <3>3
    <2>3. g = [i \in 1 .. m + 1 |-> Step(g, i)]
      <3> HIDE DEF Step
      <3> QED BY <2>2
    <2> HIDE DEF g, Step
    <2> QED BY <2>3
  <1>3. Solved(0)
    <2> DEFINE f == [i \in 1 .. 0 |-> 0]
    <2>1. f = [i \in 1 .. 0 |-> Step(f, i)]
      <3> HIDE DEF Step
      <3> QED OBVIOUS
    <2> HIDE DEF f, Step
    <2> QED BY <2>1
  <1>4. Solved(N)
    <2> DEFINE S == {m \in Nat : Solved(m)}
    <2> HIDE DEF Solved
    <2>1. S \in SUBSET Nat /\ 0 \in S /\ \A m \in S : m + 1 \in S
      BY <1>2, <1>3
    <2>2. S = Nat
      <3> HIDE DEF S
      <3> QED BY <2>1, Induction
    <2> QED BY <2>2
  <1>5. h = [i \in 1 .. N |-> Step(h, i)]
    <2> HIDE DEF Step
    <2> QED BY <1>1, <1>4
  <1>6. ASSUME NEW m \in 1 .. N, m > 1 => Good(h[m - 1], m - 1) PROVE Good(h[m], m)
    <2>0. h[m] = Step(h, m)
      <3> HIDE DEF Step, h
      <3> QED BY <1>5
    <2>1. CASE m = 1
      <3>1. h[m] = seqs[1] /\ T[1] = Len(seqs[1]) /\ T[0] = 0 /\ seqs[1] \in Seq(V)
        BY <1>1, <2>0, <2>1
      <3>2. \A j \in 1 .. m : j = 1
        BY <2>1
      <3>3. \A k \in 1 .. Len(seqs[1]) : T[1 - 1] + k = k
        BY <3>1
      <3> HIDE DEF h
      <3> QED BY <2>1, <3>1, <3>2, <3>3
    <2>2. CASE m > 1
      <3> DEFINE u == h[m - 1]
                 v == seqs[m]
      <3>1. h[m] = u \o v
        <4> HIDE DEF h
        <4> QED BY <2>0, <2>2
      <3>2. /\ u \in Seq(V) /\ Len(u) = T[m - 1] /\ v \in Seq(V)
            /\ \A j \in 1 .. m - 1 : \A k \in 1 .. Len(seqs[j]) : u[T[j - 1] + k] = seqs[j][k]
        BY <1>6, <2>2
      <3>3. /\ u \o v \in Seq(V) /\ Len(u \o v) = Len(u) + Len(v)
            /\ \A k \in 1 .. Len(u) + Len(v) :
                 (u \o v)[k] = IF k <= Len(u) THEN u[k] ELSE v[k - Len(u)]
        <4> HIDE DEF u, v
        <4>1. u \in Seq(V) /\ v \in Seq(V)
          BY <3>2
        <4> QED BY <4>1, ConcatProperties
      <3>4. /\ T[m - 1] \in Nat /\ Len(v) \in Nat /\ T[m] = T[m - 1] + Len(v)
            /\ m - 1 \in 0 .. N
        BY <1>1, <2>2
      <3> HIDE DEF h, u, v
      <3>5. ASSUME NEW j \in 1 .. m, NEW k \in 1 .. Len(seqs[j])
            PROVE  (u \o v)[T[j - 1] + k] = seqs[j][k]
        <4>1. T[j - 1] \in Nat /\ T[j] = T[j - 1] + Len(seqs[j]) /\ Len(seqs[j]) \in Nat
          BY <1>1
        <4>2. CASE j < m
          <5>1. T[j] <= T[m - 1] /\ j \in 1 .. m - 1
            <6>1. j \in 1 .. m - 1 /\ j \in 0 .. N /\ m - 1 \in 0 .. N /\ j <= m - 1
              BY <3>4, <4>2
            <6>2. \A d, e \in 0 .. N : d <= e => T[d] <= T[e]
              BY <1>1
            <6> QED BY <6>1, <6>2, Zenon
          <5>2. T[j - 1] + k \in 1 .. T[m - 1]
            <6> DEFINE a == T[j - 1]
                       b == T[j]
                       n == Len(seqs[j])
                       e == T[m - 1]
            <6>1. a \in Nat /\ n \in Nat /\ b = a + n /\ e \in Nat /\ b <= e /\ k \in 1 .. n
              BY <3>4, <4>1, <5>1
            <6> HIDE DEF a, b, n, e
            <6>2. a + k \in 1 .. e
              BY <6>1
            <6> QED BY <6>2 DEF a, e
          <5> QED BY <3>2, <3>3, <3>4, <5>1, <5>2
        <4>3. CASE j = m
          <5> DEFINE x == T[m - 1] + k
          <5>1. x \in 1 .. T[m - 1] + Len(v) /\ ~ (x <= T[m - 1]) /\ x - T[m - 1] = k
            BY <3>4, <4>3 DEF v
          <5> HIDE DEF x
          <5>2. (u \o v)[x] = v[x - T[m - 1]]
            BY <3>2, <3>3, <5>1
          <5> QED BY <4>3, <5>1, <5>2 DEF v, x
        <4>4. j < m \/ j = m
          OBVIOUS
        <4> QED BY <4>2, <4>3, <4>4, Zenon
      <3>6. u \o v \in Seq(V) /\ Len(u \o v) = T[m]
        BY <3>2, <3>3, <3>4
      <3>7. Good(u \o v, m)
        BY <3>5, <3>6
      <3> HIDE DEF Good
      <3> QED BY <3>1, <3>7
    <2> HIDE DEF Good, h
    <2>3. m = 1 \/ m > 1
      OBVIOUS
    <2> QED BY <2>1, <2>2, <2>3, Zenon
  <1>7. N > 0 => Good(h[N], N)
    <2> DEFINE Ok(m) == m + 1 \in 1 .. N => Good(h[m + 1], m + 1)
               S == {m \in Nat : Ok(m)}
    <2> HIDE DEF Good, h
    <2>1. 0 \in S
      BY <1>6
    <2>2. ASSUME NEW m \in S PROVE m + 1 \in S
      <3> SUFFICES ASSUME (m + 1) + 1 \in 1 .. N PROVE Good(h[(m + 1) + 1], (m + 1) + 1)
        OBVIOUS
      <3> DEFINE n == (m + 1) + 1
      <3>1. m + 1 \in 1 .. N /\ n - 1 = m + 1 /\ n \in 1 .. N /\ n > 1
        OBVIOUS
      <3>2. Good(h[m + 1], m + 1)
        BY <3>1
      <3> HIDE DEF n
      <3>3. Good(h[n], n)
        BY <1>6, <3>1, <3>2
      <3> QED BY <3>3 DEF n
    <2>3. S = Nat
      <3> HIDE DEF Ok
      <3>1. S \in SUBSET Nat
        OBVIOUS
      <3> HIDE DEF S
      <3> QED BY <2>1, <2>2, <3>1, Induction
    <2>4. ASSUME N > 0 PROVE N - 1 \in S
      <3> HIDE DEF S
      <3> QED BY <2>3, <2>4
    <2>5. ASSUME N > 0 PROVE Good(h[N], N)
      <3>1. (N - 1) + 1 = N
        OBVIOUS
      <3> QED BY <2>4, <2>5, <3>1
    <2> QED BY <2>5
  <1>8. CASE N = 0
    <2>1. FlattenSeq(seqs) = seqs /\ seqs = <<>>
      BY <1>1, <1>8 DEF FlattenSeq
    <2> QED BY <1>1, <1>8, <2>1 DEF Flattened
  <1>9. CASE N > 0
    <2>1. FlattenSeq(seqs) = h[Len(seqs)]
      BY <1>1, <1>9 DEF FlattenSeq
    <2>2. FlattenSeq(seqs) = h[N] /\ Good(h[N], N)
      BY <1>1, <1>7, <1>9, <2>1
    <2>3. ASSUME NEW j \in 1 .. N, NEW k \in 1 .. Len(seqs[j]) PROVE T[j - 1] + k \in 1 .. T[N]
      BY <1>1
    <2> HIDE DEF h
    <2> QED BY <2>2, <2>3 DEF Flattened
  <1> QED BY <1>8, <1>9

\* Pairs that number the elements: the k-th of the j-th sequence is <<j, k>>.
PairsOf(N, len) == FlattenSeq([j \in 1 .. N |-> [k \in 1 .. len[j] |-> <<j, k>>]])

\* Each number has its pair.
LEMMA Numbering ==
  ASSUME NEW N \in Nat, NEW len, NEW T, IsTotal(T, N, len)
  PROVE  /\ Len(PairsOf(N, len)) = T[N]
         /\ \A j \in 1 .. N : \A k \in 1 .. len[j] :
              T[j - 1] + k \in 1 .. T[N] /\ PairsOf(N, len)[T[j - 1] + k] = <<j, k>>
  <1> DEFINE V == Nat \X Nat
             seqs == [j \in 1 .. N |-> [k \in 1 .. len[j] |-> <<j, k>>]]
  <1>1. \A j \in 1 .. N : len[j] \in Nat
    BY DEF IsTotal
  <1>2. ASSUME NEW j \in 1 .. N PROVE seqs[j] \in Seq(V) /\ Len(seqs[j]) = len[j]
    <2> DEFINE n == len[j]
    <2>1. n \in Nat /\ seqs[j] = [k \in 1 .. n |-> <<j, k>>] /\ j \in Nat
      BY <1>1
    <2> HIDE DEF n, seqs
    <2>2. \A k \in 1 .. n : <<j, k>> \in V
      BY <2>1
    <2> QED BY <2>1, <2>2 DEF n
  <1>3. seqs \in [1 .. N -> Seq(V)]
    BY <1>2
  <1>4. \A j \in 1 .. N : \A k \in 1 .. len[j] : seqs[j][k] = <<j, k>>
    OBVIOUS
  <1> HIDE DEF seqs, V
  <1> DEFINE s == FlattenSeq(seqs)
  <1>6. /\ s \in Seq(V) /\ Len(s) = T[N]
        /\ \A j \in 1 .. N : \A k \in 1 .. Len(seqs[j]) :
              T[j - 1] + k \in 1 .. T[N] /\ s[T[j - 1] + k] = seqs[j][k]
    <2>1. \A j \in 1 .. N : len[j] = Len(seqs[j])
      BY <1>2
    <2>2. Flattened(FlattenSeq(seqs), V, N, seqs, T)
      BY <1>3, <2>1, FlattenTotal
    <2> QED BY <2>2 DEF Flattened
  <1>7. PairsOf(N, len) = s
    BY DEF PairsOf, seqs
  <1> HIDE DEF s
  <1> QED BY <1>2, <1>4, <1>6, <1>7

\* The sums of the first lengths.
Total(N, len) == CHOOSE T \in [0 .. N -> Nat] : IsTotal(T, N, len)

\* Lengths have totals, and Total is one of them.
LEMMA TotalIs ==
  ASSUME NEW N \in Nat, NEW len, \A j \in 1 .. N : len[j] \in Nat
  PROVE  Total(N, len) \in [0 .. N -> Nat] /\ IsTotal(Total(N, len), N, len)
BY TotalExists DEF Total

\* T[j] things are in the first j of N groups; num[x] is the place of thing x.
Counting(T, N, len, num) ==
  /\ T[0] = 0 /\ \A j \in 0 .. N : T[j] \in Nat
  /\ \A i, j \in 0 .. N : i <= j => T[i] <= T[j]
  /\ \A j \in 1 .. N : T[j] = T[j - 1] + len[j]
  /\ \A x \in 1 .. T[N] : \E j \in 1 .. N : \E k \in 1 .. len[j] : x = T[j - 1] + k
  /\ Len(num) = T[N]
  /\ \A j \in 1 .. N : \A k \in 1 .. len[j] :
       T[j - 1] + k \in 1 .. T[N] /\ num[T[j - 1] + k] = <<j, k>>

\* Such a total counts: every number up to the last has one place.
LEMMA TotalCounts ==
  ASSUME NEW N \in Nat, NEW len, NEW T, IsTotal(T, N, len)
  PROVE  Counting(T, N, len, PairsOf(N, len))
  <1>2. T[0] = 0 /\ \A j \in 1 .. N : T[j] = T[j - 1] + len[j]
    BY DEF IsTotal
  <1>3. /\ \A j \in 0 .. N : T[j] \in Nat
        /\ \A i, j \in 0 .. N : i <= j => T[i] <= T[j]
        /\ \A x \in 1 .. T[N] : \E j \in 1 .. N : \E k \in 1 .. len[j] : x = T[j - 1] + k
    BY Totals
  <1> DEFINE num == PairsOf(N, len)
  <1>4. /\ Len(num) = T[N]
        /\ \A j \in 1 .. N : \A k \in 1 .. len[j] :
             T[j - 1] + k \in 1 .. T[N] /\ num[T[j - 1] + k] = <<j, k>>
    BY Numbering
  <1> HIDE DEF num
  <1>5. Counting(T, N, len, num)
    BY <1>2, <1>3, <1>4 DEF Counting
  <1> QED BY <1>5 DEF num

\* So does Total.
LEMMA TotalFacts ==
  ASSUME NEW N \in Nat, NEW len, \A j \in 1 .. N : len[j] \in Nat
  PROVE  Counting(Total(N, len), N, len, PairsOf(N, len))
BY TotalIs, TotalCounts

-----------------------------------------------------------------------------
(* The streams of Dataflow.  H[c] holds the values written to stream c, in  *)
(* order; so far rd[c] of them were read and wr[c] written.                 *)

FlowInv(H, S, rd, wr) ==
  /\ DOMAIN fifo = S
  /\ \A c \in S : /\ rd[c] \in Nat /\ wr[c] \in Nat
                   /\ IsSequence(fifo[c]) /\ wr[c] = rd[c] + Len(fifo[c])
                   /\ InOrder(H[c], fifo[c], rd[c])

\* The numbers after one value of each stream of C.
Counted(S, n, C) == [c \in S |-> IF c \in C THEN n[c] + 1 ELSE n[c]]

\* A step of Dataflow reads the next values; if it writes what comes next, the
\* streams hold what they should.
LEMMA FlowStep ==
  ASSUME NEW H, NEW S, NEW rd, NEW wr, FlowInv(H, S, rd, wr),
         NEW takes \in SUBSET S, NEW puts, DOMAIN puts \in SUBSET S, Transfer(takes, puts),
         takes \cap DOMAIN puts = {},
         \A c \in DOMAIN puts : puts[c] = H[c][wr[c] + 1]
  PROVE  /\ FlowInv(H, S, Counted(S, rd, takes), Counted(S, wr, DOMAIN puts))'
         /\ \A c \in takes : Head(fifo[c]) = H[c][rd[c] + 1] /\ rd[c] < wr[c]
  <1> DEFINE R == Counted(S, rd, takes)
             W == Counted(S, wr, DOMAIN puts)
  <1>1. DOMAIN fifo' = S
    BY DEF FlowInv, Transfer
  <1>2. ASSUME NEW c \in S
        PROVE  /\ R[c] \in Nat /\ W[c] \in Nat
               /\ IsSequence(fifo'[c]) /\ W[c] = R[c] + Len(fifo'[c])
               /\ InOrder(H[c], fifo'[c], R[c])
               /\ c \in takes => Head(fifo[c]) = H[c][rd[c] + 1] /\ rd[c] < wr[c]
    <2> DEFINE s == fifo[c]
               t == fifo'[c]
               a == rd[c]
               b == wr[c]
    <2>1. /\ a \in Nat /\ b \in Nat /\ IsSequence(s) /\ b = a + Len(s) /\ InOrder(H[c], s, a)
          /\ Len(s) \in Nat /\ (s = <<>> <=> Len(s) = 0)
      <3>1. a \in Nat /\ b \in Nat /\ IsSequence(s) /\ b = a + Len(s) /\ InOrder(H[c], s, a)
        BY DEF FlowInv
      <3> QED BY <3>1, Sequences
    <2>2. /\ t = (IF c \in takes THEN Tail(s) ELSE s)
                   \o (IF c \in DOMAIN puts THEN <<puts[c]>> ELSE <<>>)
          /\ c \in takes => s # <<>>
      BY DEF FlowInv, Transfer
    <2>3. /\ R[c] = (IF c \in takes THEN a + 1 ELSE a)
          /\ W[c] = (IF c \in DOMAIN puts THEN b + 1 ELSE b)
      BY DEF Counted
    <2> HIDE DEF R, W, s, t, a, b
    <2>4. CASE c \in takes
      <3>1. t = Tail(s) \o <<>> /\ s # <<>> /\ R[c] = a + 1 /\ W[c] = b
        BY <2>2, <2>3, <2>4
      <3>2. IsSequence(Tail(s)) /\ Len(Tail(s)) = Len(s) - 1
        BY <2>1, <3>1, Sequences
      <3>3. t = Tail(s)
        BY <3>1, <3>2, Sequences
      <3>4. Head(s) = H[c][a + 1] /\ InOrder(H[c], Tail(s), a + 1)
        BY <2>1, <3>1, TailInOrder
      <3>7. /\ R[c] \in Nat /\ W[c] \in Nat /\ IsSequence(t) /\ W[c] = R[c] + Len(t)
            /\ c \in takes => a < b
        BY <2>1, <3>1, <3>2, <3>3, <3>4
      <3> QED BY <2>1, <3>1, <3>2, <3>3, <3>4, <3>7, Zenon DEF a, b, s, t
    <2>5. CASE c \in DOMAIN puts
      <3> DEFINE v == H[c][b + 1]
      <3>1. c \notin takes /\ puts[c] = v
        BY <2>5 DEF b
      <3>2. t = s \o <<v>> /\ R[c] = a /\ W[c] = b + 1
        BY <2>2, <2>3, <2>5, <3>1
      <3>3. v = H[c][a + Len(s) + 1]
        BY <2>1
      <3> HIDE DEF v
      <3>4. t = Append(s, v) /\ IsSequence(t) /\ Len(t) = Len(s) + 1
        <4>1. /\ s \o <<v>> = Append(s, v)
              /\ IsSequence(Append(s, v)) /\ Len(Append(s, v)) = Len(s) + 1
          BY <2>1, Sequences
        <4> QED BY <3>2, <4>1
      <3>5. InOrder(H[c], Append(s, H[c][a + Len(s) + 1]), a)
        BY <2>1, AppendInOrder
      <3>6. InOrder(H[c], t, a)
        BY <3>3, <3>4, <3>5
      <3>7. /\ R[c] \in Nat /\ W[c] \in Nat /\ IsSequence(t) /\ W[c] = R[c] + Len(t)
            /\ c \in takes => a < b
        BY <2>1, <3>1, <3>2, <3>4, <3>6
      <3> QED BY <2>1, <3>1, <3>2, <3>4, <3>6, <3>7, Zenon DEF a, b, s, t
    <2>6. CASE c \notin takes /\ c \notin DOMAIN puts
      <3>1. t = s \o <<>> /\ R[c] = a /\ W[c] = b
        BY <2>2, <2>3, <2>6
      <3>2. t = s
        BY <2>1, <3>1, Sequences
      <3> QED BY <2>1, <2>6, <3>1, <3>2 DEF a, b, s, t
    <2> QED BY <2>4, <2>5, <2>6
  <1> HIDE DEF R, W
  <1>3. FlowInv(H, S, R, W)'
    BY <1>1, <1>2 DEF FlowInv
  <1> QED BY <1>2, <1>3 DEF R, W
=============================================================================
