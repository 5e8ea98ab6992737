------------------------ MODULE LUTConstruction_proofs -------------------------
(***************************************************************************)
(* The construction of the lookup tables, for any input, stream depths,    *)
(* dimension, numbers of sub-vectors, PEs and table rows, and packet size. *)
(* As in Scan_proofs the input fixes what passes through every stream      *)
(* (History), however the processes interleave.  In this order:            *)
(*   1. the input in numbers: batches, queries, probed cells;              *)
(*   2. the arithmetic of the interleavings: which PE gets which element,  *)
(*      and where it keeps it;                                             *)
(*   3. the history of each stream, its reader and its writer;             *)
(*   4. where a process is, given how many values it has read and written, *)
(*      and what is in its arrays (ProcessInv), and that others' steps do  *)
(*      not move it (Frame);                                               *)
(*   5. the invariant (LUTInv), and one lemma per action;                  *)
(*   6. what the rows then say.                                            *)
(***************************************************************************)
EXTENDS LUTConstruction, DataflowLemmas

-----------------------------------------------------------------------------
(* The input in numbers.                                                   *)

BatchNum(r) == Len(r)
Size(r, b) == IF b \in 1 .. BatchNum(r) THEN r[b].queries ELSE 0
NProbe(r, b) == r[b].nprobe
HeaderOf(r, b) == IF b \in 1 .. BatchNum(r) THEN Header(Size(r, b), NProbe(r, b)) ELSE TerminateHeader

\* Queries.
QueryLens(r) == [b \in 1 .. BatchNum(r) + 1 |-> Size(r, b)]
QueryTotal(r) == Total(BatchNum(r) + 1, QueryLens(r))
QueryNum(r) == QueryTotal(r)[BatchNum(r)]
ProbesOf(r) == FlattenSeq([b \in DOMAIN r |-> [q \in 1 .. r[b].queries |-> r[b].nprobe]])

\* Probed cells: their queries, their vectors.
ProbeTotal(r) == Total(QueryNum(r), ProbesOf(r))
ProbeNum(r) == ProbeTotal(r)[QueryNum(r)]
Probe(r) == PairsOf(QueryNum(r), ProbesOf(r))
QueryVector(n) == <<"query", n>>
CenterVector(r, g) == <<"center", Probe(r)[g][1], Probe(r)[g][2]>>

\* The sizes of the circuit.
LEMMA Positive ==
  /\ D \in Nat \ {0} /\ M \in Nat \ {0} /\ LUT_ENTRY_NUM \in Nat \ {0}
  /\ SUB_PE_NUM \in Nat \ {0} /\ FLOATS \in Nat \ {0}
BY LUTAssumption

\* The batches of an input.
LEMMA Batches ==
  ASSUME NEW r \in Requests
  PROVE  /\ BatchNum(r) \in Nat /\ DOMAIN r = 1 .. BatchNum(r)
         /\ \A b : Size(r, b) \in Nat
         /\ \A b \in 1 .. BatchNum(r) : NProbe(r, b) \in Nat \ {0} /\ r[b].queries = Size(r, b)
  <1> DEFINE R == [queries : Nat, nprobe : Nat \ {0}]
  <1>1. r \in Seq(R)
    BY LUTAssumption
  <1>2. \A x : x \in R => x.nprobe \in Nat \ {0} /\ x.queries \in Nat
    OBVIOUS
  <1> HIDE DEF R
  <1>3. BatchNum(r) \in Nat /\ DOMAIN r = 1 .. BatchNum(r) /\ \A b \in 1 .. BatchNum(r) : r[b] \in R
    BY <1>1 DEF BatchNum
  <1>4. \A b \in 1 .. BatchNum(r) : r[b].nprobe \in Nat \ {0} /\ r[b].queries \in Nat
    BY <1>2, <1>3
  <1> QED BY <1>3, <1>4 DEF NProbe, Size

\* The queries, each with the number of cells it probes.
LEMMA QueryFacts ==
  ASSUME NEW r \in Requests
  PROVE  /\ QueryTotal(r)[0] = 0 /\ QueryNum(r) \in Nat
         /\ \A b \in 0 .. BatchNum(r) + 1 : QueryTotal(r)[b] \in 0 .. QueryNum(r)
         /\ \A b \in 1 .. BatchNum(r) + 1 : QueryTotal(r)[b] = QueryTotal(r)[b - 1] + Size(r, b)
         /\ \A b \in 1 .. BatchNum(r) : \A q \in 1 .. Size(r, b) :
              /\ QueryTotal(r)[b - 1] + q \in 1 .. QueryNum(r)
              /\ ProbesOf(r)[QueryTotal(r)[b - 1] + q] = NProbe(r, b)
         /\ Len(ProbesOf(r)) = QueryNum(r) /\ DOMAIN ProbesOf(r) = 1 .. QueryNum(r)
         /\ \A n \in 1 .. QueryNum(r) : ProbesOf(r)[n] \in Nat \ {0}
  <1> DEFINE B == BatchNum(r)
             len == QueryLens(r)
             T == QueryTotal(r)
             V == Nat \ {0}
             seqs == [b \in 1 .. B |-> [q \in 1 .. r[b].queries |-> r[b].nprobe]]
             s == ProbesOf(r)
  <1>1. B \in Nat /\ B + 1 \in Nat /\ \A b : Size(r, b) \in Nat
    BY Batches
  <1>2. \A b \in 1 .. B + 1 : len[b] = Size(r, b)
    BY DEF QueryLens
  <1>3. T = Total(B + 1, len)
    BY DEF QueryTotal
  <1>4. Size(r, B + 1) = 0
    BY <1>1 DEF Size
  <1>9. QueryNum(r) = T[B]
    BY DEF QueryNum
  <1>15. \A b \in 1 .. B : /\ NProbe(r, b) \in V /\ Size(r, b) \in Nat
                           /\ seqs[b] = [q \in 1 .. Size(r, b) |-> NProbe(r, b)]
    BY Batches DEF NProbe
  <1>16. Size(r, B + 1) = 0 /\ B + 1 \in 1 .. B + 1 /\ (B + 1) - 1 = B /\ B \in 0 .. B + 1
    BY <1>1, <1>4
  <1>17. s = FlattenSeq(seqs) /\ seqs = [b \in 1 .. B |-> seqs[b]]
    BY Batches DEF ProbesOf
  <1> HIDE DEF B, len, T, seqs, s
  <1>18. \A b \in 1 .. B : /\ seqs[b] \in Seq(V) /\ Len(seqs[b]) = Size(r, b)
                           /\ \A q \in 1 .. Size(r, b) : seqs[b][q] = NProbe(r, b)
    <2> TAKE b \in 1 .. B
    <2> DEFINE k == Size(r, b)
               v == NProbe(r, b)
    <2>1. k \in Nat /\ v \in V /\ seqs[b] = [q \in 1 .. k |-> v]
      BY <1>15
    <2> HIDE DEF k, v, V
    <2>2. [q \in 1 .. k |-> v] \in Seq(V) /\ Len([q \in 1 .. k |-> v]) = k
      BY <2>1
    <2> QED BY <2>1, <2>2 DEF k, v
  <1>5. /\ T[0] = 0 /\ \A j \in 0 .. B + 1 : T[j] \in Nat
        /\ \A i, j \in 0 .. B + 1 : i <= j => T[i] <= T[j]
        /\ \A j \in 1 .. B + 1 : T[j] = T[j - 1] + len[j]
    <2>1. Counting(T, B + 1, len, PairsOf(B + 1, len))
      BY <1>1, <1>2, <1>3, TotalFacts
    <2> QED BY <2>1 DEF Counting
  <1>6. IsTotal(T, B, len)
    BY <1>1, <1>2, <1>5 DEF IsTotal
  <1>11. \A b \in 1 .. B : len[b] = Size(r, b) /\ b \in 1 .. B + 1 /\ len[b] = Len(seqs[b])
    BY <1>1, <1>2, <1>18
  <1>7. Flattened(s, V, B, seqs, T)
    <2>1. seqs \in [1 .. B -> Seq(V)]
      BY <1>17, <1>18
    <2> HIDE DEF V
    <2>2. Flattened(FlattenSeq(seqs), V, B, seqs, T)
      BY <1>1, <1>6, <1>11, <2>1, FlattenTotal
    <2> QED BY <1>17, <2>2
  <1>8. /\ s \in Seq(V) /\ Len(s) = T[B]
        /\ \A j \in 1 .. B : \A k \in 1 .. Len(seqs[j]) :
             T[j - 1] + k \in 1 .. T[B] /\ s[T[j - 1] + k] = seqs[j][k]
    BY <1>7 DEF Flattened
  <1>10. \A b \in 0 .. B + 1 : T[b] \in 0 .. T[B]
    <2>1. T[B + 1] = T[B]
      <3>1. T[B + 1] = T[(B + 1) - 1] + len[B + 1] /\ len[B + 1] = 0 /\ T[B] \in Nat
        BY <1>2, <1>5, <1>16
      <3> QED BY <1>16, <3>1
    <2> QED BY <1>1, <1>5, <1>16, <2>1
  <1>12. /\ T[0] = 0 /\ T[B] \in Nat
         /\ \A b \in 1 .. B + 1 : T[b] = T[b - 1] + Size(r, b)
    BY <1>1, <1>2, <1>5
  <1>13. \A b \in 1 .. B : \A q \in 1 .. Size(r, b) :
           T[b - 1] + q \in 1 .. T[B] /\ s[T[b - 1] + q] = NProbe(r, b)
    <2> TAKE b \in 1 .. B
    <2> TAKE q \in 1 .. Size(r, b)
    <2>1. q \in 1 .. Len(seqs[b]) /\ seqs[b][q] = NProbe(r, b)
      BY <1>18
    <2> QED BY <1>8, <2>1
  <1>14. DOMAIN s = 1 .. T[B] /\ \A n \in 1 .. T[B] : s[n] \in V
    BY <1>8, <1>12
  <1> QED BY <1>8, <1>9, <1>10, <1>12, <1>13, <1>14 DEF B, T, s, V

\* A probed cell: its number, its query.
LEMMA ProbeFacts ==
  ASSUME NEW r \in Requests
  PROVE  /\ ProbeTotal(r)[0] = 0 /\ ProbeNum(r) \in Nat
         /\ \A n \in 0 .. QueryNum(r) : ProbeTotal(r)[n] \in 0 .. ProbeNum(r)
         /\ \A m, n \in 0 .. QueryNum(r) : m <= n => ProbeTotal(r)[m] <= ProbeTotal(r)[n]
         /\ \A n \in 1 .. QueryNum(r) : ProbeTotal(r)[n] = ProbeTotal(r)[n - 1] + ProbesOf(r)[n]
         /\ \A n \in 1 .. QueryNum(r) : \A k \in 1 .. ProbesOf(r)[n] :
              /\ ProbeTotal(r)[n - 1] + k \in 1 .. ProbeNum(r)
              /\ Probe(r)[ProbeTotal(r)[n - 1] + k] = <<n, k>>
         /\ \A g \in 1 .. ProbeNum(r) : \E n \in 1 .. QueryNum(r) :
              \E k \in 1 .. ProbesOf(r)[n] : g = ProbeTotal(r)[n - 1] + k
         /\ IsTotal(ProbeTotal(r), QueryNum(r), ProbesOf(r))
  <1> DEFINE N == QueryNum(r)
             len == ProbesOf(r)
             T == ProbeTotal(r)
             num == Probe(r)
  <1>1. N \in Nat /\ \A n \in 1 .. N : len[n] \in Nat
    BY QueryFacts
  <1>2. T = Total(N, len) /\ num = PairsOf(N, len) /\ ProbeNum(r) = T[N]
    BY DEF ProbeTotal, Probe, ProbeNum
  <1> HIDE DEF N, len, T, num
  <1>3. Counting(T, N, len, num) /\ IsTotal(T, N, len)
    BY <1>1, <1>2, TotalFacts, TotalIs
  <1>4. /\ T[0] = 0 /\ \A j \in 0 .. N : T[j] \in Nat
        /\ \A i, j \in 0 .. N : i <= j => T[i] <= T[j]
        /\ \A j \in 1 .. N : T[j] = T[j - 1] + len[j]
        /\ \A x \in 1 .. T[N] : \E j \in 1 .. N : \E k \in 1 .. len[j] : x = T[j - 1] + k
        /\ \A j \in 1 .. N : \A k \in 1 .. len[j] :
             T[j - 1] + k \in 1 .. T[N] /\ num[T[j - 1] + k] = <<j, k>>
    BY <1>3 DEF Counting
  <1>5. T[N] \in Nat /\ \A n \in 0 .. N : T[n] \in 0 .. T[N]
    BY <1>1, <1>4
  <1> QED BY <1>2, <1>3, <1>4, <1>5 DEF N, len, T, num

-----------------------------------------------------------------------------
(* Arithmetic of the interleavings.                                        *)

\* The number x is written z, k, j, of which k runs to b and j to a.
Written(a, b, z, k, j, x) ==
  /\ a \in Nat \ {0} /\ b \in Nat \ {0}
  /\ z \in Nat /\ k \in 0 .. b - 1 /\ j \in 0 .. a - 1 /\ x = (z * b + k) * a + j
DigitsAre(a, b, z, k, j, x) ==
  /\ x \in Nat /\ x \div a = z * b + k /\ x % a = j
  /\ (x \div a) % b = k /\ (x \div a) \div b = z
  /\ x \div (a * b) = z /\ x % (a * b) = k * a + j
  /\ z * b + k \in Nat /\ k * a + j \in 0 .. a * b - 1

\* These are its digits.
LEMMA Digits ==
  ASSUME NEW a, NEW b, NEW z, NEW k, NEW j, NEW x, Written(a, b, z, k, j, x)
  PROVE  DigitsAre(a, b, z, k, j, x)
  <1>0. /\ a \in Nat \ {0} /\ b \in Nat \ {0}
        /\ z \in Nat /\ k \in 0 .. b - 1 /\ j \in 0 .. a - 1 /\ x = (z * b + k) * a + j
    BY DEF Written
  <1>1. z * b \in Nat
    <2>1. \A u, v \in Nat : u * v \in Nat
      OBVIOUS
    <2> QED BY <1>0, <2>1
  <1> DEFINE q == z * b + k
  <1>2. q \in Nat
    BY <1>0, <1>1
  <1>3. x = q * a + j
    BY <1>0
  <1>4. q \div b = z /\ q % b = k
    BY <1>0, <1>1, Division
  <1> HIDE DEF q
  <1>5. x \div a = q /\ x % a = j
    BY <1>0, <1>2, <1>3, Division
  <1> DEFINE c == a * b
             m == k * a + j
  <1>6. c \in Nat \ {0} /\ m \in 0 .. c - 1
    <2>1. \A u, v \in Nat \ {0} : u * v \in Nat \ {0}
      OBVIOUS
    <2>2. k * a \in Nat
      <3>1. \A u, v \in Nat : u * v \in Nat
        OBVIOUS
      <3> QED BY <1>0, <3>1
    <2>3. (k + 1) * a = k * a + a /\ (k + 1) * a <= b * a /\ b * a = a * b
      <3>1. \A u, v, w \in Nat : u <= v => u * w <= v * w
        OBVIOUS
      <3>2. k + 1 <= b /\ k + 1 \in Nat
        BY <1>0
      <3>3. (k + 1) * a = k * a + a /\ b * a = a * b
        BY <1>0
      <3> QED BY <1>0, <3>1, <3>2, <3>3
    <2> QED BY <1>0, <2>1, <2>2, <2>3
  <1>7. x = z * c + m
    <2>1. (z * b + k) * a = (z * b) * a + k * a
      BY <1>0, <1>1
    <2>2. (z * b) * a = z * (a * b)
      BY <1>0
    <2>3. z * (a * b) \in Nat /\ k * a \in Nat
      <3>1. \A u, v \in Nat : u * v \in Nat
        OBVIOUS
      <3>2. a * b \in Nat /\ z \in Nat /\ k \in Nat /\ a \in Nat
        BY <1>0, <3>1
      <3> DEFINE ab == a * b
      <3> HIDE DEF ab
      <3>3. z * ab \in Nat /\ k * a \in Nat
        BY <3>1, <3>2 DEF ab
      <3> QED BY <3>3 DEF ab
    <2> QED BY <1>0, <2>1, <2>2, <2>3
  <1> HIDE DEF c, m
  <1>8. x \div c = z /\ x % c = m
    BY <1>0, <1>6, <1>7, Division
  <1>9. x \in Nat
    <2>1. q * a \in Nat
      <3>1. \A u, v \in Nat : u * v \in Nat
        OBVIOUS
      <3> QED BY <1>0, <1>2, <3>1
    <2> QED BY <1>0, <1>3, <2>1
  <1> QED BY <1>2, <1>4, <1>5, <1>6, <1>8, <1>9 DEF q, c, m, DigitsAre

\* Every number has such digits.
LEMMA HasDigits ==
  ASSUME NEW a \in Nat \ {0}, NEW b \in Nat \ {0}, NEW x \in Nat
  PROVE  \E z, k, j : Written(a, b, z, k, j, x)
  <1> DEFINE q == x \div a
             j == x % a
             z == q \div b
             k == q % b
  <1>1. q \in Nat /\ j \in 0 .. a - 1 /\ x = q * a + j
    BY Quotient
  <1> HIDE DEF q, j
  <1>2. z \in Nat /\ k \in 0 .. b - 1 /\ q = z * b + k
    BY <1>1, Quotient
  <1> HIDE DEF z, k
  <1>3. Written(a, b, z, k, j, x)
    BY <1>1, <1>2 DEF Written
  <1> QED BY <1>3

\* Of P things dealt out in turn to n, how many number s has got.
Passes(n, P, s) == P \div n + (IF s < P % n THEN 1 ELSE 0)

\* The next thing goes to the next in turn, and the others have what they had.
LEMMA NextPass ==
  ASSUME NEW n \in Nat \ {0}, NEW P \in Nat
  PROVE  /\ P % n \in 0 .. n - 1 /\ Passes(n, P, P % n) = P \div n /\ P \div n \in Nat
         /\ \A s \in 0 .. n - 1 :
              /\ Passes(n, P, s) \in Nat
              /\ Passes(n, P + 1, s) = IF s = P % n THEN Passes(n, P, s) + 1 ELSE Passes(n, P, s)
  <1> DEFINE d == P \div n
             m == P % n
  <1>1. d \in Nat /\ m \in 0 .. n - 1 /\ P = d * n + m
    BY Quotient
  <1> HIDE DEF d, m
  <1>2. CASE m + 1 = n
    <2>1. (d + 1) * n = d * n + n
      BY <1>1
    <2>2. P + 1 = (d + 1) * n + 0 /\ d + 1 \in Nat /\ 0 \in 0 .. n - 1
      BY <1>1, <1>2, <2>1
    <2>3. ((d + 1) * n + 0) \div n = d + 1 /\ ((d + 1) * n + 0) % n = 0
      BY <2>2, Division
    <2>4. (P + 1) \div n = d + 1 /\ (P + 1) % n = 0
      BY <2>2, <2>3
    <2> QED BY <1>1, <1>2, <2>4 DEF d, m, Passes
  <1>3. CASE m + 1 # n
    <2>1. P + 1 = d * n + (m + 1) /\ m + 1 \in 0 .. n - 1
      BY <1>1, <1>3
    <2>2. (P + 1) \div n = d /\ (P + 1) % n = m + 1
      BY <1>1, <2>1, Division
    <2> QED BY <1>1, <1>3, <2>2 DEF d, m, Passes
  <1> QED BY <1>2, <1>3

\* A whole number of rounds.
LEMMA WholeRounds ==
  ASSUME NEW n \in Nat \ {0}, NEW q \in Nat, NEW s \in 0 .. n - 1
  PROVE  Passes(n, q * n, s) = q
  <1>1. q * n = q * n + 0 /\ 0 \in 0 .. n - 1
    <2>1. \A u, v \in Nat : u * v \in Nat
      OBVIOUS
    <2> QED BY <2>1
  <1>2. (q * n + 0) \div n = q /\ (q * n + 0) % n = 0
    BY <1>1, Division
  <1>3. (q * n) \div n = q /\ (q * n) % n = 0
    BY <1>1, <1>2
  <1> QED BY <1>3 DEF Passes

-----------------------------------------------------------------------------
(* The sizes of the circuit. *)

\* Elements of a vector that are the work of one PE, distances it
\* returns for a table, elements of a sub-quantizer.
Share == PerPE * SubDim
Column == PerPE * LUT_ENTRY_NUM
Block == SubDim * LUT_ENTRY_NUM

\* Products of numbers are numbers.
LEMMA Products == \A u, v \in Nat : u * v \in Nat /\ (u # 0 /\ v # 0 => u * v # 0)
OBVIOUS

\* How the sizes divide one another.
LEMMA Sizes ==
  /\ SubDim \in Nat \ {0} /\ PerPE \in Nat \ {0} /\ D = M * SubDim /\ M = PerPE * SUB_PE_NUM
  /\ Share \in Nat \ {0} /\ Column \in Nat \ {0} /\ Block \in Nat \ {0}
  /\ D = Share * SUB_PE_NUM
  <1>1. D \in Nat \ {0} /\ M \in Nat \ {0} /\ SUB_PE_NUM \in Nat \ {0} /\ LUT_ENTRY_NUM \in Nat \ {0}
    BY Positive
  <1>2. D % M = 0 /\ M % SUB_PE_NUM = 0
    BY LUTAssumption
  <1>3. SubDim \in Nat /\ D = SubDim * M + 0
    BY <1>1, <1>2, Quotient DEF SubDim
  <1>4. PerPE \in Nat /\ M = PerPE * SUB_PE_NUM + 0
    BY <1>1, <1>2, Quotient DEF PerPE
  <1>5. SubDim # 0 /\ D = M * SubDim
    BY <1>1, <1>3
  <1>6. PerPE # 0 /\ M = PerPE * SUB_PE_NUM
    BY <1>1, <1>4
  <1>7. D = (PerPE * SubDim) * SUB_PE_NUM
    <2>1. D = (PerPE * SUB_PE_NUM) * SubDim
      BY <1>5, <1>6
    <2> QED BY <1>1, <1>3, <1>4, <2>1
  <1> QED BY <1>1, <1>3, <1>4, <1>5, <1>6, <1>7, Products DEF Share, Column, Block

\* The PEs are numbered from 0.
LEMMA PEs ==
  /\ \A i : i \in PE <=> i \in 0 .. SUB_PE_NUM - 1
  /\ PE # {} /\ 0 \in PE
BY Positive DEF PE

-----------------------------------------------------------------------------
(* What passes through each stream.  V holds the vectors in their order.    *)

QueryVectors == [n \in Nat |-> QueryVector(n)]
CenterVectors(r) == [g \in Nat |-> CenterVector(r, g)]

PacketAt(V, x) == Packets(V[((x - 1) \div size_vector) + 1])[((x - 1) % size_vector) + 1]

\* The u-th element of vector v that is the work of PE i, counted from 0.
ElementOf(v, i, u) == <<v, ((u % PerPE) * SUB_PE_NUM + i) * SubDim + (u \div PerPE)>>
QuantizerOf(i, u) ==
  Quantizer((u \div Block) * SUB_PE_NUM + i, (u \div SubDim) % LUT_ENTRY_NUM, u % SubDim)

\* The distance of sub-vector m for probed cell g and row k, and what is
\* computed where the index of L1_dist wraps (w) or does not.
DistanceOf(r, g, k, m) ==
  {<<<<<<QueryVector(Probe(r)[g][1]), m * SubDim + j>>, <<CenterVector(r, g), m * SubDim + j>>>>,
     Quantizer(m, k, j)>> : j \in 0 .. SubDim - 1}
Part(r, w, g, k, m) == IF m < SUB_PE_NUM \/ w THEN DistanceOf(r, g, k, m) ELSE {}
PartOf(r, w, i, u) ==
  Part(r, w, (u \div Column) + 1, (u \div PerPE) % LUT_ENTRY_NUM, (u % PerPE) * SUB_PE_NUM + i)
RowOf(r, w, u) ==
  [m \in 1 .. M |-> Part(r, w, (u \div LUT_ENTRY_NUM) + 1, u % LUT_ENTRY_NUM, m - 1)]

Value(r, w, c, x) ==
  CASE c[1] = "s_batch_header" -> HeaderOf(r, x)
    [] c[1] = "s_product_quantizer_init" -> product_quantizer[x]
    [] c[1] = "s_query_vectors" -> PacketAt(QueryVectors, x)
    [] c[1] = "s_center_vectors" -> PacketAt(CenterVectors(r), x)
    [] c[1] = "s_product_quantizer_init_sub_PE" -> QuantizerOf(c[2], x - 1)
    [] c[1] = "s_sub_query_vectors" ->
         ElementOf(QueryVectors[((x - 1) \div Share) + 1], c[2], (x - 1) % Share)
    [] c[1] = "s_sub_center_vectors" ->
         ElementOf(CenterVectors(r)[((x - 1) \div Share) + 1], c[2], (x - 1) % Share)
    [] c[1] = "s_partial_distance_LUT" -> PartOf(r, w, c[2], x - 1)
    [] c[1] \in {"s_distance_LUT_buffer", "s_distance_LUT"} -> RowOf(r, w, x - 1)
History(r, w) == [c \in Stream |-> [x \in Nat |-> Value(r, w, c, x)]]

\* Who reads a stream, and who writes it.
nobody == <<"nobody", 0>>
Reader(c) ==
  CASE c[1] = "s_batch_header" -> c[2]
    [] c[1] = "s_product_quantizer_init" -> quantizer
    [] c[1] = "s_query_vectors" -> query_dispatcher
    [] c[1] = "s_center_vectors" -> center_dispatcher
    [] c[1] \in {"s_product_quantizer_init_sub_PE", "s_sub_query_vectors",
                 "s_sub_center_vectors"} -> sub_PE(c[2])
    [] c[1] = "s_partial_distance_LUT" -> gather
    [] c[1] = "s_distance_LUT_buffer" -> extra_FIFO
    [] OTHER -> nobody
Writer(c) ==
  CASE c[1] = "s_batch_header" -> IF c[2] = replicate THEN nobody ELSE replicate
    [] c[1] = "s_product_quantizer_init_sub_PE" -> quantizer
    [] c[1] = "s_sub_query_vectors" -> query_dispatcher
    [] c[1] = "s_sub_center_vectors" -> center_dispatcher
    [] c[1] = "s_partial_distance_LUT" -> sub_PE(c[2])
    [] c[1] = "s_distance_LUT_buffer" -> gather
    [] c[1] = "s_distance_LUT" -> extra_FIFO
    [] OTHER -> nobody

\* The streams of a process.
LEMMA Wiring ==
  /\ s_product_quantizer_init \in Stream /\ Reader(s_product_quantizer_init) = quantizer
  /\ Writer(s_product_quantizer_init) = nobody
  /\ s_query_vectors \in Stream /\ Reader(s_query_vectors) = query_dispatcher
  /\ Writer(s_query_vectors) = nobody
  /\ s_center_vectors \in Stream /\ Reader(s_center_vectors) = center_dispatcher
  /\ Writer(s_center_vectors) = nobody
  /\ s_distance_LUT_buffer \in Stream /\ Reader(s_distance_LUT_buffer) = extra_FIFO
  /\ Writer(s_distance_LUT_buffer) = gather
  /\ s_distance_LUT \in Stream /\ Reader(s_distance_LUT) = nobody
  /\ Writer(s_distance_LUT) = extra_FIFO
BY DEF Stream, Reader, Writer, nobody, s_product_quantizer_init, s_query_vectors,
       s_center_vectors, s_distance_LUT_buffer, s_distance_LUT

\* The streams of a PE.
LEMMA PEWiring ==
  ASSUME NEW i \in PE
  PROVE  /\ s_product_quantizer_init_sub_PE(i) \in Stream
         /\ Reader(s_product_quantizer_init_sub_PE(i)) = sub_PE(i)
         /\ Writer(s_product_quantizer_init_sub_PE(i)) = quantizer
         /\ s_sub_query_vectors(i) \in Stream /\ Reader(s_sub_query_vectors(i)) = sub_PE(i)
         /\ Writer(s_sub_query_vectors(i)) = query_dispatcher
         /\ s_sub_center_vectors(i) \in Stream /\ Reader(s_sub_center_vectors(i)) = sub_PE(i)
         /\ Writer(s_sub_center_vectors(i)) = center_dispatcher
         /\ s_partial_distance_LUT(i) \in Stream /\ Reader(s_partial_distance_LUT(i)) = gather
         /\ Writer(s_partial_distance_LUT(i)) = sub_PE(i)
  <1>1. /\ s_product_quantizer_init_sub_PE(i) \in Stream /\ s_sub_query_vectors(i) \in Stream
        /\ s_sub_center_vectors(i) \in Stream /\ s_partial_distance_LUT(i) \in Stream
    BY DEF Stream
  <1> QED BY <1>1 DEF Reader, Writer, s_product_quantizer_init_sub_PE, s_sub_query_vectors,
             s_sub_center_vectors, s_partial_distance_LUT

\* Who reads and writes the header streams.
LEMMA HeaderWiring ==
  /\ s_batch_header(replicate) \in Stream /\ Reader(s_batch_header(replicate)) = replicate
  /\ Writer(s_batch_header(replicate)) = nobody
  /\ \A p \in Stages : /\ s_batch_header(p) \in Stream /\ Reader(s_batch_header(p)) = p
                       /\ Writer(s_batch_header(p)) = replicate
  <1>1. \A p \in Stages \cup {replicate} : s_batch_header(p) \in Stream
    BY DEF Stream
  <1>2. \A p : Reader(s_batch_header(p)) = p
    BY DEF Reader, s_batch_header
  <1>3. Writer(s_batch_header(replicate)) = nobody
    BY DEF Writer, s_batch_header
  <1>4. \A p \in Stages : p # replicate
    BY DEF Stages, replicate, query_dispatcher, center_dispatcher, gather, extra_FIFO, sub_PE
  <1>5. \A p \in Stages : Writer(s_batch_header(p)) = replicate
    BY <1>4 DEF Writer, s_batch_header
  <1> QED BY <1>1, <1>2, <1>3, <1>5

\* The stages are processes, and none of the other two.
LEMMA StagesAre ==
  /\ Stages \subseteq Process
  /\ \A p \in Stages : p \notin {quantizer, replicate}
  /\ {query_dispatcher, center_dispatcher, gather, extra_FIFO} \subseteq Stages
  /\ \A i \in PE : sub_PE(i) \in Stages
  /\ {quantizer, replicate} \subseteq Process /\ quantizer # replicate
  /\ nobody \notin Process
BY DEF Process, Stages, quantizer, replicate, query_dispatcher, center_dispatcher, gather,
       extra_FIFO, sub_PE, nobody

\* The stages differ.
LEMMA StagesDiffer ==
  /\ \A i, j : sub_PE(i) = sub_PE(j) => i = j
  /\ \A i : sub_PE(i) \notin {query_dispatcher, center_dispatcher, gather, extra_FIFO}
  /\ query_dispatcher \notin {center_dispatcher, gather, extra_FIFO}
  /\ center_dispatcher \notin {gather, extra_FIFO} /\ gather # extra_FIFO
BY DEF query_dispatcher, center_dispatcher, gather, extra_FIFO, sub_PE

\* No process writes to itself.
LEMMA NoLoop == \A c \in Stream : Writer(c) # Reader(c) \/ Writer(c) = nobody
  <1>1. \A p \in Stages : Writer(s_batch_header(p)) # Reader(s_batch_header(p))
    BY HeaderWiring, StagesAre
  <1>2. Writer(s_batch_header(replicate)) = nobody
    BY HeaderWiring
  <1>3. \A i \in PE :
          /\ Writer(s_product_quantizer_init_sub_PE(i)) # Reader(s_product_quantizer_init_sub_PE(i))
          /\ Writer(s_sub_query_vectors(i)) # Reader(s_sub_query_vectors(i))
          /\ Writer(s_sub_center_vectors(i)) # Reader(s_sub_center_vectors(i))
          /\ Writer(s_partial_distance_LUT(i)) # Reader(s_partial_distance_LUT(i))
    BY PEWiring, StagesAre, StagesDiffer
  <1>4. \A c \in {s_product_quantizer_init, s_query_vectors, s_center_vectors,
                  s_distance_LUT_buffer, s_distance_LUT} :
          Writer(c) # Reader(c) \/ Writer(c) = nobody
    BY Wiring, StagesDiffer DEF nobody, extra_FIFO
  <1> QED BY <1>1, <1>2, <1>3, <1>4 DEF Stream

\* The values of a stream by its name.
LEMMA Values ==
  ASSUME NEW r, NEW w, NEW x \in Nat
  PROVE  /\ History(r, w)[s_product_quantizer_init][x] = product_quantizer[x]
         /\ History(r, w)[s_query_vectors][x] = PacketAt(QueryVectors, x)
         /\ History(r, w)[s_center_vectors][x] = PacketAt(CenterVectors(r), x)
         /\ History(r, w)[s_distance_LUT_buffer][x] = RowOf(r, w, x - 1)
         /\ History(r, w)[s_distance_LUT][x] = RowOf(r, w, x - 1)
         /\ \A p \in Stages \cup {replicate} : History(r, w)[s_batch_header(p)][x] = HeaderOf(r, x)
  <1>1. \A c \in Stream : History(r, w)[c][x] = Value(r, w, c, x)
    BY DEF History
  <1>2. /\ Value(r, w, s_product_quantizer_init, x) = product_quantizer[x]
        /\ Value(r, w, s_query_vectors, x) = PacketAt(QueryVectors, x)
        /\ Value(r, w, s_center_vectors, x) = PacketAt(CenterVectors(r), x)
        /\ Value(r, w, s_distance_LUT_buffer, x) = RowOf(r, w, x - 1)
        /\ Value(r, w, s_distance_LUT, x) = RowOf(r, w, x - 1)
    BY DEF Value, s_product_quantizer_init, s_query_vectors, s_center_vectors,
           s_distance_LUT_buffer, s_distance_LUT
  <1>3. \A p : Value(r, w, s_batch_header(p), x) = HeaderOf(r, x)
    BY DEF Value, s_batch_header
  <1> QED BY <1>1, <1>2, <1>3, Wiring, HeaderWiring

\* What passes through the streams of a PE.
LEMMA PEValues ==
  ASSUME NEW r, NEW w, NEW x \in Nat, NEW i \in PE
  PROVE  /\ History(r, w)[s_product_quantizer_init_sub_PE(i)][x] = QuantizerOf(i, x - 1)
         /\ History(r, w)[s_sub_query_vectors(i)][x] =
              ElementOf(QueryVectors[((x - 1) \div Share) + 1], i, (x - 1) % Share)
         /\ History(r, w)[s_sub_center_vectors(i)][x] =
              ElementOf(CenterVectors(r)[((x - 1) \div Share) + 1], i, (x - 1) % Share)
         /\ History(r, w)[s_partial_distance_LUT(i)][x] = PartOf(r, w, i, x - 1)
  <1>1. \A c \in Stream : History(r, w)[c][x] = Value(r, w, c, x)
    BY DEF History
  <1>2. /\ Value(r, w, s_product_quantizer_init_sub_PE(i), x) = QuantizerOf(i, x - 1)
        /\ Value(r, w, s_sub_query_vectors(i), x) =
             ElementOf(QueryVectors[((x - 1) \div Share) + 1], i, (x - 1) % Share)
        /\ Value(r, w, s_sub_center_vectors(i), x) =
             ElementOf(CenterVectors(r)[((x - 1) \div Share) + 1], i, (x - 1) % Share)
        /\ Value(r, w, s_partial_distance_LUT(i), x) = PartOf(r, w, i, x - 1)
    BY DEF Value, s_product_quantizer_init_sub_PE, s_sub_query_vectors, s_sub_center_vectors,
           s_partial_distance_LUT
  <1> QED BY <1>1, <1>2, PEWiring

-----------------------------------------------------------------------------
(* Where a process is.  l is its local data, lf and np its left and nprobe; *)
(* rd and wr say how many values of each stream have been read and written. *)

\* It has read h headers, has lf queries of batch h to finish and n behind it.
Serves(r, h, lf, np, n) ==
  /\ h \in 0 .. BatchNum(r) + 1 /\ lf \in 0 .. Size(r, h)
  /\ lf > 0 => np = NProbe(r, h)
  /\ n = QueryTotal(r)[h] - lf

\* It is at the k-th thing of query n + 1, counted from 0, of each of whose
\* probed cells there are L.
Spot(r, L, n, k) ==
  k = 0 \/ (n \in 0 .. QueryNum(r) - 1 /\ k \in 1 .. ProbesOf(r)[n + 1] * L - 1)
Past(r, L, n, k) == ProbeTotal(r)[n] * L + k

\* How many of the first t numbers of the sub-quantizers are those of PE i.
Dealt(t, i) ==
  Passes(SUB_PE_NUM, t \div Block, i) * Block
    + (IF i = (t \div Block) % SUB_PE_NUM THEN t % Block ELSE 0)

QuantizerBody(l, rd, wr) ==
  \E t \in Nat : /\ l = [pos |-> t] /\ rd[s_product_quantizer_init] = t
                 /\ wr[s_product_quantizer_init] = D * LUT_ENTRY_NUM
                 /\ \A i \in PE : wr[s_product_quantizer_init_sub_PE(i)] = Dealt(t, i)

\* The first j packets of vector v.
Buffered(v, vb, j) ==
  /\ IsSequence(vb) /\ Len(vb) = j * FLOATS
  /\ \A e \in 1 .. j * FLOATS : vb[e] = Element(v, e - 1)

\* j packets of vector g + 1 are read and t elements of it dealt out.
DispatchAt(V, out, lf, l, g, k, in, wr, vb, j, t) ==
  /\ l = [vector_buffer |-> vb, pos |-> t, vec |-> k]
  /\ j \in 0 .. size_vector /\ t \in 0 .. D - 1 /\ Buffered(V[g + 1], vb, j)
  /\ j = size_vector \/ t = 0
  /\ lf > 0 \/ j = 0
  /\ in = g * size_vector + j
  /\ \A i \in PE : wr[<<out, i>>] = Passes(SUB_PE_NUM, g * D + t, i)
DispatchBody(V, out, lf, l, g, k, in, wr) ==
  \E vb, j, t : DispatchAt(V, out, lf, l, g, k, in, wr, vb, j, t)

CenterBody(r, n, lf, l, rd, wr) ==
  \E k : /\ Spot(r, 1, n, k)
         /\ DispatchBody(CenterVectors(r), "s_sub_center_vectors", lf, l, Past(r, 1, n, k), k,
                         rd[s_center_vectors], wr)

\* The first u numbers of its sub-quantizers, the first u values of F, are
\* where PE i keeps them.
HasQuantizer(q, i, u) ==
  /\ DOMAIN q = 0 .. LUT_ENTRY_NUM - 1 /\ \A k \in DOMAIN q : DOMAIN q[k] = 0 .. Share - 1
  /\ \A v \in 0 .. u - 1 :
       q[(v \div SubDim) % LUT_ENTRY_NUM][(v \div Block) * SubDim + (v % SubDim)] = QuantizerOf(i, v)
Has(F, a, u) ==
  /\ DOMAIN a = 0 .. Share - 1
  /\ \A v \in 0 .. u - 1 : a[place(v)] = F[v]
Elements(v, i) == [u \in Nat |-> ElementOf(v, i, u)]
Differences(r, g, i) ==
  [u \in Nat |-> <<ElementOf(QueryVector(Probe(r)[g][1]), i, u), ElementOf(CenterVector(r, g), i, u)>>]

PELocal(ph, u, k, q, a, b) ==
  [phase |-> ph, pos |-> u, probe |-> k, quantizer |-> q, query |-> a, residual |-> b]

\* PE i in its phases; it has read c1 numbers, c2 elements of queries, c3 of
\* centres, and returned c4 distances.
PEInit(r, i, n, lf, l, c1, c2, c3, c4, u, q, a, b) ==
  /\ l = PELocal("init", u, 0, q, a, b) /\ lf = 0
  /\ u \in 0 .. Share * LUT_ENTRY_NUM - 1 /\ HasQuantizer(q, i, u)
  /\ DOMAIN a = 0 .. Share - 1 /\ DOMAIN b = 0 .. Share - 1
  /\ c1 = u /\ c2 = n * Share
  /\ c3 = Past(r, 1, n, 0) * Share /\ c4 = Past(r, 1, n, 0) * Column
PEQuery(r, i, n, lf, l, c2, c3, c4, u, q, a, b) ==
  /\ l = PELocal("query", u, 0, q, a, b) /\ (lf > 0 \/ u = 0)
  /\ u \in 0 .. Share - 1 /\ HasQuantizer(q, i, Share * LUT_ENTRY_NUM)
  /\ Has(Elements(QueryVector(n + 1), i), a, u) /\ DOMAIN b = 0 .. Share - 1
  /\ c2 = n * Share + u
  /\ c3 = Past(r, 1, n, 0) * Share /\ c4 = Past(r, 1, n, 0) * Column
PECenter(r, i, n, lf, l, c2, c3, c4, k, u, q, a, b) ==
  /\ l = PELocal("center", u, k, q, a, b) /\ lf > 0 /\ Spot(r, 1, n, k)
  /\ u \in 0 .. Share - 1 /\ HasQuantizer(q, i, Share * LUT_ENTRY_NUM)
  /\ Has(Elements(QueryVector(n + 1), i), a, Share)
  /\ Has(Differences(r, Past(r, 1, n, k) + 1, i), b, u)
  /\ c2 = (n + 1) * Share
  /\ c3 = Past(r, 1, n, k) * Share + u /\ c4 = Past(r, 1, n, k) * Column
PERows(r, i, n, lf, l, c2, c3, c4, k, u, q, a, b) ==
  /\ l = PELocal("rows", u, k, q, a, b) /\ lf > 0 /\ Spot(r, 1, n, k)
  /\ u \in 0 .. Column - 1 /\ HasQuantizer(q, i, Share * LUT_ENTRY_NUM)
  /\ Has(Elements(QueryVector(n + 1), i), a, Share)
  /\ Has(Differences(r, Past(r, 1, n, k) + 1, i), b, Share)
  /\ c2 = (n + 1) * Share
  /\ c3 = (Past(r, 1, n, k) + 1) * Share /\ c4 = Past(r, 1, n, k) * Column + u

PEAt(r, i, n, lf, l, c1, c2, c3, c4, k, u, q, a, b) ==
  \/ PEInit(r, i, n, lf, l, c1, c2, c3, c4, u, q, a, b)
  \/ PEQuery(r, i, n, lf, l, c2, c3, c4, u, q, a, b)
  \/ PECenter(r, i, n, lf, l, c2, c3, c4, k, u, q, a, b)
  \/ PERows(r, i, n, lf, l, c2, c3, c4, k, u, q, a, b)

PEBody(r, i, n, lf, l, c1, c2, c3, c4) ==
  \E k, u, q, a, b : PEAt(r, i, n, lf, l, c1, c2, c3, c4, k, u, q, a, b)

\* j distances of every PE are in the row.
GatherAt(r, w, n, lf, l, rd, wr, x, j, row) ==
  LET G == Past(r, LUT_ENTRY_NUM, n, x)
  IN  /\ l = [pos |-> x, row |-> row] /\ Spot(r, LUT_ENTRY_NUM, n, x)
      /\ j \in 0 .. PerPE - 1 /\ (lf > 0 \/ j = 0)
      /\ IsSequence(row) /\ Len(row) = j * SUB_PE_NUM
      /\ \A m \in 1 .. j * SUB_PE_NUM : row[m] = RowOf(r, w, G)[m]
      /\ \A i \in PE : rd[s_partial_distance_LUT(i)] = G * PerPE + j
      /\ wr[s_distance_LUT_buffer] = G
GatherBody(r, w, n, lf, l, rd, wr) ==
  \E x, j, row : GatherAt(r, w, n, lf, l, rd, wr, x, j, row)

ExtraBody(r, n, l, rd, wr) ==
  \E x : /\ l = [pos |-> x] /\ Spot(r, LUT_ENTRY_NUM, n, x)
         /\ rd[s_distance_LUT_buffer] = Past(r, LUT_ENTRY_NUM, n, x)
         /\ wr[s_distance_LUT] = Past(r, LUT_ENTRY_NUM, n, x)
         /\ rd[s_distance_LUT] = 0

StageBody(r, w, p, n, lf, l, rd, wr) ==
  /\ p = query_dispatcher =>
       DispatchBody(QueryVectors, "s_sub_query_vectors", lf, l, n, 0, rd[s_query_vectors], wr)
  /\ p = center_dispatcher => CenterBody(r, n, lf, l, rd, wr)
  /\ \A i \in PE : p = sub_PE(i) =>
       PEBody(r, i, n, lf, l, rd[s_product_quantizer_init_sub_PE(i)], rd[s_sub_query_vectors(i)],
              rd[s_sub_center_vectors(i)], wr[s_partial_distance_LUT(i)])
  /\ p = gather => GatherBody(r, w, n, lf, l, rd, wr)
  /\ p = extra_FIFO => ExtraBody(r, n, l, rd, wr)

StageInv(r, w, p, lf, np, l, rd, wr) ==
  \E n : Serves(r, rd[s_batch_header(p)], lf, np, n) /\ StageBody(r, w, p, n, lf, l, rd, wr)

ProcessInv(r, w, p, lf, np, l, rd, wr) ==
  /\ p = quantizer => QuantizerBody(l, rd, wr)
  /\ p = replicate =>
       /\ wr[s_batch_header(replicate)] = BatchNum(r) + 1
       /\ \A q \in Stages : wr[s_batch_header(q)] = rd[s_batch_header(replicate)]
  /\ p \in Stages => StageInv(r, w, p, lf, np, l, rd, wr)

\* What process p sees stays as it is.
Untouched(p, rd, wr, rd2, wr2) ==
  \A c \in Stream : /\ Reader(c) \in {p, nobody} => rd2[c] = rd[c]
                    /\ Writer(c) \in {p, nobody} => wr2[c] = wr[c]

\* So do the streams of process p, the header streams aside.
SameData(p, rd, wr, rd2, wr2) ==
  \A c \in Stream : c[1] # "s_batch_header" =>
    /\ Reader(c) \in {p, nobody} => rd2[c] = rd[c]
    /\ Writer(c) \in {p, nobody} => wr2[c] = wr[c]

\* The streams that carry data.
LEMMA NotHeader ==
  /\ \A c \in {s_product_quantizer_init, s_query_vectors, s_center_vectors,
               s_distance_LUT_buffer, s_distance_LUT} : c[1] # "s_batch_header"
  /\ \A i : /\ s_product_quantizer_init_sub_PE(i)[1] # "s_batch_header"
            /\ s_sub_query_vectors(i)[1] # "s_batch_header"
            /\ s_sub_center_vectors(i)[1] # "s_batch_header"
            /\ s_partial_distance_LUT(i)[1] # "s_batch_header"
BY DEF s_product_quantizer_init, s_query_vectors, s_center_vectors, s_distance_LUT_buffer,
       s_distance_LUT, s_product_quantizer_init_sub_PE, s_sub_query_vectors,
       s_sub_center_vectors, s_partial_distance_LUT

\* What a dispatcher has dealt out is in its own streams.
LEMMA DispatchFrame ==
  ASSUME NEW V, NEW out, NEW lf, NEW l, NEW g, NEW k, NEW in, NEW wr, NEW wr2,
         \A i \in PE : wr2[<<out, i>>] = wr[<<out, i>>],
         DispatchBody(V, out, lf, l, g, k, in, wr)
  PROVE  DispatchBody(V, out, lf, l, g, k, in, wr2)
BY DEF DispatchBody, DispatchAt

\* The place of a process depends on its own streams alone.
LEMMA BodyFrame ==
  ASSUME NEW r, NEW w, NEW p, NEW n, NEW lf, NEW l, NEW rd, NEW wr, NEW rd2, NEW wr2,
         SameData(p, rd, wr, rd2, wr2), StageBody(r, w, p, n, lf, l, rd, wr)
  PROVE  StageBody(r, w, p, n, lf, l, rd2, wr2)
  <1>1. ASSUME p = query_dispatcher
        PROVE  DispatchBody(QueryVectors, "s_sub_query_vectors", lf, l, n, 0, rd2[s_query_vectors], wr2)
    <2>1. /\ rd2[s_query_vectors] = rd[s_query_vectors]
          /\ \A i \in PE : wr2[<<"s_sub_query_vectors", i>>] = wr[<<"s_sub_query_vectors", i>>]
      BY <1>1, Wiring, PEWiring, NotHeader DEF SameData, s_sub_query_vectors
    <2>2. DispatchBody(QueryVectors, "s_sub_query_vectors", lf, l, n, 0, rd[s_query_vectors], wr)
      BY <1>1 DEF StageBody
    <2> DEFINE in == rd[s_query_vectors]
    <2> HIDE DEF in
    <2>3. DispatchBody(QueryVectors, "s_sub_query_vectors", lf, l, n, 0, in, wr2)
      BY <2>1, <2>2, DispatchFrame DEF in
    <2> QED BY <2>1, <2>3 DEF in
  <1>2. ASSUME p = center_dispatcher PROVE CenterBody(r, n, lf, l, rd2, wr2)
    <2>1. /\ rd2[s_center_vectors] = rd[s_center_vectors]
          /\ \A i \in PE : wr2[<<"s_sub_center_vectors", i>>] = wr[<<"s_sub_center_vectors", i>>]
      BY <1>2, Wiring, PEWiring, NotHeader DEF SameData, s_sub_center_vectors
    <2> DEFINE in == rd[s_center_vectors]
               V == CenterVectors(r)
    <2>2. CenterBody(r, n, lf, l, rd, wr)
      BY <1>2 DEF StageBody
    <2>3. PICK k : Spot(r, 1, n, k) /\ DispatchBody(V, "s_sub_center_vectors", lf, l, Past(r, 1, n, k), k, in, wr)
      BY <2>2 DEF CenterBody
    <2> DEFINE g == Past(r, 1, n, k)
    <2> HIDE DEF in, V, g
    <2>4. DispatchBody(V, "s_sub_center_vectors", lf, l, g, k, in, wr2)
      BY <2>1, <2>3, DispatchFrame DEF g
    <2> QED BY <2>1, <2>3, <2>4 DEF in, V, g, CenterBody
  <1>3. ASSUME NEW i \in PE, p = sub_PE(i)
        PROVE  PEBody(r, i, n, lf, l, rd2[s_product_quantizer_init_sub_PE(i)],
                      rd2[s_sub_query_vectors(i)], rd2[s_sub_center_vectors(i)],
                      wr2[s_partial_distance_LUT(i)])
    <2>1. /\ rd2[s_product_quantizer_init_sub_PE(i)] = rd[s_product_quantizer_init_sub_PE(i)]
          /\ rd2[s_sub_query_vectors(i)] = rd[s_sub_query_vectors(i)]
          /\ rd2[s_sub_center_vectors(i)] = rd[s_sub_center_vectors(i)]
          /\ wr2[s_partial_distance_LUT(i)] = wr[s_partial_distance_LUT(i)]
      BY <1>3, PEWiring, NotHeader DEF SameData
    <2>2. PEBody(r, i, n, lf, l, rd[s_product_quantizer_init_sub_PE(i)], rd[s_sub_query_vectors(i)],
                 rd[s_sub_center_vectors(i)], wr[s_partial_distance_LUT(i)])
      BY <1>3 DEF StageBody
    <2> QED BY <2>1, <2>2
  <1>4. ASSUME p = gather PROVE GatherBody(r, w, n, lf, l, rd2, wr2)
    <2>1. /\ wr2[s_distance_LUT_buffer] = wr[s_distance_LUT_buffer]
          /\ \A i \in PE : rd2[s_partial_distance_LUT(i)] = rd[s_partial_distance_LUT(i)]
      BY <1>4, Wiring, PEWiring, NotHeader DEF SameData
    <2>2. GatherBody(r, w, n, lf, l, rd, wr)
      BY <1>4 DEF StageBody
    <2>3. PICK x, j, row : GatherAt(r, w, n, lf, l, rd, wr, x, j, row)
      BY <2>2 DEF GatherBody
    <2>4. GatherAt(r, w, n, lf, l, rd2, wr2, x, j, row)
      BY <2>1, <2>3 DEF GatherAt
    <2> QED BY <2>4 DEF GatherBody
  <1>5. ASSUME p = extra_FIFO PROVE ExtraBody(r, n, l, rd2, wr2)
    <2>1. /\ rd2[s_distance_LUT_buffer] = rd[s_distance_LUT_buffer]
          /\ wr2[s_distance_LUT] = wr[s_distance_LUT]
          /\ rd2[s_distance_LUT] = rd[s_distance_LUT]
      BY <1>5, Wiring, NotHeader DEF SameData
    <2>2. ExtraBody(r, n, l, rd, wr)
      BY <1>5 DEF StageBody
    <2> QED BY <2>1, <2>2 DEF ExtraBody
  <1> QED BY <1>1, <1>2, <1>3, <1>4, <1>5, Zenon DEF StageBody

\* A process that has not moved is where it was.
LEMMA Frame ==
  ASSUME NEW r, NEW w, NEW p, NEW rd, NEW wr, NEW rd2, NEW wr2, Untouched(p, rd, wr, rd2, wr2),
         NEW lf, NEW np, NEW l, ProcessInv(r, w, p, lf, np, l, rd, wr)
  PROVE  ProcessInv(r, w, p, lf, np, l, rd2, wr2)
  <1>1. ASSUME p = quantizer PROVE QuantizerBody(l, rd2, wr2)
    <2>1. /\ rd2[s_product_quantizer_init] = rd[s_product_quantizer_init]
          /\ wr2[s_product_quantizer_init] = wr[s_product_quantizer_init]
          /\ \A i \in PE : wr2[s_product_quantizer_init_sub_PE(i)] = wr[s_product_quantizer_init_sub_PE(i)]
      BY <1>1, Wiring, PEWiring DEF Untouched
    <2>2. QuantizerBody(l, rd, wr)
      BY <1>1 DEF ProcessInv
    <2> QED BY <2>1, <2>2 DEF QuantizerBody
  <1>2. ASSUME p = replicate
        PROVE  /\ wr2[s_batch_header(replicate)] = BatchNum(r) + 1
               /\ \A q \in Stages : wr2[s_batch_header(q)] = rd2[s_batch_header(replicate)]
    <2>1. /\ rd2[s_batch_header(replicate)] = rd[s_batch_header(replicate)]
          /\ wr2[s_batch_header(replicate)] = wr[s_batch_header(replicate)]
          /\ \A q \in Stages : wr2[s_batch_header(q)] = wr[s_batch_header(q)]
      BY <1>2, HeaderWiring DEF Untouched
    <2> QED BY <1>2, <2>1 DEF ProcessInv
  <1>4. ASSUME p \in Stages PROVE StageInv(r, w, p, lf, np, l, rd2, wr2)
    <2>1. rd2[s_batch_header(p)] = rd[s_batch_header(p)]
      BY <1>4, HeaderWiring DEF Untouched
    <2>2. PICK n : Serves(r, rd[s_batch_header(p)], lf, np, n) /\ StageBody(r, w, p, n, lf, l, rd, wr)
      BY <1>4 DEF ProcessInv, StageInv
    <2>3. SameData(p, rd, wr, rd2, wr2)
      BY DEF Untouched, SameData
    <2>4. StageBody(r, w, p, n, lf, l, rd2, wr2)
      BY <2>2, <2>3, BodyFrame
    <2> QED BY <2>1, <2>2, <2>4 DEF StageInv
  <1> QED BY <1>1, <1>2, <1>4, Zenon DEF ProcessInv

-----------------------------------------------------------------------------
(* The invariant. *)

At(r, w, rd, wr) ==
  /\ r \in Requests /\ request = r /\ wraps = w
  /\ FlowInv(History(r, w), Stream, rd, wr)
  /\ DOMAIN at = Process /\ DOMAIN left = Process /\ DOMAIN nprobe = Process
  /\ \A p \in Process : ProcessInv(r, w, p, left[p], nprobe[p], at[p], rd, wr)

LUTInv == \E r, w, rd, wr : At(r, w, rd, wr)

\* Process p moves, the others do not.
Moves(p) ==
  /\ request' = request /\ wraps' = wraps
  /\ DOMAIN at' = Process /\ DOMAIN left' = Process /\ DOMAIN nprobe' = Process
  /\ \A q \in Process \ {p} : at'[q] = at[q] /\ left'[q] = left[q] /\ nprobe'[q] = nprobe[q]

\* Process p reads its streams and writes to them what comes next: it is enough
\* to know where it is afterwards.
LEMMA Step ==
  ASSUME NEW r, NEW w, NEW rd, NEW wr, At(r, w, rd, wr), NEW p \in Process, Moves(p),
         NEW takes \in SUBSET Stream, NEW puts, DOMAIN puts \in SUBSET Stream,
         Transfer(takes, puts),
         \A c \in takes : Reader(c) = p, \A c \in DOMAIN puts : Writer(c) = p,
         \A c \in DOMAIN puts : puts[c] = History(r, w)[c][wr[c] + 1],
         ProcessInv(r, w, p, left'[p], nprobe'[p], at'[p],
                    Counted(Stream, rd, takes), Counted(Stream, wr, DOMAIN puts))
  PROVE  LUTInv'
  <1> DEFINE R == Counted(Stream, rd, takes)
             W == Counted(Stream, wr, DOMAIN puts)
  <1>1. PICK t, u, R2, W2 : t = takes /\ u = puts /\ R2 = R /\ W2 = W
    OBVIOUS
  <1>0. p # nobody
    BY StagesAre
  <1>2. takes \cap DOMAIN puts = {}
    BY <1>0, NoLoop
  <1>3. FlowInv(History(r, w), Stream, rd, wr)
    BY DEF At
  <1>4. /\ t \in SUBSET Stream /\ DOMAIN u \in SUBSET Stream /\ Transfer(t, u)
        /\ t \cap DOMAIN u = {}
        /\ \A c \in DOMAIN u : u[c] = History(r, w)[c][wr[c] + 1]
    BY <1>1, <1>2
  <1>5. FlowInv(History(r, w), Stream, Counted(Stream, rd, t), Counted(Stream, wr, DOMAIN u))'
    BY <1>3, <1>4, FlowStep
  <1>6. R2 = Counted(Stream, rd, t) /\ W2 = Counted(Stream, wr, DOMAIN u)
    BY <1>1
  <1>7. FlowInv(History(r, w), Stream, R2, W2)'
    BY <1>5, <1>6
  <1>8. ASSUME NEW q \in Process
        PROVE  ProcessInv(r, w, q, left'[q], nprobe'[q], at'[q], R2, W2)
    <2>1. CASE q = p
      BY <1>1, <2>1
    <2>2. CASE q # p
      <3>1. Untouched(q, rd, wr, R2, W2)
        <4>1. ASSUME NEW c \in Stream
              PROVE  /\ Reader(c) \in {q, nobody} => R2[c] = rd[c]
                     /\ Writer(c) \in {q, nobody} => W2[c] = wr[c]
          <5>2. /\ Reader(c) \in {q, nobody} => c \notin takes
                /\ Writer(c) \in {q, nobody} => c \notin DOMAIN puts
            BY <1>0, <2>2
          <5> QED BY <1>1, <5>2 DEF Counted
        <4> QED BY <4>1 DEF Untouched
      <3>2. ProcessInv(r, w, q, left[q], nprobe[q], at[q], R2, W2)
        BY <3>1, Frame DEF At
      <3>3. left'[q] = left[q] /\ nprobe'[q] = nprobe[q] /\ at'[q] = at[q]
        BY <2>2 DEF Moves
      <3> QED BY <3>2, <3>3
    <2> QED BY <2>1, <2>2
  <1>9. At(r, w, R2, W2)'
    <2>1. r \in Requests /\ request' = r /\ wraps' = w
      BY DEF At, Moves
    <2>2. DOMAIN at' = Process /\ DOMAIN left' = Process /\ DOMAIN nprobe' = Process
      BY DEF Moves
    <2> QED BY <1>7, <1>8, <2>1, <2>2 DEF At
  <1> QED BY <1>9 DEF LUTInv

\* What a process reads.
LEMMA Reading ==
  ASSUME NEW r, NEW w, NEW rd, NEW wr, At(r, w, rd, wr), NEW c \in Stream
  PROVE  /\ rd[c] \in Nat /\ wr[c] \in Nat /\ rd[c] <= wr[c]
         /\ fifo[c] # <<>> => Head(fifo[c]) = History(r, w)[c][rd[c] + 1] /\ rd[c] < wr[c]
  <1>1. /\ rd[c] \in Nat /\ wr[c] \in Nat /\ IsSequence(fifo[c]) /\ wr[c] = rd[c] + Len(fifo[c])
        /\ InOrder(History(r, w)[c], fifo[c], rd[c])
    BY DEF At, FlowInv
  <1>2. Len(fifo[c]) \in Nat /\ (fifo[c] = <<>> <=> Len(fifo[c]) = 0)
    BY <1>1, Sequences
  <1>3. fifo[c] # <<>> => Head(fifo[c]) = History(r, w)[c][rd[c] + 1]
    BY <1>1, TailInOrder
  <1> QED BY <1>1, <1>2, <1>3

-----------------------------------------------------------------------------
(* The queries a process serves. *)

Served(r, h, lf, np, n) ==
  /\ n \in 0 .. QueryNum(r) /\ lf \in Nat /\ ProbeTotal(r)[n] \in 0 .. ProbeNum(r)
  /\ ProbeNum(r) \in Nat /\ QueryNum(r) \in Nat
  /\ h \in 0 .. BatchNum(r) + 1
  /\ lf > 0 => /\ n \in 0 .. QueryNum(r) - 1 /\ n + 1 \in 1 .. QueryNum(r)
               /\ np = ProbesOf(r)[n + 1] /\ np \in Nat \ {0}
               /\ ProbeTotal(r)[n + 1] = ProbeTotal(r)[n] + np
               /\ ProbeTotal(r)[n + 1] \in 0 .. ProbeNum(r)
               /\ Serves(r, h, lf - 1, np, n + 1)
               /\ \A k \in 1 .. np : /\ ProbeTotal(r)[n] + k \in 1 .. ProbeNum(r)
                                     /\ Probe(r)[ProbeTotal(r)[n] + k] = <<n + 1, k>>

\* It has a query to work on: it knows the number of its cells.
LEMMA Serving ==
  ASSUME NEW r \in Requests, NEW h, NEW lf, NEW np, NEW n, Serves(r, h, lf, np, n)
  PROVE  Served(r, h, lf, np, n)
  <1> DEFINE N == QueryNum(r)
             B == BatchNum(r)
             S == Size(r, h)
             Q == QueryTotal(r)
  <1>1. /\ h \in 0 .. B + 1 /\ lf \in 0 .. S /\ n = Q[h] - lf /\ (lf > 0 => np = NProbe(r, h))
        /\ B \in Nat /\ S \in Nat
    BY Batches DEF Serves
  <1>2. /\ N \in Nat /\ Q[h] \in 0 .. N /\ ProbeNum(r) \in Nat
        /\ \A m \in 0 .. N : ProbeTotal(r)[m] \in 0 .. ProbeNum(r)
        /\ Q[0] = 0 /\ (h \in 1 .. B + 1 => Q[h] = Q[h - 1] + S)
        /\ (h \in 1 .. B + 1 => Q[h - 1] \in 0 .. N)
    <2>1. h \in 1 .. B + 1 => h - 1 \in 0 .. B + 1
      BY <1>1
    <2> QED BY <1>1, <2>1, QueryFacts, ProbeFacts
  <1>3. h \notin 1 .. B => S = 0
    BY DEF Size
  <1>0. \A q \in 1 .. S : h \in 1 .. B => /\ Q[h - 1] + q \in 1 .. N
                                           /\ ProbesOf(r)[Q[h - 1] + q] = NProbe(r, h)
    BY QueryFacts
  <1>00. h \in 1 .. B => NProbe(r, h) \in Nat \ {0}
    BY Batches
  <1> HIDE DEF N, B, S, Q
  <1>4. h \in 0 .. B + 1 /\ (h = 0 \/ h \in 1 .. B + 1)
    BY <1>1
  <1>5. n \in 0 .. N
    <2>1. CASE h = 0
      <3>1. h \notin 1 .. B
        BY <1>1, <2>1
      <3> QED BY <1>1, <1>2, <1>3, <2>1, <3>1
    <2>2. CASE h \in 1 .. B + 1
      BY <1>1, <1>2, <2>2
    <2> QED BY <1>4, <2>1, <2>2
  <1>6. ASSUME lf > 0
        PROVE  /\ n \in 0 .. N - 1 /\ n + 1 \in 1 .. N
               /\ np = ProbesOf(r)[n + 1] /\ np \in Nat \ {0}
               /\ ProbeTotal(r)[n + 1] = ProbeTotal(r)[n] + np
               /\ ProbeTotal(r)[n + 1] \in 0 .. ProbeNum(r)
               /\ Serves(r, h, lf - 1, np, n + 1)
               /\ \A k \in 1 .. np : /\ ProbeTotal(r)[n] + k \in 1 .. ProbeNum(r)
                                     /\ Probe(r)[ProbeTotal(r)[n] + k] = <<n + 1, k>>
    <2>1. lf \in 1 .. S
      BY <1>1, <1>6
    <2>2. h \in 1 .. B
      <3> SUFFICES ASSUME h \notin 1 .. B PROVE FALSE
        OBVIOUS
      <3>1. S = 0
        BY <1>3
      <3> QED BY <2>1, <3>1
    <2>3. np \in Nat \ {0} /\ np = NProbe(r, h)
      BY <1>00, <1>1, <1>6, <2>2
    <2>4. n + 1 \in 1 .. N /\ n \in 0 .. N - 1 /\ ProbesOf(r)[n + 1] = np
      <3> DEFINE q == S - lf + 1
      <3>1. q \in 1 .. S /\ Q[h - 1] + q = n + 1 /\ h \in 1 .. B + 1
        BY <1>1, <1>2, <2>1, <2>2
      <3> HIDE DEF q
      <3>2. Q[h - 1] + q \in 1 .. N /\ ProbesOf(r)[Q[h - 1] + q] = NProbe(r, h)
        BY <1>0, <2>2, <3>1
      <3>3. n + 1 \in 1 .. N /\ ProbesOf(r)[n + 1] = NProbe(r, h)
        BY <3>1, <3>2
      <3> QED BY <1>2, <1>5, <2>3, <3>3
    <2>5. Serves(r, h, lf - 1, np, n + 1)
      <3>1. lf - 1 \in 0 .. S /\ n + 1 = Q[h] - (lf - 1)
        BY <1>1, <1>2, <2>1
      <3>2. h \in 0 .. B + 1 /\ np = NProbe(r, h)
        BY <1>1, <2>3
      <3>3. h \in 0 .. BatchNum(r) + 1 /\ lf - 1 \in 0 .. Size(r, h)
            /\ n + 1 = QueryTotal(r)[h] - (lf - 1)
        BY <3>1, <3>2 DEF B, S, Q
      <3> QED BY <3>2, <3>3 DEF Serves
    <2> DEFINE m == n + 1
    <2>6. m - 1 = n /\ m \in 1 .. QueryNum(r) /\ m \in 0 .. N
      BY <1>5, <2>4 DEF N
    <2> HIDE DEF m
    <2>7. /\ ProbeTotal(r)[m] = ProbeTotal(r)[m - 1] + ProbesOf(r)[m]
          /\ \A k \in 1 .. ProbesOf(r)[m] : /\ ProbeTotal(r)[m - 1] + k \in 1 .. ProbeNum(r)
                                            /\ Probe(r)[ProbeTotal(r)[m - 1] + k] = <<m, k>>
      BY <2>6, ProbeFacts
    <2>8. ProbesOf(r)[m] = np
      BY <2>4 DEF m
    <2>9. ProbeTotal(r)[m] \in 0 .. ProbeNum(r)
      BY <1>2, <2>6
    <2>10. /\ ProbeTotal(r)[m] = ProbeTotal(r)[n] + np
           /\ \A k \in 1 .. np : /\ ProbeTotal(r)[n] + k \in 1 .. ProbeNum(r)
                                 /\ Probe(r)[ProbeTotal(r)[n] + k] = <<m, k>>
      BY <2>6, <2>7, <2>8
    <2> QED BY <2>3, <2>4, <2>5, <2>9, <2>10 DEF m
  <1>7. lf \in Nat /\ ProbeTotal(r)[n] \in 0 .. ProbeNum(r)
    BY <1>1, <1>2, <1>5
  <1> QED BY <1>1, <1>2, <1>5, <1>6, <1>7, Zenon DEF N, B, S, Served

\* From the k-th thing of query n + 1 on to the next: the process is at query
\* m + 1 then.
GoesOn(r, L, h, lf, np, n, k, m) ==
  /\ Serves(r, h, IF k + 1 = np * L THEN lf - 1 ELSE lf, np, m)
  /\ Spot(r, L, m, (k + 1) % (np * L)) /\ Past(r, L, m, (k + 1) % (np * L)) = Past(r, L, n, k) + 1
  /\ k + 1 = np * L => m = n + 1 /\ (k + 1) % (np * L) = 0
  /\ k + 1 # np * L => m = n /\ (k + 1) % (np * L) = k + 1
HasNext(r, L, h, lf, np, n, k) ==
  /\ np \in Nat \ {0} /\ np * L \in Nat \ {0} /\ k \in 0 .. np * L - 1
  /\ Past(r, L, n, k) \in Nat /\ Past(r, L, n, k) + 1 \in 1 .. ProbeNum(r) * L
  /\ \E m : GoesOn(r, L, h, lf, np, n, k, m)

\* A process with a query to work on has a next place.
LEMMA NextSpot ==
  ASSUME NEW r \in Requests, NEW L \in Nat \ {0}, NEW h, NEW lf, NEW np, NEW n,
         Serves(r, h, lf, np, n), lf > 0, NEW k, Spot(r, L, n, k)
  PROVE  HasNext(r, L, h, lf, np, n, k)
  <1> DEFINE P == ProbeTotal(r)
             PN == ProbeNum(r)
             len == np * L
  <1>0. Served(r, h, lf, np, n)
    BY Serving
  <1>1. /\ np = ProbesOf(r)[n + 1] /\ np \in Nat \ {0} /\ n \in 0 .. QueryNum(r) - 1
        /\ P[n + 1] = P[n] + np /\ P[n] \in Nat /\ PN \in Nat /\ P[n + 1] \in 0 .. PN
        /\ Serves(r, h, lf - 1, np, n + 1)
    BY <1>0 DEF Served
  <1>2. len \in Nat \ {0}
    BY <1>1, Products
  <1>3. k \in 0 .. len - 1
    BY <1>1, <1>2 DEF Spot
  <1> HIDE DEF P, PN
  <1>4. /\ P[n] * L \in Nat /\ P[n + 1] * L = P[n] * L + len /\ P[n + 1] * L <= PN * L
        /\ PN * L \in Nat
    <2>1. P[n] * L \in Nat /\ PN * L \in Nat /\ P[n + 1] * L \in Nat
      BY <1>1, Products
    <2>2. (P[n] + np) * L = P[n] * L + np * L
      BY <1>1
    <2>3. \A u, v \in Nat : u <= v => u * L <= v * L
      OBVIOUS
    <2> QED BY <1>1, <2>1, <2>2, <2>3
  <1> DEFINE a == P[n] * L
             b == P[n + 1] * L
             c == PN * L
  <1>5. a \in Nat /\ b = a + len /\ b <= c /\ c \in Nat
    BY <1>4
  <1>6. Past(r, L, n, k) = a + k /\ Past(r, L, n + 1, 0) = b + 0
    BY DEF Past, P
  <1>7. ProbesOf(r)[n + 1] * L = len
    BY <1>1
  <1> HIDE DEF a, b, c, len
  <1>8. a + k \in Nat /\ a + k + 1 \in 1 .. c
    BY <1>2, <1>3, <1>5
  <1>9. CASE k + 1 = len
    <2>1. len % len = 0
      <3>1. len = 1 * len + 0 /\ 0 \in 0 .. len - 1 /\ 1 \in Nat
        BY <1>2
      <3>2. (1 * len + 0) % len = 0
        BY <1>2, <3>1, Division
      <3> QED BY <3>1, <3>2
    <2>2. b + 0 = a + k + 1
      BY <1>3, <1>5, <1>9
    <2>3. /\ Serves(r, h, IF k + 1 = len THEN lf - 1 ELSE lf, np, n + 1)
          /\ Spot(r, L, n + 1, 0) /\ Past(r, L, n + 1, 0) = Past(r, L, n, k) + 1
          /\ (k + 1) % len = 0
      BY <1>1, <1>6, <1>9, <2>1, <2>2 DEF Spot
    <2>4. GoesOn(r, L, h, lf, np, n, k, n + 1)
      BY <1>9, <2>3 DEF GoesOn, len
    <2> QED BY <1>1, <1>2, <1>3, <1>6, <1>8, <2>4, Zenon DEF HasNext, len, c, PN
  <1>10. CASE k + 1 # len
    <2>1. k + 1 \in 0 .. len - 1 /\ k + 1 \in 1 .. len - 1 /\ 0 * len + (k + 1) = k + 1 /\ 0 \in Nat
      BY <1>2, <1>3, <1>10
    <2>2. (0 * len + (k + 1)) % len = k + 1
      BY <1>2, <2>1, Division
    <2>3. (k + 1) % len = k + 1
      BY <2>1, <2>2
    <2>4. Spot(r, L, n, k + 1)
      BY <1>1, <1>7, <2>1 DEF Spot
    <2>5. Past(r, L, n, k + 1) = Past(r, L, n, k) + 1
      <3>1. Past(r, L, n, k + 1) = a + (k + 1)
        BY DEF Past, a, P
      <3> QED BY <1>3, <1>5, <1>6, <3>1
    <2>6. GoesOn(r, L, h, lf, np, n, k, n)
      BY <1>10, <2>3, <2>4, <2>5 DEF GoesOn, len
    <2> QED BY <1>1, <1>2, <1>3, <1>6, <1>8, <2>6, Zenon DEF HasNext, len, c, PN
  <1> QED BY <1>9, <1>10

\* A process has read or written its next values.
LEMMA FinishMoves ==
  ASSUME NEW r, NEW w, NEW rd, NEW wr, At(r, w, rd, wr), NEW p \in Process, NEW local, NEW last,
         at' = [at EXCEPT ![p] = local], Finish(p, last), request' = request, wraps' = wraps
  PROVE  /\ Moves(p) /\ at'[p] = local /\ nprobe'[p] = nprobe[p]
         /\ left'[p] = IF last THEN left[p] - 1 ELSE left[p]
  <1>1. DOMAIN at = Process /\ DOMAIN left = Process /\ DOMAIN nprobe = Process
    BY DEF At
  <1>2. nprobe' = nprobe /\ left' = IF last THEN [left EXCEPT ![p] = @ - 1] ELSE left
    BY DEF Finish, QueryDone, Continues
  <1>3. /\ DOMAIN at' = Process /\ DOMAIN left' = Process /\ DOMAIN nprobe' = Process
        /\ at'[p] = local /\ left'[p] = IF last THEN left[p] - 1 ELSE left[p]
        /\ \A q \in Process \ {p} : at'[q] = at[q] /\ left'[q] = left[q] /\ nprobe'[q] = nprobe[q]
    BY <1>1, <1>2
  <1> QED BY <1>2, <1>3 DEF Moves

\* What the place of each process says.
LEMMA Bodies ==
  ASSUME NEW r, NEW w, NEW n, NEW lf, NEW l, NEW rd, NEW wr
  PROVE  /\ StageBody(r, w, query_dispatcher, n, lf, l, rd, wr) <=>
              DispatchBody(QueryVectors, "s_sub_query_vectors", lf, l, n, 0, rd[s_query_vectors], wr)
         /\ StageBody(r, w, center_dispatcher, n, lf, l, rd, wr) <=> CenterBody(r, n, lf, l, rd, wr)
         /\ \A i \in PE : StageBody(r, w, sub_PE(i), n, lf, l, rd, wr) <=>
              PEBody(r, i, n, lf, l, rd[s_product_quantizer_init_sub_PE(i)],
                     rd[s_sub_query_vectors(i)], rd[s_sub_center_vectors(i)],
                     wr[s_partial_distance_LUT(i)])
         /\ StageBody(r, w, gather, n, lf, l, rd, wr) <=> GatherBody(r, w, n, lf, l, rd, wr)
         /\ StageBody(r, w, extra_FIFO, n, lf, l, rd, wr) <=> ExtraBody(r, n, l, rd, wr)
BY StagesDiffer, Zenon DEF StageBody

\* A stage moves within its batch.
LEMMA StageStep ==
  ASSUME NEW r, NEW w, NEW rd, NEW wr, At(r, w, rd, wr), NEW p \in Stages, Moves(p),
         NEW takes \in SUBSET Stream, NEW puts, DOMAIN puts \in SUBSET Stream,
         Transfer(takes, puts),
         \A c \in takes : Reader(c) = p /\ c[1] # "s_batch_header",
         \A c \in DOMAIN puts : Writer(c) = p,
         \A c \in DOMAIN puts : puts[c] = History(r, w)[c][wr[c] + 1],
         nprobe'[p] = nprobe[p],
         NEW n, Serves(r, rd[s_batch_header(p)], left'[p], nprobe[p], n),
         StageBody(r, w, p, n, left'[p], at'[p],
                   Counted(Stream, rd, takes), Counted(Stream, wr, DOMAIN puts))
  PROVE  LUTInv'
  <1> DEFINE R == Counted(Stream, rd, takes)
             W == Counted(Stream, wr, DOMAIN puts)
  <1>1. R[s_batch_header(p)] = rd[s_batch_header(p)]
    <2>1. s_batch_header(p) \in Stream /\ s_batch_header(p)[1] = "s_batch_header"
      BY HeaderWiring DEF s_batch_header
    <2> QED BY <2>1 DEF Counted
  <1> HIDE DEF R, W
  <1>2. StageInv(r, w, p, left'[p], nprobe'[p], at'[p], R, W)
    BY <1>1 DEF StageInv, R, W
  <1>3. ProcessInv(r, w, p, left'[p], nprobe'[p], at'[p], R, W)
    BY <1>2, StagesAre DEF ProcessInv
  <1>4. p \in Process
    BY StagesAre
  <1> QED BY <1>3, <1>4, Step DEF R, W

\* Where a stage is before it moves.
LEMMA StageAt ==
  ASSUME NEW r, NEW w, NEW rd, NEW wr, At(r, w, rd, wr), NEW p \in Stages
  PROVE  /\ r \in Requests /\ request = r /\ p \in Process /\ wraps = w
         /\ \E n : /\ Serves(r, rd[s_batch_header(p)], left[p], nprobe[p], n)
                   /\ StageBody(r, w, p, n, left[p], at[p], rd, wr)
BY StagesAre DEF At, ProcessInv, StageInv

-----------------------------------------------------------------------------
(* The headers. *)

\* A process that has finished a batch may wait for any number of queries.
LEMMA Idle ==
  ASSUME NEW r, NEW w, NEW p, NEW n, NEW l, NEW rd, NEW wr, StageBody(r, w, p, n, 0, l, rd, wr),
         \A i \in PE : p = sub_PE(i) => l.phase # "init", NEW lf
  PROVE  StageBody(r, w, p, n, lf, l, rd, wr)
  <1>0. ~ (0 > 0)
    OBVIOUS
  <1>1. ASSUME NEW V, NEW out, NEW g, NEW k, NEW in, DispatchBody(V, out, 0, l, g, k, in, wr)
        PROVE  DispatchBody(V, out, lf, l, g, k, in, wr)
    <2>1. PICK vb, j, t : DispatchAt(V, out, 0, l, g, k, in, wr, vb, j, t)
      BY <1>1 DEF DispatchBody
    <2>2. DispatchAt(V, out, lf, l, g, k, in, wr, vb, j, t)
      BY <1>0, <2>1 DEF DispatchAt
    <2> QED BY <2>2 DEF DispatchBody
  <1>2. ASSUME p = query_dispatcher
        PROVE  DispatchBody(QueryVectors, "s_sub_query_vectors", lf, l, n, 0, rd[s_query_vectors], wr)
    <2>1. DispatchBody(QueryVectors, "s_sub_query_vectors", 0, l, n, 0, rd[s_query_vectors], wr)
      BY <1>2, Zenon DEF StageBody
    <2> QED BY <1>1, <2>1, Zenon
  <1>3. ASSUME p = center_dispatcher PROVE CenterBody(r, n, lf, l, rd, wr)
    <2>1. CenterBody(r, n, 0, l, rd, wr)
      BY <1>3 DEF StageBody
    <2> QED BY <1>1, <2>1, Zenon DEF CenterBody
  <1>4. ASSUME NEW i \in PE, p = sub_PE(i)
        PROVE  PEBody(r, i, n, lf, l, rd[s_product_quantizer_init_sub_PE(i)],
                      rd[s_sub_query_vectors(i)], rd[s_sub_center_vectors(i)],
                      wr[s_partial_distance_LUT(i)])
    <2> DEFINE c1 == rd[s_product_quantizer_init_sub_PE(i)]
               c2 == rd[s_sub_query_vectors(i)]
               c3 == rd[s_sub_center_vectors(i)]
               c4 == wr[s_partial_distance_LUT(i)]
    <2>1. PEBody(r, i, n, 0, l, c1, c2, c3, c4)
      BY <1>4, Zenon DEF StageBody
    <2> HIDE DEF c1, c2, c3, c4
    <2>2. PICK k, u, q, a, b : PEAt(r, i, n, 0, l, c1, c2, c3, c4, k, u, q, a, b)
      BY <2>1 DEF PEBody
    <2>3. ~ PEInit(r, i, n, 0, l, c1, c2, c3, c4, u, q, a, b)
      BY <1>4 DEF PEInit, PELocal
    <2>4. PEQuery(r, i, n, 0, l, c2, c3, c4, u, q, a, b)
      BY <1>0, <2>2, <2>3, Zenon DEF PEAt, PECenter, PERows
    <2>5. PEQuery(r, i, n, lf, l, c2, c3, c4, u, q, a, b)
      BY <1>0, <2>4, Zenon DEF PEQuery
    <2>6. PEBody(r, i, n, lf, l, c1, c2, c3, c4)
      BY <2>5, Zenon DEF PEAt, PEBody
    <2> QED BY <2>6 DEF c1, c2, c3, c4
  <1>5. ASSUME p = gather PROVE GatherBody(r, w, n, lf, l, rd, wr)
    <2>1. GatherBody(r, w, n, 0, l, rd, wr)
      BY <1>5 DEF StageBody
    <2> QED BY <1>0, <2>1, Zenon DEF GatherBody, GatherAt
  <1>6. ASSUME p = extra_FIFO PROVE ExtraBody(r, n, l, rd, wr)
    BY <1>6 DEF StageBody
  <1> QED BY <1>2, <1>3, <1>4, <1>5, <1>6, Zenon DEF StageBody

\* The header after h: what it says of the queries.
LEMMA NextHeader ==
  ASSUME NEW r \in Requests, NEW h \in 0 .. BatchNum(r), NEW np, NEW n, Serves(r, h, 0, np, n)
  PROVE  /\ HeaderOf(r, h + 1).terminate \in BOOLEAN
         /\ HeaderOf(r, h + 1).terminate => Serves(r, h + 1, 0, np, n)
         /\ ~ HeaderOf(r, h + 1).terminate =>
              Serves(r, h + 1, HeaderOf(r, h + 1).batch_size, HeaderOf(r, h + 1).nprobe, n)
  <1> DEFINE b == h + 1
             S == Size(r, b)
  <1>1. /\ b \in 0 .. BatchNum(r) + 1 /\ b \in 1 .. BatchNum(r) + 1 /\ b - 1 = h /\ S \in Nat
        /\ BatchNum(r) \in Nat
    BY Batches
  <1>2. n = QueryTotal(r)[h] - 0 /\ QueryTotal(r)[h] \in Nat /\ QueryTotal(r)[b] = QueryTotal(r)[h] + S
    <2>1. h \in 0 .. BatchNum(r) + 1
      BY <1>1
    <2>2. QueryTotal(r)[h] \in 0 .. QueryNum(r) /\ QueryNum(r) \in Nat
      BY <2>1, QueryFacts
    <2> HIDE DEF b
    <2>3. QueryTotal(r)[b] = QueryTotal(r)[b - 1] + Size(r, b)
      BY <1>1, QueryFacts
    <2> QED BY <1>1, <2>2, <2>3 DEF Serves
  <1>3. b \notin 1 .. BatchNum(r) => S = 0
    BY DEF Size
  <1> HIDE DEF b, S
  <1>4. S \in 0 .. S /\ n = QueryTotal(r)[b] - S
    BY <1>1, <1>2
  <1>5. CASE b \in 1 .. BatchNum(r)
    <2>1. HeaderOf(r, b) = [batch_size |-> S, nprobe |-> NProbe(r, b), terminate |-> FALSE]
      BY <1>5 DEF HeaderOf, Header, S
    <2>2. Serves(r, b, S, NProbe(r, b), n)
      BY <1>1, <1>4, Zenon DEF Serves, S
    <2>3. /\ HeaderOf(r, b).terminate = FALSE /\ HeaderOf(r, b).batch_size = S
          /\ HeaderOf(r, b).nprobe = NProbe(r, b)
      BY <2>1
    <2> QED BY <2>2, <2>3, Zenon DEF b
  <1>6. CASE b \notin 1 .. BatchNum(r)
    <2>1. HeaderOf(r, b) = [batch_size |-> 0, nprobe |-> 0, terminate |-> TRUE]
      BY <1>6 DEF HeaderOf, TerminateHeader
    <2>2. Serves(r, b, 0, np, n)
      <3>1. S = 0 /\ n = QueryTotal(r)[b] - 0 /\ 0 \in 0 .. S /\ ~ (0 > 0)
        BY <1>3, <1>4, <1>6
      <3> QED BY <1>1, <3>1, Zenon DEF Serves, S
    <2>3. HeaderOf(r, b).terminate = TRUE
      BY <2>1
    <2> QED BY <2>2, <2>3, Zenon DEF b
  <1> QED BY <1>5, <1>6

\* No process reads more headers than there are.
LEMMA HeadersRead ==
  ASSUME NEW r, NEW w, NEW rd, NEW wr, At(r, w, rd, wr)
  PROVE  /\ BatchNum(r) \in Nat
         /\ \A p \in Stages : wr[s_batch_header(p)] = rd[s_batch_header(replicate)]
         /\ rd[s_batch_header(replicate)] \in 0 .. BatchNum(r) + 1
         /\ wr[s_batch_header(replicate)] = BatchNum(r) + 1
  <1>1. /\ wr[s_batch_header(replicate)] = BatchNum(r) + 1
        /\ \A p \in Stages : wr[s_batch_header(p)] = rd[s_batch_header(replicate)]
    <2>1. ProcessInv(r, w, replicate, left[replicate], nprobe[replicate], at[replicate], rd, wr)
      BY StagesAre DEF At
    <2> QED BY <2>1 DEF ProcessInv
  <1>2. /\ rd[s_batch_header(replicate)] \in Nat
        /\ rd[s_batch_header(replicate)] <= wr[s_batch_header(replicate)]
    BY HeaderWiring, Reading
  <1>4. BatchNum(r) \in Nat
    BY Batches DEF At
  <1> QED BY <1>1, <1>2, <1>4

\* read_header keeps the invariant: the batch has the queries it says.
LEMMA HeaderStep ==
  ASSUME NEW r, NEW w, NEW rd, NEW wr, At(r, w, rd, wr), NEW p \in Stages, Loaded(p), read_header(p),
         UNCHANGED at, Same
  PROVE  LUTInv'
  <1> DEFINE c0 == s_batch_header(p)
             h == rd[c0]
             takes == {c0}
             puts == Nothing
             R == Counted(Stream, rd, takes)
             W == Counted(Stream, wr, DOMAIN puts)
             hd == Head(fifo[c0])
  <1>1. p \in Process /\ p \notin {quantizer, replicate}
    BY StagesAre
  <1>2. PICK n : r \in Requests /\ Serves(r, h, left[p], nprobe[p], n)
                 /\ StageBody(r, w, p, n, left[p], at[p], rd, wr)
    BY StageAt
  <1>3. /\ left[p] = 0 /\ Transfer(takes, puts) /\ at' = at /\ request' = request /\ wraps' = wraps
        /\ hd.terminate => left' = left /\ nprobe' = nprobe
        /\ ~ hd.terminate => left' = [left EXCEPT ![p] = hd.batch_size]
                             /\ nprobe' = [nprobe EXCEPT ![p] = hd.nprobe]
    BY DEF read_header, Same
  <1>4. /\ takes \in SUBSET Stream /\ DOMAIN puts = {}
        /\ DOMAIN puts \in SUBSET Stream /\ \A c \in takes : Reader(c) = p /\ c[1] = "s_batch_header"
        /\ \A c \in DOMAIN puts : Writer(c) = p /\ puts[c] = History(r, w)[c][wr[c] + 1]
    BY HeaderWiring DEF ToAll, Nothing, s_batch_header
  <1>5. fifo[c0] # <<>> /\ c0 \in Stream
    BY <1>3, <1>4 DEF Transfer
  <1>6. hd = HeaderOf(r, h + 1) /\ h \in 0 .. BatchNum(r)
    <2>1. /\ rd[c0] < wr[c0] /\ rd[c0] \in Nat
          /\ Head(fifo[c0]) = History(r, w)[c0][rd[c0] + 1]
      BY <1>5, Reading
    <2>2. wr[c0] <= BatchNum(r) + 1 /\ BatchNum(r) \in Nat /\ wr[c0] \in Nat
      BY HeadersRead
    <2>3. h + 1 \in Nat
      BY <2>1
    <2> DEFINE x == h + 1
    <2> HIDE DEF x
    <2>4. History(r, w)[c0][x] = HeaderOf(r, x)
      BY <2>3, Values DEF x
    <2> QED BY <2>1, <2>2, <2>4 DEF x
  <1>7. Serves(r, h, 0, nprobe[p], n) /\ StageBody(r, w, p, n, 0, at[p], rd, wr)
    BY <1>2, <1>3
  <1>8. /\ Moves(p) /\ at'[p] = at[p]
        /\ hd.terminate => left'[p] = 0 /\ nprobe'[p] = nprobe[p]
        /\ ~ hd.terminate => left'[p] = hd.batch_size /\ nprobe'[p] = hd.nprobe
    <2>1. DOMAIN at = Process /\ DOMAIN left = Process /\ DOMAIN nprobe = Process
      BY DEF At
    <2>2. CASE hd.terminate
      BY <1>3, <2>1, <2>2 DEF Moves
    <2>3. CASE ~ hd.terminate
      <3> HIDE DEF hd
      <3> QED BY <1>1, <1>3, <2>1, <2>3 DEF Moves
    <2> QED BY <2>2, <2>3
  <1> HIDE DEF hd, takes, puts, c0, h
  <1>9. Serves(r, h + 1, left'[p], nprobe'[p], n)
    <2>1. /\ HeaderOf(r, h + 1).terminate \in BOOLEAN
          /\ HeaderOf(r, h + 1).terminate => Serves(r, h + 1, 0, nprobe[p], n)
          /\ ~ HeaderOf(r, h + 1).terminate =>
               Serves(r, h + 1, HeaderOf(r, h + 1).batch_size, HeaderOf(r, h + 1).nprobe, n)
      BY <1>2, <1>6, <1>7, NextHeader
    <2> QED BY <1>6, <1>8, <2>1
  <1>10. StageBody(r, w, p, n, left'[p], at'[p], R, W)
    <2>1. SameData(p, rd, wr, R, W)
      BY <1>4 DEF SameData, Counted
    <2>2. \A i \in PE : p = sub_PE(i) => at[p].phase # "init"
      BY DEF Loaded, sub_PE
    <2> DEFINE l == at[p]
               lf == left'[p]
    <2>3. PICK l2, lf2 : l2 = l /\ lf2 = lf
      OBVIOUS
    <2>4. StageBody(r, w, p, n, 0, l2, rd, wr) /\ \A i \in PE : p = sub_PE(i) => l2.phase # "init"
      BY <1>7, <2>2, <2>3
    <2> HIDE DEF R, W
    <2>5. StageBody(r, w, p, n, lf2, l2, rd, wr)
      BY <2>4, Idle
    <2>6. StageBody(r, w, p, n, lf2, l2, R, W)
      BY <2>1, <2>5, BodyFrame
    <2> QED BY <1>8, <2>3, <2>6
  <1>11. R[c0] = h + 1
    BY <1>5 DEF Counted, takes, h
  <1> HIDE DEF R, W
  <1>12. StageInv(r, w, p, left'[p], nprobe'[p], at'[p], R, W)
    BY <1>9, <1>10, <1>11 DEF StageInv, c0
  <1>13. ProcessInv(r, w, p, left'[p], nprobe'[p], at'[p], R, W)
    BY <1>1, <1>12 DEF ProcessInv
  <1> QED BY <1>1, <1>3, <1>4, <1>8, <1>13, Step DEF R, W

\* replicate_s_batch_header keeps the invariant.
LEMMA ReplicateStep ==
  ASSUME NEW r, NEW w, NEW rd, NEW wr, At(r, w, rd, wr),
         replicate_s_batch_header(replicate, Stages), UNCHANGED at, Same
  PROVE  LUTInv'
  <1> DEFINE p == replicate
             c0 == s_batch_header(p)
             takes == {c0}
             hd == Head(fifo[c0])
             puts == ToAll({s_batch_header(q) : q \in Stages}, hd)
             R == Counted(Stream, rd, takes)
             W == Counted(Stream, wr, DOMAIN puts)
  <1>1. p \in Process /\ p \notin Stages /\ p # quantizer
    BY StagesAre
  <1>3. /\ Transfer(takes, puts) /\ at' = at /\ request' = request /\ wraps' = wraps
        /\ left' = left /\ nprobe' = nprobe /\ fifo[c0] # <<>>
    BY DEF replicate_s_batch_header, Same
  <1>4. /\ takes \in SUBSET Stream /\ DOMAIN puts = {s_batch_header(q) : q \in Stages}
        /\ DOMAIN puts \in SUBSET Stream /\ \A c \in takes : Reader(c) = p
        /\ \A c \in DOMAIN puts : Writer(c) = p /\ puts[c] = hd
        /\ c0 \in Stream
    BY HeaderWiring DEF ToAll
  <1>5. /\ \A q \in Stages : wr[s_batch_header(q)] = rd[c0]
        /\ wr[c0] = BatchNum(r) + 1
    BY HeadersRead
  <1>6. /\ rd[c0] \in Nat /\ hd = History(r, w)[c0][rd[c0] + 1]
    BY <1>3, <1>4, Reading
  <1>7. \A c \in DOMAIN puts : puts[c] = History(r, w)[c][wr[c] + 1]
    <2> DEFINE x == rd[c0] + 1
    <2>1. x \in Nat
      BY <1>6
    <2> HIDE DEF x, hd
    <2>2. /\ \A q \in Stages : History(r, w)[s_batch_header(q)][x] = HeaderOf(r, x)
          /\ History(r, w)[c0][x] = HeaderOf(r, x)
      BY <2>1, Values
    <2>3. \A q \in Stages : wr[s_batch_header(q)] + 1 = x
      BY <1>5 DEF x
    <2>4. hd = HeaderOf(r, x)
      BY <1>6, <2>2 DEF x
    <2> HIDE DEF puts
    <2> QED BY <1>4, <2>2, <2>3, <2>4
  <1>8. Moves(p)
    BY <1>3 DEF Moves, At
  <1>9. /\ R[c0] = rd[c0] + 1 /\ \A q \in Stages : W[s_batch_header(q)] = wr[s_batch_header(q)] + 1
        /\ W[c0] = wr[c0]
    <2>1. c0 \notin DOMAIN puts
      BY <1>1, <1>4 DEF s_batch_header
    <2> HIDE DEF puts
    <2> QED BY <1>4, <2>1, HeaderWiring DEF Counted
  <1> HIDE DEF takes, puts, R, W, hd
  <1>10. /\ \A q \in Stages : W[s_batch_header(q)] = R[s_batch_header(replicate)]
         /\ W[s_batch_header(replicate)] = BatchNum(r) + 1
    BY <1>5, <1>9
  <1>11. ProcessInv(r, w, p, left'[p], nprobe'[p], at'[p], R, W)
    BY <1>1, <1>10 DEF ProcessInv
  <1> QED BY <1>1, <1>3, <1>4, <1>7, <1>8, <1>11, Step DEF R, W

-----------------------------------------------------------------------------
(* The last two processes. *)

\* extra_LUT_FIFO keeps the invariant.
LEMMA ExtraStep ==
  ASSUME NEW r, NEW w, NEW rd, NEW wr, At(r, w, rd, wr), extra_LUT_FIFO
  PROVE  LUTInv'
  <1> DEFINE p == extra_FIFO
             h == rd[s_batch_header(p)]
             L == LUT_ENTRY_NUM
             takes == {s_distance_LUT_buffer}
             puts == To(s_distance_LUT, Head(fifo[s_distance_LUT_buffer]))
             R == Counted(Stream, rd, takes)
             W == Counted(Stream, wr, DOMAIN puts)
             last == at[p].pos + 1 = Rows(p)
             local == [pos |-> (at[p].pos + 1) % Rows(p)]
  <1>1. p \in Stages
    BY StagesAre
  <1>2. PICK n : r \in Requests /\ Serves(r, h, left[p], nprobe[p], n) /\ ExtraBody(r, n, at[p], rd, wr)
    BY <1>1, StageAt, Bodies
  <1>3. PICK k : /\ at[p] = [pos |-> k] /\ Spot(r, L, n, k)
                 /\ rd[s_distance_LUT_buffer] = Past(r, L, n, k)
                 /\ wr[s_distance_LUT] = Past(r, L, n, k) /\ rd[s_distance_LUT] = 0
    BY <1>2 DEF ExtraBody
  <1>4. /\ left[p] > 0 /\ fifo[s_distance_LUT_buffer] # <<>> /\ Transfer(takes, puts)
        /\ at' = [at EXCEPT ![p] = local] /\ Finish(p, last) /\ request' = request /\ wraps' = wraps
    BY DEF extra_LUT_FIFO, Same, SetAt
  <1>5. /\ takes \in SUBSET Stream /\ DOMAIN puts = {s_distance_LUT}
        /\ DOMAIN puts \in SUBSET Stream /\ \A c \in takes : Reader(c) = p /\ c[1] # "s_batch_header"
        /\ \A c \in DOMAIN puts : Writer(c) = p /\ puts[c] = Head(fifo[s_distance_LUT_buffer])
    BY Wiring, NotHeader DEF To, ToAll
  <1>6. HasNext(r, L, h, left[p], nprobe[p], n, k)
    <2> DEFINE lf == left[p]
               np == nprobe[p]
    <2>1. r \in Requests /\ L \in Nat \ {0} /\ Serves(r, h, lf, np, n) /\ lf > 0 /\ Spot(r, L, n, k)
      BY <1>2, <1>3, <1>4, Positive
    <2> HIDE DEF lf, np, h, L, p
    <2>2. HasNext(r, L, h, lf, np, n, k)
      BY <2>1, NextSpot
    <2> QED BY <2>2 DEF lf, np
  <1>7. Past(r, L, n, k) \in Nat
    BY <1>6 DEF HasNext
  <1>70. PICK m : /\ Serves(r, h, IF k + 1 = nprobe[p] * L THEN left[p] - 1 ELSE left[p], nprobe[p], m)
                  /\ Spot(r, L, m, (k + 1) % (nprobe[p] * L))
                  /\ Past(r, L, m, (k + 1) % (nprobe[p] * L)) = Past(r, L, n, k) + 1
    BY <1>6 DEF HasNext, GoesOn
  <1>8. \A c \in DOMAIN puts : puts[c] = History(r, w)[c][wr[c] + 1]
    <2>1. Head(fifo[s_distance_LUT_buffer]) =
            History(r, w)[s_distance_LUT_buffer][rd[s_distance_LUT_buffer] + 1]
      BY <1>4, Reading, Wiring
    <2> DEFINE x == Past(r, L, n, k) + 1
    <2>2. x \in Nat /\ x = rd[s_distance_LUT_buffer] + 1 /\ \A c \in DOMAIN puts : wr[c] + 1 = x
      BY <1>3, <1>5, <1>7
    <2> HIDE DEF x, puts
    <2>3. /\ History(r, w)[s_distance_LUT_buffer][x] = RowOf(r, w, x - 1)
          /\ History(r, w)[s_distance_LUT][x] = RowOf(r, w, x - 1)
      BY <2>2, Values
    <2> QED BY <1>5, <2>1, <2>2, <2>3
  <1>9. /\ Moves(p) /\ at'[p] = local /\ nprobe'[p] = nprobe[p]
        /\ left'[p] = IF last THEN left[p] - 1 ELSE left[p]
    BY <1>1, <1>4, FinishMoves, StagesAre
  <1>10. /\ R[s_distance_LUT_buffer] = Past(r, L, n, k) + 1
         /\ W[s_distance_LUT] = Past(r, L, n, k) + 1 /\ R[s_distance_LUT] = 0
    <2>1. s_distance_LUT # s_distance_LUT_buffer
      BY DEF s_distance_LUT, s_distance_LUT_buffer
    <2> QED BY <1>3, <1>5, <2>1, Wiring DEF Counted
  <1>11. local = [pos |-> (k + 1) % (nprobe[p] * L)] /\ (last <=> k + 1 = nprobe[p] * L)
    BY <1>3 DEF Rows
  <1> HIDE DEF p, h, takes, puts, R, W, last, local, L
  <1>12. Serves(r, h, left'[p], nprobe[p], m)
    BY <1>70, <1>9, <1>11
  <1>13. ExtraBody(r, m, at'[p], R, W)
    BY <1>70, <1>9, <1>10, <1>11 DEF ExtraBody, L
  <1>14. StageBody(r, w, p, m, left'[p], at'[p], R, W)
    BY <1>13, Bodies DEF p
  <1> QED BY <1>1, <1>4, <1>5, <1>8, <1>9, <1>12, <1>14, StageStep DEF h, R, W

\* Two sequences in one.
LEMMA Concat ==
  ASSUME NEW s, IsSequence(s), NEW t, IsSequence(t)
  PROVE  /\ IsSequence(s \o t) /\ Len(s \o t) = Len(s) + Len(t)
         /\ \A j \in 1 .. Len(s) + Len(t) :
              (s \o t)[j] = IF j <= Len(s) THEN s[j] ELSE t[j - Len(s)]
         /\ DOMAIN (s \o t) = 1 .. Len(s) + Len(t)
  <1>1. PICK A : s \in Seq(A)
    BY DEF IsSequence
  <1>2. PICK B : t \in Seq(B)
    BY DEF IsSequence
  <1>3. s \in Seq(A \cup B) /\ t \in Seq(A \cup B)
    BY <1>1, <1>2
  <1> DEFINE C == A \cup B
  <1> HIDE DEF C
  <1>4. s \in Seq(C) /\ t \in Seq(C)
    BY <1>3 DEF C
  <1>5. /\ s \o t \in Seq(C) /\ Len(s \o t) = Len(s) + Len(t)
        /\ \A j \in 1 .. Len(s) + Len(t) :
              (s \o t)[j] = IF j <= Len(s) THEN s[j] ELSE t[j - Len(s)]
    BY <1>4, ConcatProperties
  <1>6. DOMAIN (s \o t) = 1 .. Len(s \o t)
    BY <1>5
  <1> QED BY <1>5, <1>6 DEF IsSequence

\* A distance in its column and in its row.
LEMMA InRow ==
  ASSUME NEW r, NEW w, NEW G \in Nat, NEW j \in 0 .. PerPE - 1, NEW i \in PE
  PROVE  /\ j * SUB_PE_NUM + i + 1 \in 1 .. M
         /\ RowOf(r, w, G)[j * SUB_PE_NUM + i + 1] = PartOf(r, w, i, G * PerPE + j)
  <1> DEFINE z == G \div LUT_ENTRY_NUM
             k == G % LUT_ENTRY_NUM
             u == G * PerPE + j
             P == PerPE
             S == SUB_PE_NUM
             L == LUT_ENTRY_NUM
             m == j * S + i
  <1>1. /\ P \in Nat \ {0} /\ S \in Nat \ {0} /\ L \in Nat \ {0} /\ M = P * S
        /\ i \in 0 .. S - 1 /\ j \in 0 .. P - 1
    BY Positive, Sizes, PEs
  <1>2. z \in Nat /\ k \in 0 .. L - 1 /\ G = z * L + k
    BY <1>1, Quotient
  <1>3. Column = P * L
    BY DEF Column
  <1>4. m + 1 \in 1 .. M
    <2> HIDE DEF P, S
    <2>1. j * S + S <= P * S /\ j * S \in Nat
      <3>1. j + 1 \in Nat /\ P - (j + 1) \in Nat
        BY <1>1
      <3>2. (P - (j + 1)) * S \in Nat
        BY <1>1, <3>1, Products
      <3>3. P * S = (P - (j + 1)) * S + (j * S + S)
        BY <1>1
      <3>4. j * S \in Nat
        BY <1>1, Products
      <3> QED BY <1>1, <3>2, <3>3, <3>4
    <2>2. m \in 0 .. j * S + S - 1
      BY <1>1, <2>1
    <2> QED BY <1>1, <2>1, <2>2
  <1> HIDE DEF P, S, L, m, z, k
  <1>5. /\ u \div P = G /\ u % P = j /\ u \div (P * L) = z /\ (u \div P) % L = k
    <2>1. PICK y : y = u
      OBVIOUS
    <2>2. Written(P, L, z, k, j, y)
      BY <1>1, <1>2, <2>1 DEF Written, P
    <2> HIDE DEF u
    <2>3. DigitsAre(P, L, z, k, j, y)
      BY <2>2, Digits
    <2>4. /\ y \div P = z * L + k /\ y % P = j /\ y \div (P * L) = z /\ (y \div P) % L = k
      BY <2>3 DEF DigitsAre
    <2> QED BY <1>2, <2>1, <2>4
  <1> HIDE DEF u
  <1>6. PartOf(r, w, i, u) = Part(r, w, z + 1, k, m)
    <2>1. PartOf(r, w, i, u) = Part(r, w, (u \div (P * L)) + 1, (u \div P) % L, (u % P) * S + i)
      BY <1>3 DEF PartOf, P, L, S
    <2> QED BY <1>5, <2>1 DEF m
  <1>7. RowOf(r, w, G)[m + 1] = Part(r, w, z + 1, k, m)
    <2> DEFINE y == m + 1
    <2>1. y \in 1 .. M /\ y - 1 = m
      BY <1>1, <1>4 DEF m
    <2> HIDE DEF y
    <2>2. RowOf(r, w, G)[y] = Part(r, w, z + 1, k, y - 1)
      BY <2>1 DEF RowOf, z, k, L
    <2> QED BY <2>1, <2>2 DEF y
  <1> QED BY <1>4, <1>6, <1>7 DEF m, u, S, P

\* The distances of every PE for its first j sub-vectors are in the row.
RowHas(r, w, G, j, row) ==
  /\ IsSequence(row) /\ Len(row) = j * SUB_PE_NUM
  /\ \A m \in 1 .. j * SUB_PE_NUM : row[m] = RowOf(r, w, G)[m]

Grows(r, w, G, j, row) ==
  /\ RowHas(r, w, G, j + 1, row) /\ (Len(row) = M <=> j + 1 = PerPE)
  /\ j + 1 = PerPE => row = RowOf(r, w, G)

\* One distance of every PE comes to the row.
LEMMA RowGrows ==
  ASSUME NEW r, NEW w, NEW G \in Nat, NEW j \in 0 .. PerPE - 1, NEW row, RowHas(r, w, G, j, row),
         NEW heads, IsSequence(heads), Len(heads) = SUB_PE_NUM,
         \A i \in PE : heads[i + 1] = PartOf(r, w, i, G * PerPE + j)
  PROVE  Grows(r, w, G, j, row \o heads)
  <1> DEFINE S == SUB_PE_NUM
             t == row \o heads
             a == j * S
  <1>1. S \in Nat \ {0} /\ PerPE \in Nat \ {0} /\ M = PerPE * S /\ a \in Nat /\ (j + 1) * S = a + S
    BY Positive, Sizes, Products
  <1>2. IsSequence(row) /\ Len(row) = a /\ \A m \in 1 .. a : row[m] = RowOf(r, w, G)[m]
    BY DEF RowHas
  <1>3. /\ IsSequence(t) /\ Len(t) = a + S /\ DOMAIN t = 1 .. a + S
        /\ \A m \in 1 .. a + S : t[m] = IF m <= a THEN row[m] ELSE heads[m - a]
    <2>1. /\ IsSequence(row \o heads) /\ Len(row \o heads) = Len(row) + Len(heads)
          /\ \A m \in 1 .. Len(row) + Len(heads) :
               (row \o heads)[m] = IF m <= Len(row) THEN row[m] ELSE heads[m - Len(row)]
          /\ DOMAIN (row \o heads) = 1 .. Len(row) + Len(heads)
      BY <1>2, Concat
    <2>2. Len(row) = a /\ Len(heads) = S
      BY <1>2
    <2> HIDE DEF a, S
    <2> QED BY <2>1, <2>2
  <1> HIDE DEF t
  <1>4. ASSUME NEW m \in 1 .. a + S PROVE t[m] = RowOf(r, w, G)[m]
    <2>1. CASE m <= a
      BY <1>1, <1>2, <1>3, <2>1
    <2>2. CASE ~ (m <= a)
      <3> DEFINE i == m - a - 1
      <3>1. i \in PE /\ i + 1 = m - a /\ a + i + 1 = m
        BY <1>1, <2>2, PEs
      <3> HIDE DEF i
      <3>2. heads[m - a] = PartOf(r, w, i, G * PerPE + j)
        <4>1. heads[i + 1] = PartOf(r, w, i, G * PerPE + j)
          BY <3>1
        <4> QED BY <3>1, <4>1
      <3>3. RowOf(r, w, G)[a + i + 1] = PartOf(r, w, i, G * PerPE + j)
        BY <3>1, InRow
      <3> QED BY <1>3, <2>2, <3>1, <3>2, <3>3
    <2> QED BY <2>1, <2>2
  <1>5. RowHas(r, w, G, j + 1, t)
    BY <1>1, <1>3, <1>4 DEF RowHas
  <1>6. Len(t) = M <=> j + 1 = PerPE
    <2>1. \A u \in Nat : u * S = PerPE * S => u = PerPE
      BY <1>1
    <2>2. j + 1 \in Nat
      OBVIOUS
    <2> QED BY <1>1, <1>3, <2>1, <2>2
  <1>7. ASSUME j + 1 = PerPE PROVE t = RowOf(r, w, G)
    <2>1. DOMAIN t = 1 .. M /\ a + S = M
      BY <1>1, <1>3, <1>7
    <2>2. DOMAIN RowOf(r, w, G) = 1 .. M
      BY DEF RowOf
    <2>3. t = [m \in 1 .. M |-> t[m]]
      <3>1. PICK V : t \in Seq(V)
        BY <1>3 DEF IsSequence
      <3> QED BY <2>1, <3>1
    <2>4. RowOf(r, w, G) = [m \in 1 .. M |-> RowOf(r, w, G)[m]]
      BY DEF RowOf
    <2> QED BY <1>4, <2>1, <2>3, <2>4
  <1> QED BY <1>5, <1>6, <1>7 DEF Grows, t

\* The columns are one distance of every PE.
LEMMA Columns ==
  ASSUME NEW r, NEW w, NEW rd, NEW wr, At(r, w, rd, wr), NEW G \in Nat, NEW j \in 0 .. PerPE - 1,
         \A i \in PE : rd[s_partial_distance_LUT(i)] = G * PerPE + j
                       /\ fifo[s_partial_distance_LUT(i)] # <<>>,
         NEW heads, heads = [i \in 1 .. SUB_PE_NUM |-> Head(fifo[s_partial_distance_LUT(i - 1)])]
  PROVE  /\ IsSequence(heads) /\ Len(heads) = SUB_PE_NUM
         /\ \A i \in PE : heads[i + 1] = PartOf(r, w, i, G * PerPE + j)
  <1>1. SUB_PE_NUM \in Nat /\ PerPE \in Nat
    BY Positive, Sizes
  <1>2. IsSequence(heads) /\ Len(heads) = SUB_PE_NUM
    <2> DEFINE V == {heads[i] : i \in 1 .. SUB_PE_NUM}
    <2>1. heads \in [1 .. SUB_PE_NUM -> V]
      OBVIOUS
    <2> HIDE DEF V
    <2>2. heads \in Seq(V) /\ Len(heads) = SUB_PE_NUM
      BY <1>1, <2>1
    <2> QED BY <2>2 DEF IsSequence
  <1>3. ASSUME NEW i \in PE PROVE heads[i + 1] = PartOf(r, w, i, G * PerPE + j)
    <2> DEFINE c == s_partial_distance_LUT(i)
               x == G * PerPE + j + 1
    <2>1. i + 1 \in 1 .. SUB_PE_NUM /\ (i + 1) - 1 = i
      BY <1>1, PEs
    <2>2. heads[i + 1] = Head(fifo[c])
      BY <2>1
    <2>3. c \in Stream /\ fifo[c] # <<>> /\ rd[c] + 1 = x
      BY PEWiring
    <2>4. G * PerPE + j \in Nat
      BY <1>1, Products
    <2>5. x \in Nat /\ x - 1 = G * PerPE + j
      BY <2>4
    <2> HIDE DEF x
    <2>6. History(r, w)[c][x] = PartOf(r, w, i, x - 1)
      BY <2>5, PEValues
    <2> HIDE DEF c
    <2>7. Head(fifo[c]) = History(r, w)[c][rd[c] + 1]
      BY <2>3, Reading
    <2> QED BY <2>2, <2>3, <2>5, <2>6, <2>7
  <1> QED BY <1>2, <1>3

\* gather_LUT_results keeps the invariant.
LEMMA GatherStep ==
  ASSUME NEW r, NEW w, NEW rd, NEW wr, At(r, w, rd, wr), gather_LUT_results
  PROVE  LUTInv'
  <1> DEFINE p == gather
             h == rd[s_batch_header(p)]
             L == LUT_ENTRY_NUM
             takes == {s_partial_distance_LUT(i) : i \in PE}
             heads == [i \in 1 .. SUB_PE_NUM |-> Head(fifo[s_partial_distance_LUT(i - 1)])]
             t == at[p].row \o heads
             full == Len(t) = M
             puts == IF full THEN To(s_distance_LUT_buffer, t) ELSE Nothing
             R == Counted(Stream, rd, takes)
             W == Counted(Stream, wr, DOMAIN puts)
             last == full /\ at[p].pos + 1 = Rows(p)
             local == IF full THEN [pos |-> (at[p].pos + 1) % Rows(p), row |-> <<>>]
                      ELSE [at[p] EXCEPT !.row = t]
  <1>1. p \in Stages
    BY StagesAre
  <1>2. PICK n : r \in Requests /\ Serves(r, h, left[p], nprobe[p], n)
                 /\ GatherBody(r, w, n, left[p], at[p], rd, wr)
    BY <1>1, StageAt, Bodies
  <1>3. PICK k, j, row : GatherAt(r, w, n, left[p], at[p], rd, wr, k, j, row)
    BY <1>2 DEF GatherBody
  <1> DEFINE G == Past(r, L, n, k)
  <1>30. /\ at[p] = [pos |-> k, row |-> row] /\ Spot(r, L, n, k) /\ j \in 0 .. PerPE - 1
         /\ RowHas(r, w, G, j, row)
         /\ \A i \in PE : rd[s_partial_distance_LUT(i)] = G * PerPE + j
         /\ wr[s_distance_LUT_buffer] = G
    BY <1>3 DEF GatherAt, RowHas
  <1>4. /\ left[p] > 0 /\ Transfer(takes, puts) /\ \A c \in takes : fifo[c] # <<>>
        /\ at' = [at EXCEPT ![p] = local] /\ Finish(p, last) /\ request' = request /\ wraps' = wraps
    BY DEF gather_LUT_results, Same, SetAt
  <1>5. /\ takes \in SUBSET Stream /\ DOMAIN puts = IF full THEN {s_distance_LUT_buffer} ELSE {}
        /\ DOMAIN puts \in SUBSET Stream /\ \A c \in takes : Reader(c) = p /\ c[1] # "s_batch_header"
        /\ \A c \in DOMAIN puts : Writer(c) = p /\ puts[c] = t
    BY Wiring, PEWiring, NotHeader DEF To, ToAll, Nothing
  <1>6. HasNext(r, L, h, left[p], nprobe[p], n, k)
    <2> DEFINE lf == left[p]
               np == nprobe[p]
    <2>1. r \in Requests /\ L \in Nat \ {0} /\ Serves(r, h, lf, np, n) /\ lf > 0 /\ Spot(r, L, n, k)
      BY <1>2, <1>30, <1>4, Positive
    <2> HIDE DEF lf, np, h, L, p
    <2>2. HasNext(r, L, h, lf, np, n, k)
      BY <2>1, NextSpot
    <2> QED BY <2>2 DEF lf, np
  <1>7. G \in Nat
    BY <1>6 DEF HasNext
  <1>8. /\ Grows(r, w, G, j, t) /\ t = row \o heads
    <2>1. PICK hs : hs = heads
      OBVIOUS
    <2>2. \A i \in PE : rd[s_partial_distance_LUT(i)] = G * PerPE + j
                        /\ fifo[s_partial_distance_LUT(i)] # <<>>
      BY <1>30, <1>4
    <2> HIDE DEF G
    <2>3. /\ IsSequence(hs) /\ Len(hs) = SUB_PE_NUM
          /\ \A i \in PE : hs[i + 1] = PartOf(r, w, i, G * PerPE + j)
      BY <1>7, <1>30, <2>1, <2>2, Columns
    <2>4. Grows(r, w, G, j, row \o hs)
      BY <1>7, <1>30, <2>3, RowGrows
    <2>5. at[p].row = row
      BY <1>30
    <2> QED BY <2>1, <2>4, <2>5
  <1>9. /\ Moves(p) /\ at'[p] = local /\ nprobe'[p] = nprobe[p]
        /\ left'[p] = IF last THEN left[p] - 1 ELSE left[p]
    BY <1>1, <1>4, FinishMoves, StagesAre
  <1> HIDE DEF G
  <1>10. /\ full <=> j + 1 = PerPE
         /\ full => t = RowOf(r, w, G)
         /\ RowHas(r, w, G, j + 1, t)
    BY <1>8 DEF Grows
  <1>11. \A c \in DOMAIN puts : puts[c] = History(r, w)[c][wr[c] + 1]
    <2>1. SUFFICES ASSUME full
                   PROVE  t = History(r, w)[s_distance_LUT_buffer][wr[s_distance_LUT_buffer] + 1]
      BY <1>5
    <2> DEFINE x == G + 1
    <2>2. x \in Nat /\ wr[s_distance_LUT_buffer] + 1 = x /\ x - 1 = G
      BY <1>7, <1>30 DEF G
    <2> HIDE DEF x
    <2>3. History(r, w)[s_distance_LUT_buffer][x] = RowOf(r, w, x - 1)
      BY <2>2, Values
    <2> QED BY <1>10, <2>1, <2>2, <2>3
  <1>12. /\ \A i \in PE : R[s_partial_distance_LUT(i)] = G * PerPE + j + 1
         /\ full => W[s_distance_LUT_buffer] = G + 1
         /\ ~ full => W[s_distance_LUT_buffer] = G
    BY <1>30, <1>5, Wiring, PEWiring DEF Counted, G
  <1>13. /\ full => local = [pos |-> (k + 1) % (nprobe[p] * L), row |-> <<>>]
         /\ ~ full => local = [pos |-> k, row |-> t]
         /\ last <=> full /\ k + 1 = nprobe[p] * L
    <2> HIDE DEF full, t
    <2>1. at[p].pos = k /\ [at[p] EXCEPT !.row = t] = [pos |-> k, row |-> t]
      BY <1>30
    <2>2. Rows(p) = nprobe[p] * L
      BY DEF Rows
    <2> QED BY <2>1, <2>2
  <1> HIDE DEF p, h, takes, puts, R, W, last, local, L, full, t, heads
  <1>14. CASE full
    <2>1. PICK m : /\ Serves(r, h, IF k + 1 = nprobe[p] * L THEN left[p] - 1 ELSE left[p], nprobe[p], m)
                   /\ Spot(r, L, m, (k + 1) % (nprobe[p] * L))
                   /\ Past(r, L, m, (k + 1) % (nprobe[p] * L)) = G + 1
      BY <1>6 DEF HasNext, GoesOn, G
    <2>2. Serves(r, h, left'[p], nprobe[p], m)
      BY <1>9, <1>13, <1>14, <2>1
    <2> DEFINE y == (k + 1) % (nprobe[p] * L)
               none == <<>>
    <2>3. /\ at'[p] = [pos |-> y, row |-> none] /\ Spot(r, L, m, y) /\ Past(r, L, m, y) = G + 1
      BY <1>9, <1>13, <1>14, <2>1
    <2>4. RowHas(r, w, G + 1, 0, none) /\ 0 \in 0 .. PerPE - 1 /\ G * PerPE + j + 1 = (G + 1) * PerPE + 0
      <3>1. G * PerPE \in Nat /\ (G + 1) * PerPE = G * PerPE + PerPE /\ PerPE \in Nat \ {0}
            /\ 0 * SUB_PE_NUM = 0
        BY <1>7, Sizes, Products, Positive
      <3>2. G * PerPE + j + 1 = (G + 1) * PerPE + 0 /\ 0 \in 0 .. PerPE - 1
        BY <1>10, <1>14, <1>30, <3>1
      <3>3. IsSequence(none) /\ Len(none) = 0
        <4>1. <<>> \in Seq({})
          OBVIOUS
        <4> QED BY <4>1 DEF IsSequence
      <3>4. \A m2 \in 1 .. 0 : FALSE
        OBVIOUS
      <3> HIDE DEF none
      <3>5. RowHas(r, w, G + 1, 0, none)
        BY <3>1, <3>3, <3>4 DEF RowHas
      <3> QED BY <3>2, <3>5
    <2> HIDE DEF y, none
    <2>5. /\ \A i \in PE : R[s_partial_distance_LUT(i)] = (G + 1) * PerPE + 0
          /\ W[s_distance_LUT_buffer] = G + 1
      BY <1>12, <1>14, <2>4
    <2> DEFINE g == G + 1
    <2>6. /\ at'[p] = [pos |-> y, row |-> none] /\ Spot(r, L, m, y) /\ Past(r, L, m, y) = g
          /\ RowHas(r, w, g, 0, none) /\ 0 \in 0 .. PerPE - 1
          /\ \A i \in PE : R[s_partial_distance_LUT(i)] = g * PerPE + 0
          /\ W[s_distance_LUT_buffer] = g
      BY <2>3, <2>4, <2>5
    <2> HIDE DEF g
    <2>7. GatherAt(r, w, m, left'[p], at'[p], R, W, y, 0, none)
      BY <2>6 DEF GatherAt, RowHas, L
    <2>8. StageBody(r, w, p, m, left'[p], at'[p], R, W)
      BY <2>7, Bodies DEF p, GatherBody
    <2> QED BY <1>1, <1>4, <1>5, <1>9, <1>11, <2>2, <2>8, StageStep DEF h, R, W
  <1>15. CASE ~ full
    <2>1. Serves(r, h, left'[p], nprobe[p], n) /\ left'[p] = left[p]
      BY <1>2, <1>9, <1>13, <1>15
    <2>2. /\ at'[p] = [pos |-> k, row |-> t] /\ j + 1 \in 0 .. PerPE - 1
      BY <1>9, <1>10, <1>13, <1>15, <1>30, Sizes
    <2> DEFINE j2 == j + 1
    <2>3. \A i \in PE : R[s_partial_distance_LUT(i)] = G * PerPE + j2
      <3>1. G * PerPE \in Nat /\ j \in Nat
        BY <1>7, <1>30, Sizes, Products
      <3>2. G * PerPE + j + 1 = G * PerPE + (j + 1)
        BY <3>1
      <3> QED BY <1>12, <3>2
    <2>4. /\ at'[p] = [pos |-> k, row |-> t] /\ j2 \in 0 .. PerPE - 1 /\ left'[p] > 0
          /\ Spot(r, L, n, k) /\ RowHas(r, w, G, j2, t) /\ W[s_distance_LUT_buffer] = G
          /\ G = Past(r, L, n, k)
      BY <1>4, <1>10, <1>12, <1>15, <1>30, <2>1, <2>2 DEF G
    <2> HIDE DEF j2, G
    <2>5. GatherAt(r, w, n, left'[p], at'[p], R, W, k, j2, t)
      BY <2>3, <2>4 DEF GatherAt, RowHas, L
    <2>6. StageBody(r, w, p, n, left'[p], at'[p], R, W)
      BY <2>5, Bodies DEF p, GatherBody
    <2> QED BY <1>1, <1>4, <1>5, <1>9, <1>11, <2>1, <2>6, StageStep DEF h, R, W
  <1> QED BY <1>14, <1>15

-----------------------------------------------------------------------------
(* Where a PE keeps what it reads. *)

\* A number of two digits is below the product of their ranges.
LEMMA Within ==
  ASSUME NEW n \in Nat \ {0}, NEW m \in Nat \ {0}, NEW k \in 0 .. m - 1, NEW j \in 0 .. n - 1
  PROVE  /\ k * n + j \in 0 .. m * n - 1 /\ k * n + j \in Nat
         /\ (k * n + j) \div n = k /\ (k * n + j) % n = j
  <1>1. k * n \in Nat /\ m * n \in Nat
    BY Products
  <1>2. k * n + n <= m * n
    <2>1. m - (k + 1) \in Nat
      OBVIOUS
    <2>2. (m - (k + 1)) * n \in Nat
      BY <2>1, Products
    <2>3. m * n = (m - (k + 1)) * n + (k * n + n)
      OBVIOUS
    <2> QED BY <1>1, <2>2, <2>3
  <1> DEFINE a == k * n
             b == m * n
  <1>3. a \in Nat /\ b \in Nat /\ a + n <= b
    BY <1>1, <1>2
  <1> HIDE DEF a, b
  <1>4. a + j \in 0 .. b - 1 /\ a + j \in Nat
    BY <1>3
  <1>5. k \in Nat
    OBVIOUS
  <1>6. (k * n + j) \div n = k /\ (k * n + j) % n = j
    BY <1>5, Division
  <1> QED BY <1>4, <1>6 DEF a, b

\* Each element has a place of its own.
LEMMA Places ==
  ASSUME NEW u \in 0 .. Share - 1
  PROVE  place(u) \in 0 .. Share - 1 /\ \A v \in 0 .. u - 1 : place(v) # place(u)
  <1> DEFINE P == PerPE
             B == SubDim
  <1>1. P \in Nat \ {0} /\ B \in Nat \ {0} /\ Share = P * B /\ Share = B * P /\ Share \in Nat
    <2>1. P \in Nat \ {0} /\ B \in Nat \ {0} /\ Share = P * B /\ Share \in Nat
      BY Sizes DEF Share
    <2> QED BY <2>1
  <1> HIDE DEF P, B
  <1>2. ASSUME NEW v \in 0 .. Share - 1
        PROVE  /\ place(v) = (v % P) * B + (v \div P) /\ v % P \in 0 .. P - 1 /\ v \div P \in 0 .. B - 1
               /\ v = (v \div P) * P + (v % P)
               /\ place(v) \in 0 .. P * B - 1 /\ place(v) \div B = v % P /\ place(v) % B = v \div P
    <2>1. v \in Nat /\ v < B * P
      BY <1>1
    <2>2. /\ v \div P \in Nat /\ v % P \in 0 .. P - 1 /\ v = (v \div P) * P + (v % P)
          /\ v \div P < B
      <3>1. /\ v \div P \in Nat /\ v % P \in 0 .. P - 1 /\ v = (v \div P) * P + (v % P)
            /\ \A m \in Nat : v < m * P => v \div P < m
        BY <1>1, <2>1, Quotient
      <3> QED BY <1>1, <2>1, <3>1
    <2> DEFINE y == v \div P
               z == v % P
    <2>3. y \in 0 .. B - 1 /\ z \in 0 .. P - 1
      BY <1>1, <2>2
    <2>4. place(v) = z * B + y
      BY DEF place, P, B
    <2> HIDE DEF y, z
    <2>5. z * B + y \in 0 .. P * B - 1 /\ (z * B + y) \div B = z /\ (z * B + y) % B = y
      BY <1>1, <2>3, Within
    <2> QED BY <2>2, <2>3, <2>4, <2>5 DEF y, z
  <1>3. place(u) \in 0 .. Share - 1
    <2>1. place(u) \in 0 .. P * B - 1
      BY <1>2
    <2> QED BY <1>1, <2>1
  <1>4. ASSUME NEW v \in 0 .. u - 1, place(v) = place(u) PROVE FALSE
    <2>1. v \in 0 .. Share - 1 /\ v # u
      BY <1>1
    <2>2. v \div P = u \div P /\ v % P = u % P
      <3>1. place(v) \div B = v % P /\ place(v) % B = v \div P
        BY <1>2, <2>1
      <3>2. place(u) \div B = u % P /\ place(u) % B = u \div P
        BY <1>2
      <3> QED BY <1>4, <3>1, <3>2
    <2>3. v = (v \div P) * P + (v % P)
      BY <1>2, <2>1
    <2>4. u = (u \div P) * P + (u % P)
      BY <1>2
    <2> QED BY <2>1, <2>2, <2>3, <2>4
  <1> QED BY <1>3, <1>4

\* The next value comes to its place.
LEMMA HasOneMore ==
  ASSUME NEW F, NEW a, NEW u \in 0 .. Share - 1, Has(F, a, u), NEW x, x = F[u]
  PROVE  Has(F, [a EXCEPT ![place(u)] = x], u + 1)
  <1> DEFINE b == [a EXCEPT ![place(u)] = x]
             e == place(u)
  <1>1. e \in 0 .. Share - 1 /\ \A v \in 0 .. u - 1 : place(v) # e
    BY Places
  <1>2. DOMAIN a = 0 .. Share - 1 /\ \A v \in 0 .. u - 1 : a[place(v)] = F[v]
    BY DEF Has
  <1>3. Share \in Nat
    BY Sizes
  <1>4. DOMAIN b = 0 .. Share - 1 /\ b[e] = x /\ \A y \in 0 .. Share - 1 : y # e => b[y] = a[y]
    BY <1>1, <1>2
  <1>5. ASSUME NEW v \in 0 .. (u + 1) - 1 PROVE b[place(v)] = F[v]
    <2> HIDE DEF b, e
    <2>1. CASE v = u
      BY <1>4, <2>1 DEF e
    <2>2. CASE v # u
      <3>1. v \in 0 .. u - 1 /\ v \in 0 .. Share - 1
        BY <1>3, <2>2
      <3>2. place(v) \in 0 .. Share - 1
        BY <3>1, Places
      <3> QED BY <1>1, <1>2, <1>4, <3>1, <3>2
    <2> QED BY <2>1, <2>2
  <1> QED BY <1>4, <1>5 DEF Has

\* A vector that is complete, by its places.
LEMMA HasAll ==
  ASSUME NEW F, NEW a, Has(F, a, Share), NEW m \in 0 .. PerPE - 1, NEW j \in 0 .. SubDim - 1
  PROVE  /\ a[m * SubDim + j] = F[j * PerPE + m]
         /\ (j * PerPE + m) \div PerPE = j /\ (j * PerPE + m) % PerPE = m /\ j * PerPE + m \in Nat
  <1> DEFINE v == j * PerPE + m
  <1>1. PerPE \in Nat \ {0} /\ SubDim \in Nat \ {0}
    BY Sizes
  <1>2. v \in 0 .. SubDim * PerPE - 1 /\ v \div PerPE = j /\ v % PerPE = m /\ v \in Nat
    BY <1>1, Within
  <1>3. SubDim * PerPE = Share
    BY <1>1 DEF Share
  <1> HIDE DEF v
  <1>4. v \in 0 .. Share - 1
    BY <1>2, <1>3
  <1>5. place(v) = m * SubDim + j
    BY <1>2 DEF place
  <1>6. a[place(v)] = F[v]
    BY <1>4 DEF Has
  <1> QED BY <1>2, <1>5, <1>6 DEF v

\* The row and the place of the u-th number a PE reads of its sub-quantizers.
RowAt(u) == (u \div SubDim) % LUT_ENTRY_NUM
ElementAt(u) == (u \div Block) * SubDim + (u % SubDim)

KeptAt(u, z, k, j) ==
  /\ z \in 0 .. PerPE - 1 /\ k \in 0 .. LUT_ENTRY_NUM - 1 /\ j \in 0 .. SubDim - 1
  /\ u = (z * LUT_ENTRY_NUM + k) * SubDim + j
  /\ u \div Block = z /\ u % SubDim = j /\ RowAt(u) = k /\ ElementAt(u) = z * SubDim + j
  /\ ElementAt(u) \in 0 .. Share - 1 /\ ElementAt(u) \div SubDim = z /\ ElementAt(u) % SubDim = j

\* What the digits of such a number say.
LEMMA Keeping ==
  ASSUME NEW u, NEW z, NEW k, NEW j, Written(SubDim, LUT_ENTRY_NUM, z, k, j, u),
         z \in 0 .. PerPE - 1
  PROVE  KeptAt(u, z, k, j)
  <1> DEFINE B == SubDim
             L == LUT_ENTRY_NUM
  <1>1. /\ B \in Nat \ {0} /\ L \in Nat \ {0} /\ PerPE \in Nat \ {0}
        /\ Block = B * L /\ Share = PerPE * B
    BY Sizes, Positive DEF Block, Share
  <1>2. DigitsAre(B, L, z, k, j, u)
    BY Digits
  <1>3. k \in 0 .. L - 1 /\ j \in 0 .. B - 1 /\ u = (z * L + k) * B + j
    BY DEF Written
  <1>4. u \div (B * L) = z /\ u % B = j /\ (u \div B) % L = k
    BY <1>2 DEF DigitsAre
  <1> HIDE DEF B, L
  <1>5. /\ z * B + j \in 0 .. PerPE * B - 1 /\ (z * B + j) \div B = z /\ (z * B + j) % B = j
    BY <1>1, <1>3, Within
  <1>6. u \div Block = z /\ RowAt(u) = k /\ ElementAt(u) = z * B + j
    BY <1>1, <1>4 DEF RowAt, ElementAt, B, L
  <1>7. /\ ElementAt(u) \in 0 .. Share - 1 /\ ElementAt(u) \div B = z /\ ElementAt(u) % B = j
    BY <1>1, <1>5, <1>6
  <1> QED BY <1>3, <1>4, <1>6, <1>7 DEF KeptAt, B, L

\* Every number a PE reads has such a place.
LEMMA Kept ==
  ASSUME NEW u \in 0 .. Share * LUT_ENTRY_NUM - 1
  PROVE  \E z, k, j : KeptAt(u, z, k, j)
  <1> DEFINE L == LUT_ENTRY_NUM
  <1>1. /\ SubDim \in Nat \ {0} /\ L \in Nat \ {0} /\ PerPE \in Nat \ {0}
        /\ Share = PerPE * SubDim /\ Block = SubDim * L /\ Block \in Nat \ {0}
    BY Sizes, Positive DEF Share, Block
  <1>2. Share * L = PerPE * Block
    BY <1>1
  <1>3. u \in Nat /\ u < PerPE * Block
    <2>1. PerPE * Block \in Nat
      BY <1>1, Products
    <2> QED BY <1>2, <2>1
  <1> HIDE DEF L
  <1>4. PICK z, k, j : Written(SubDim, L, z, k, j, u)
    BY <1>1, <1>3, HasDigits
  <1>5. u \div Block = z /\ z \in Nat
    <2>1. DigitsAre(SubDim, L, z, k, j, u)
      BY <1>4, Digits
    <2> QED BY <1>1, <1>4, <2>1 DEF DigitsAre, Written
  <1>6. z < PerPE
    <2>1. \A m \in Nat : u < m * Block => u \div Block < m
      BY <1>1, <1>3, Quotient
    <2> QED BY <1>1, <1>3, <1>5, <2>1
  <1>7. z \in 0 .. PerPE - 1
    BY <1>1, <1>5, <1>6
  <1>8. KeptAt(u, z, k, j)
    BY <1>4, <1>7, Keeping DEF L
  <1> QED BY <1>8

\* No two share one.
LEMMA KeptApart ==
  ASSUME NEW u \in 0 .. Share * LUT_ENTRY_NUM - 1, NEW v \in 0 .. Share * LUT_ENTRY_NUM - 1,
         RowAt(u) = RowAt(v), ElementAt(u) = ElementAt(v)
  PROVE  u = v
  <1>1. PICK z, k, j : KeptAt(u, z, k, j)
    BY Kept
  <1>2. PICK y, m, i : KeptAt(v, y, m, i)
    BY Kept
  <1>3. RowAt(u) = k /\ ElementAt(u) \div SubDim = z /\ ElementAt(u) % SubDim = j
        /\ u = (z * LUT_ENTRY_NUM + k) * SubDim + j
    BY <1>1 DEF KeptAt
  <1>4. RowAt(v) = m /\ ElementAt(v) \div SubDim = y /\ ElementAt(v) % SubDim = i
        /\ v = (y * LUT_ENTRY_NUM + m) * SubDim + i
    BY <1>2 DEF KeptAt
  <1>5. k = m /\ z = y /\ j = i
    BY <1>3, <1>4
  <1> QED BY <1>3, <1>4, <1>5

\* The next number comes to its place.
LEMMA QuantizerOneMore ==
  ASSUME NEW q, NEW i, NEW u \in 0 .. Share * LUT_ENTRY_NUM - 1, HasQuantizer(q, i, u),
         NEW x, x = QuantizerOf(i, u)
  PROVE  HasQuantizer([q EXCEPT ![RowAt(u)][ElementAt(u)] = x], i, u + 1)
  <1> DEFINE k == RowAt(u)
             e == ElementAt(u)
             f == [q EXCEPT ![k][e] = x]
             N == Share * LUT_ENTRY_NUM
  <1>0. N \in Nat
    BY Sizes, Positive, Products
  <1>1. /\ DOMAIN q = 0 .. LUT_ENTRY_NUM - 1 /\ \A y \in DOMAIN q : DOMAIN q[y] = 0 .. Share - 1
        /\ \A v \in 0 .. u - 1 : q[RowAt(v)][ElementAt(v)] = QuantizerOf(i, v)
    BY DEF HasQuantizer, RowAt, ElementAt
  <1>2. \A v \in 0 .. N - 1 : RowAt(v) \in 0 .. LUT_ENTRY_NUM - 1 /\ ElementAt(v) \in 0 .. Share - 1
    <2> TAKE v \in 0 .. N - 1
    <2>1. PICK z, k2, j : KeptAt(v, z, k2, j)
      BY Kept
    <2> QED BY <2>1 DEF KeptAt
  <1>3. k \in 0 .. LUT_ENTRY_NUM - 1 /\ e \in 0 .. Share - 1
    BY <1>2
  <1> HIDE DEF k, e
  <1>4. /\ DOMAIN f = 0 .. LUT_ENTRY_NUM - 1 /\ \A y \in DOMAIN f : DOMAIN f[y] = 0 .. Share - 1
        /\ f[k][e] = x
        /\ \A y \in 0 .. LUT_ENTRY_NUM - 1 : \A z \in 0 .. Share - 1 :
             y # k \/ z # e => f[y][z] = q[y][z]
    BY <1>1, <1>3
  <1> HIDE DEF f, N
  <1>5. ASSUME NEW v \in 0 .. (u + 1) - 1 PROVE f[RowAt(v)][ElementAt(v)] = QuantizerOf(i, v)
    <2>1. CASE v = u
      BY <1>4, <2>1 DEF k, e
    <2>2. CASE v # u
      <3>1. v \in 0 .. u - 1 /\ v \in 0 .. N - 1 /\ u \in 0 .. N - 1
        BY <1>0, <2>2 DEF N
      <3>2. RowAt(v) # k \/ ElementAt(v) # e
        BY <2>2, <3>1, KeptApart DEF k, e, N
      <3>3. f[RowAt(v)][ElementAt(v)] = q[RowAt(v)][ElementAt(v)]
        BY <1>2, <1>4, <3>1, <3>2
      <3> QED BY <1>1, <3>1, <3>3
    <2> QED BY <2>1, <2>2
  <1>6. HasQuantizer(f, i, u + 1)
    BY <1>4, <1>5 DEF HasQuantizer, RowAt, ElementAt
  <1> QED BY <1>6 DEF f, k, e

\* Sub-quantizers that are complete, by their places.
LEMMA QuantizerAll ==
  ASSUME NEW q, NEW i, HasQuantizer(q, i, Share * LUT_ENTRY_NUM), NEW m \in 0 .. PerPE - 1,
         NEW k \in 0 .. LUT_ENTRY_NUM - 1, NEW j \in 0 .. SubDim - 1
  PROVE  q[k][m * SubDim + j] = Quantizer(m * SUB_PE_NUM + i, k, j)
  <1> DEFINE L == LUT_ENTRY_NUM
             u == (m * L + k) * SubDim + j
  <1>1. /\ SubDim \in Nat \ {0} /\ L \in Nat \ {0} /\ PerPE \in Nat \ {0}
        /\ Share = PerPE * SubDim /\ m \in Nat
    BY Sizes, Positive DEF Share
  <1>2. Written(SubDim, L, m, k, j, u)
    BY <1>1 DEF Written
  <1>3. PICK v : v = u
    OBVIOUS
  <1> HIDE DEF u
  <1>4. Written(SubDim, L, m, k, j, v)
    BY <1>2, <1>3
  <1>5. KeptAt(v, m, k, j)
    BY <1>4, Keeping DEF L
  <1>6. v \in 0 .. Share * L - 1
    <2>1. m * L + k \in 0 .. PerPE * L - 1 /\ m * L + k \in Nat
      BY <1>1, Within
    <2> DEFINE y == m * L + k
               n == PerPE * L
    <2>2. y \in 0 .. n - 1 /\ n \in Nat \ {0}
      BY <1>1, <2>1, Products
    <2> HIDE DEF y, n
    <2>3. y * SubDim + j \in 0 .. n * SubDim - 1
      BY <1>1, <2>2, Within
    <2>4. n * SubDim = Share * L
      BY <1>1 DEF n
    <2> QED BY <1>3, <2>3, <2>4 DEF u, y
  <1>7. q[RowAt(v)][ElementAt(v)] = QuantizerOf(i, v)
    BY <1>6 DEF HasQuantizer, RowAt, ElementAt, L
  <1>8. RowAt(v) = k /\ ElementAt(v) = m * SubDim + j /\ v \div Block = m /\ v % SubDim = j
    BY <1>5 DEF KeptAt
  <1>9. QuantizerOf(i, v) = Quantizer(m * SUB_PE_NUM + i, k, j)
    BY <1>8 DEF QuantizerOf, RowAt
  <1> QED BY <1>7, <1>8, <1>9

\* A PE computes from its arrays the distance that is asked for.
LEMMA PartialDistance ==
  ASSUME NEW r, NEW w, wraps = w, NEW i \in PE, NEW G \in Nat, NEW u \in 0 .. Column - 1, NEW l,
         HasQuantizer(l.quantizer, i, Share * LUT_ENTRY_NUM),
         Has(Differences(r, G + 1, i), l.residual, Share)
  PROVE  L2_dist(l, u \div PerPE, u % PerPE) = PartOf(r, w, i, G * Column + u)
  <1> DEFINE P == PerPE
             L == LUT_ENTRY_NUM
             k == u \div P
             mm == u % P
             y == G * Column + u
             m == mm * SUB_PE_NUM + i
             g == G + 1
  <1>1. /\ P \in Nat \ {0} /\ L \in Nat \ {0} /\ Column = P * L /\ Column \in Nat
        /\ SUB_PE_NUM \in Nat \ {0} /\ i \in 0 .. SUB_PE_NUM - 1 /\ SubDim \in Nat \ {0}
    BY Sizes, Positive, PEs DEF Column
  <1> HIDE DEF P, L
  <1>2. k \in 0 .. L - 1 /\ mm \in 0 .. P - 1 /\ u = k * P + mm
    <2>1. u \in Nat /\ u < L * P
      BY <1>1
    <2>2. /\ k \in Nat /\ mm \in 0 .. P - 1 /\ u = k * P + mm /\ \A v \in Nat : u < v * P => k < v
      BY <1>1, <2>1, Quotient
    <2> QED BY <1>1, <2>1, <2>2
  <1> HIDE DEF k, mm
  <1>3. PICK z : z = y
    OBVIOUS
  <1>4. Written(P, L, G, k, mm, z)
    <2>1. y = (G * L + k) * P + mm
      BY <1>1, <1>2
    <2> QED BY <1>1, <1>2, <1>3, <2>1 DEF Written
  <1> HIDE DEF y
  <1>5. /\ z \div Column = G /\ (z \div P) % L = k /\ z % P = mm
    <2>1. DigitsAre(P, L, G, k, mm, z)
      BY <1>4, Digits
    <2> QED BY <1>1, <2>1 DEF DigitsAre
  <1>6. PartOf(r, w, i, z) = Part(r, w, g, k, m)
    BY <1>5 DEF PartOf, P, L
  <1>7. m < SUB_PE_NUM <=> mm = 0
    <2>1. mm = 0 => m = i
      <3>1. 0 * SUB_PE_NUM = 0
        BY <1>1
      <3> QED BY <1>1, <3>1
    <2>2. mm # 0 => m >= SUB_PE_NUM
      <3>1. \A v \in Nat : (v + 1) * SUB_PE_NUM = v * SUB_PE_NUM + SUB_PE_NUM /\ v * SUB_PE_NUM \in Nat
        BY <1>1, Products
      <3>2. mm # 0 => mm - 1 \in Nat /\ mm = (mm - 1) + 1
        BY <1>1, <1>2
      <3>3. mm # 0 => mm * SUB_PE_NUM >= SUB_PE_NUM /\ mm * SUB_PE_NUM \in Nat
        <4> DEFINE v == mm - 1
        <4>1. mm # 0 => v \in Nat /\ mm = v + 1
          BY <3>2
        <4> HIDE DEF v
        <4>2. v \in Nat => (v + 1) * SUB_PE_NUM = v * SUB_PE_NUM + SUB_PE_NUM /\ v * SUB_PE_NUM \in Nat
          BY <3>1
        <4> QED BY <1>1, <4>1, <4>2
      <3> QED BY <1>1, <3>3
    <2>3. m \in Int
      <3>1. mm * SUB_PE_NUM \in Nat
        BY <1>1, <1>2, Products
      <3> QED BY <1>1, <3>1
    <2> QED BY <1>1, <2>1, <2>2, <2>3
  <1>8. {<<l.residual[j], l.quantizer[k][j]>> : j \in mm * SubDim .. (mm + 1) * SubDim - 1}
          = DistanceOf(r, g, k, m)
    <2> DEFINE a == mm * SubDim
               A == {<<l.residual[j], l.quantizer[k][j]>> : j \in mm * SubDim .. (mm + 1) * SubDim - 1}
               F(j) == <<<<<<QueryVector(Probe(r)[g][1]), m * SubDim + j>>,
                           <<CenterVector(r, g), m * SubDim + j>>>>, Quantizer(m, k, j)>>
    <2>1. a \in Nat /\ (mm + 1) * SubDim = a + SubDim
      BY <1>1, <1>2, Products
    <2>2. ASSUME NEW j \in 0 .. SubDim - 1
          PROVE  <<l.residual[a + j], l.quantizer[k][a + j]>> = F(j)
      <3>1. l.quantizer[k][a + j] = Quantizer(m, k, j)
        BY <1>2, QuantizerAll DEF P, L
      <3> DEFINE v == j * PerPE + mm
      <3>2. l.residual[a + j] = Differences(r, g, i)[v] /\ v \div PerPE = j /\ v % PerPE = mm /\ v \in Nat
        BY <1>2, HasAll DEF P
      <3> HIDE DEF v
      <3>3. Differences(r, g, i)[v] =
              <<ElementOf(QueryVector(Probe(r)[g][1]), i, v), ElementOf(CenterVector(r, g), i, v)>>
        BY <3>2 DEF Differences
      <3>4. \A x : ElementOf(x, i, v) = <<x, m * SubDim + j>>
        BY <3>2 DEF ElementOf
      <3> QED BY <3>1, <3>2, <3>3, <3>4
    <2>3. A = {<<l.residual[a + j], l.quantizer[k][a + j]>> : j \in 0 .. SubDim - 1}
      <3>0. A = {<<l.residual[j], l.quantizer[k][j]>> : j \in a .. a + SubDim - 1}
        <4> DEFINE I == mm * SubDim .. (mm + 1) * SubDim - 1
                   J == a .. a + SubDim - 1
        <4>0. a = mm * SubDim /\ (mm + 1) * SubDim = a + SubDim /\ a \in Nat
          BY <2>1
        <4> HIDE DEF a
        <4>1. I = J
          <5> DEFINE lo == mm * SubDim
                     hi == (mm + 1) * SubDim
          <5>1. lo = a /\ hi = a + SubDim
            BY <4>0
          <5>2. I = lo .. hi - 1 /\ J = a .. a + SubDim - 1
            BY Zenon
          <5> HIDE DEF lo, hi
          <5>3. lo = a /\ hi - 1 = a + SubDim - 1
            BY <1>1, <4>0, <5>1
          <5> QED BY <5>2, <5>3, Zenon
        <4>2. A = {<<l.residual[j], l.quantizer[k][j]>> : j \in I}
          OBVIOUS
        <4> HIDE DEF I, J, A
        <4>3. A = {<<l.residual[j], l.quantizer[k][j]>> : j \in J}
          BY <4>1, <4>2
        <4> QED BY <4>3 DEF J
      <3> DEFINE E(j) == <<l.residual[j], l.quantizer[k][j]>>
      <3>1. \A j \in a .. a + SubDim - 1 : j - a \in 0 .. SubDim - 1 /\ a + (j - a) = j
        BY <1>1, <2>1
      <3>2. \A j \in 0 .. SubDim - 1 : a + j \in a .. a + SubDim - 1
        BY <1>1, <2>1
      <3> HIDE DEF E, A, a
      <3>3. {E(j) : j \in a .. a + SubDim - 1} = {E(a + j) : j \in 0 .. SubDim - 1}
        BY <3>1, <3>2
      <3> QED BY <3>0, <3>3 DEF E
    <2> HIDE DEF A, a
    <2>4. {<<l.residual[a + j], l.quantizer[k][a + j]>> : j \in 0 .. SubDim - 1}
            = {F(j) : j \in 0 .. SubDim - 1}
      <3> DEFINE E(j) == <<l.residual[a + j], l.quantizer[k][a + j]>>
      <3>1. \A j \in 0 .. SubDim - 1 : E(j) = F(j)
        BY <2>2
      <3> HIDE DEF E, F
      <3>2. {E(j) : j \in 0 .. SubDim - 1} = {F(j) : j \in 0 .. SubDim - 1}
        BY <3>1
      <3> QED BY <3>2 DEF E
    <2>5. {F(j) : j \in 0 .. SubDim - 1} = DistanceOf(r, g, k, m)
      BY DEF DistanceOf
    <2> QED BY <2>3, <2>4, <2>5 DEF A
  <1>9. L2_dist(l, k, mm) =
          IF mm = 0 \/ w
          THEN {<<l.residual[j], l.quantizer[k][j]>> : j \in mm * SubDim .. (mm + 1) * SubDim - 1}
          ELSE {}
    BY DEF L2_dist
  <1> HIDE DEF g, m
  <1>10. L2_dist(l, k, mm) = Part(r, w, g, k, m)
    <2>1. mm = 0 \/ w <=> m < SUB_PE_NUM \/ w
      BY <1>7
    <2> DEFINE A == {<<l.residual[j], l.quantizer[k][j]>> : j \in mm * SubDim .. (mm + 1) * SubDim - 1}
    <2>2. L2_dist(l, k, mm) = IF mm = 0 \/ w THEN A ELSE {}
      BY <1>9
    <2>3. A = DistanceOf(r, g, k, m)
      BY <1>8
    <2> HIDE DEF A
    <2> QED BY <2>1, <2>2, <2>3 DEF Part
  <1> QED BY <1>3, <1>6, <1>10 DEF y, k, mm, P

-----------------------------------------------------------------------------
(* The PEs. *)

\* The phase of a PE says where it is.
LEMMA PhaseIs ==
  ASSUME NEW r, NEW i, NEW n, NEW lf, NEW l, NEW c1, NEW c2, NEW c3, NEW c4,
         NEW k, NEW u, NEW q, NEW a, NEW b, PEAt(r, i, n, lf, l, c1, c2, c3, c4, k, u, q, a, b)
  PROVE  /\ l.phase = "init" => PEInit(r, i, n, lf, l, c1, c2, c3, c4, u, q, a, b)
         /\ l.phase = "query" => PEQuery(r, i, n, lf, l, c2, c3, c4, u, q, a, b)
         /\ l.phase = "center" => PECenter(r, i, n, lf, l, c2, c3, c4, k, u, q, a, b)
         /\ l.phase = "rows" => PERows(r, i, n, lf, l, c2, c3, c4, k, u, q, a, b)
  <1>1. PEInit(r, i, n, lf, l, c1, c2, c3, c4, u, q, a, b) => l.phase = "init"
    BY DEF PEInit, PELocal
  <1>2. PEQuery(r, i, n, lf, l, c2, c3, c4, u, q, a, b) => l.phase = "query"
    BY DEF PEQuery, PELocal
  <1>3. PECenter(r, i, n, lf, l, c2, c3, c4, k, u, q, a, b) => l.phase = "center"
    BY DEF PECenter, PELocal
  <1>4. PERows(r, i, n, lf, l, c2, c3, c4, k, u, q, a, b) => l.phase = "rows"
    BY DEF PERows, PELocal
  <1> QED BY <1>1, <1>2, <1>3, <1>4 DEF PEAt

\* The streams of a PE differ.
LEMMA PEStreams ==
  ASSUME NEW i
  PROVE  /\ s_product_quantizer_init_sub_PE(i) \notin
              {s_sub_query_vectors(i), s_sub_center_vectors(i), s_partial_distance_LUT(i)}
         /\ s_sub_query_vectors(i) \notin {s_sub_center_vectors(i), s_partial_distance_LUT(i)}
         /\ s_sub_center_vectors(i) # s_partial_distance_LUT(i)
BY DEF s_product_quantizer_init_sub_PE, s_sub_query_vectors, s_sub_center_vectors,
       s_partial_distance_LUT

\* Where a PE is before it moves.
PEIs(r, i, n, rd, wr, k, u, q, a, b) ==
  /\ r \in Requests /\ Serves(r, rd[s_batch_header(sub_PE(i))], left[sub_PE(i)], nprobe[sub_PE(i)], n)
  /\ PEAt(r, i, n, left[sub_PE(i)], at[sub_PE(i)], rd[s_product_quantizer_init_sub_PE(i)],
          rd[s_sub_query_vectors(i)], rd[s_sub_center_vectors(i)], wr[s_partial_distance_LUT(i)],
          k, u, q, a, b)

\* A PE is in one of its phases.
LEMMA PEStands ==
  ASSUME NEW r, NEW w, NEW rd, NEW wr, At(r, w, rd, wr), NEW i \in PE
  PROVE  \E n, k, u, q, a, b : PEIs(r, i, n, rd, wr, k, u, q, a, b)
  <1> DEFINE p == sub_PE(i)
             c1 == rd[s_product_quantizer_init_sub_PE(i)]
             c2 == rd[s_sub_query_vectors(i)]
             c3 == rd[s_sub_center_vectors(i)]
             c4 == wr[s_partial_distance_LUT(i)]
  <1>1. p \in Stages
    BY StagesAre
  <1>2. PICK n : r \in Requests /\ Serves(r, rd[s_batch_header(p)], left[p], nprobe[p], n)
                 /\ StageBody(r, w, p, n, left[p], at[p], rd, wr)
    BY <1>1, StageAt
  <1>3. PEBody(r, i, n, left[p], at[p], c1, c2, c3, c4)
    BY <1>2, Bodies
  <1> HIDE DEF p, c1, c2, c3, c4
  <1>4. PICK k, u, q, a, b : PEAt(r, i, n, left[p], at[p], c1, c2, c3, c4, k, u, q, a, b)
    BY <1>3 DEF PEBody
  <1> QED BY <1>2, <1>4 DEF PEIs, p, c1, c2, c3, c4

\* A PE reads one value of stream c and moves on.
LEMMA PEReads ==
  ASSUME NEW r, NEW w, NEW rd, NEW wr, At(r, w, rd, wr), NEW i \in PE,
         NEW c \in {s_product_quantizer_init_sub_PE(i), s_sub_query_vectors(i),
                    s_sub_center_vectors(i)},
         fifo[c] # <<>>, Transfer({c}, Nothing), NEW local, at' = [at EXCEPT ![sub_PE(i)] = local],
         Continues, Same,
         NEW n, NEW k, NEW u, NEW q, NEW a, NEW b, NEW k2, NEW u2, NEW q2, NEW a2, NEW b2,
         PEIs(r, i, n, rd, wr, k, u, q, a, b),
         PEAt(r, i, n, left[sub_PE(i)], local,
              IF c = s_product_quantizer_init_sub_PE(i) THEN rd[c] + 1
              ELSE rd[s_product_quantizer_init_sub_PE(i)],
              IF c = s_sub_query_vectors(i) THEN rd[c] + 1 ELSE rd[s_sub_query_vectors(i)],
              IF c = s_sub_center_vectors(i) THEN rd[c] + 1 ELSE rd[s_sub_center_vectors(i)],
              wr[s_partial_distance_LUT(i)], k2, u2, q2, a2, b2)
  PROVE  LUTInv'
  <1> DEFINE p == sub_PE(i)
             h == rd[s_batch_header(p)]
             takes == {c}
             puts == Nothing
             R == Counted(Stream, rd, takes)
             W == Counted(Stream, wr, DOMAIN puts)
  <1>1. p \in Stages
    BY StagesAre
  <1>2. Serves(r, h, left[p], nprobe[p], n)
    BY DEF PEIs
  <1>3. /\ Transfer(takes, puts) /\ Finish(p, FALSE) /\ request' = request /\ wraps' = wraps
        /\ at' = [at EXCEPT ![p] = local]
    BY DEF Finish, Same
  <1>4. /\ takes \in SUBSET Stream /\ DOMAIN puts = {} /\ DOMAIN puts \in SUBSET Stream
        /\ \A d \in takes : Reader(d) = p /\ d[1] # "s_batch_header"
        /\ \A d \in DOMAIN puts : Writer(d) = p /\ puts[d] = History(r, w)[d][wr[d] + 1]
    BY PEWiring, NotHeader DEF Nothing, ToAll
  <1>5. Moves(p) /\ at'[p] = local /\ nprobe'[p] = nprobe[p] /\ left'[p] = left[p]
    <2> DEFINE last == FALSE
    <2>1. Finish(p, last) /\ p \in Process /\ ~ last
      BY <1>1, <1>3, StagesAre
    <2> HIDE DEF p, last
    <2>2. /\ Moves(p) /\ at'[p] = local /\ nprobe'[p] = nprobe[p]
          /\ left'[p] = IF last THEN left[p] - 1 ELSE left[p]
      BY <1>3, <2>1, FinishMoves
    <2> QED BY <2>1, <2>2
  <1>6. /\ R[s_product_quantizer_init_sub_PE(i)] = IF c = s_product_quantizer_init_sub_PE(i)
             THEN rd[c] + 1 ELSE rd[s_product_quantizer_init_sub_PE(i)]
        /\ R[s_sub_query_vectors(i)] =
             IF c = s_sub_query_vectors(i) THEN rd[c] + 1 ELSE rd[s_sub_query_vectors(i)]
        /\ R[s_sub_center_vectors(i)] =
             IF c = s_sub_center_vectors(i) THEN rd[c] + 1 ELSE rd[s_sub_center_vectors(i)]
        /\ W[s_partial_distance_LUT(i)] = wr[s_partial_distance_LUT(i)]
    BY <1>4, PEWiring DEF Counted
  <1>7. PEAt(r, i, n, left[p], local, R[s_product_quantizer_init_sub_PE(i)],
             R[s_sub_query_vectors(i)], R[s_sub_center_vectors(i)], W[s_partial_distance_LUT(i)],
             k2, u2, q2, a2, b2)
    <2> HIDE DEF R, W
    <2> QED BY <1>6
  <1> HIDE DEF R, W, takes, puts, p, h
  <1>8. PEBody(r, i, n, left[p], local, R[s_product_quantizer_init_sub_PE(i)],
               R[s_sub_query_vectors(i)], R[s_sub_center_vectors(i)], W[s_partial_distance_LUT(i)])
    BY <1>7, Zenon DEF PEBody
  <1>9. StageBody(r, w, p, n, left'[p], at'[p], R, W)
    <2>1. PICK l2, lf2 : l2 = local /\ lf2 = left[p]
      OBVIOUS
    <2>2. StageBody(r, w, p, n, lf2, l2, R, W)
      BY <1>8, <2>1, Bodies DEF p
    <2> QED BY <1>5, <2>1, <2>2
  <1>10. Serves(r, h, left'[p], nprobe[p], n)
    BY <1>2, <1>5
  <1> QED BY <1>1, <1>3, <1>4, <1>5, <1>9, <1>10, StageStep DEF h, R, W

\* An array with one more value.
WithNumber(q, x, y, v) == [q EXCEPT ![x][y] = v]
WithValue(a, y, v) == [a EXCEPT ![y] = v]

\* What a PE does to its local data: it goes on, and it may keep a value in one
\* of its arrays.
GoneTo(l, u, ph) == [l EXCEPT !.pos = u, !.phase = ph]
GoneOn(l, u, k, ph) == [l EXCEPT !.pos = u, !.probe = k, !.phase = ph]
KeptNumber(l, x, y, v, u, ph) == [l EXCEPT !.quantizer[x][y] = v, !.pos = u, !.phase = ph]
KeptElement(l, y, v, u, ph) == [l EXCEPT !.query[y] = v, !.pos = u, !.phase = ph]
KeptDifference(l, y, v, u, ph) == [l EXCEPT !.residual[y] = v, !.pos = u, !.phase = ph]

\* The local data after that.
LEMMA LocalMoves ==
  ASSUME NEW ph, NEW u, NEW k, NEW q, NEW a, NEW b, NEW ph2, NEW u2, NEW k2
  PROVE  /\ GoneTo(PELocal(ph, u, k, q, a, b), u2, ph2) = PELocal(ph2, u2, k, q, a, b)
         /\ GoneOn(PELocal(ph, u, k, q, a, b), u2, k2, ph2) = PELocal(ph2, u2, k2, q, a, b)
  <1>1. [PELocal(ph, u, k, q, a, b) EXCEPT !.pos = u2] = PELocal(ph, u2, k, q, a, b)
    BY DEF PELocal
  <1>2. [PELocal(ph, u2, k, q, a, b) EXCEPT !.probe = k2] = PELocal(ph, u2, k2, q, a, b)
    BY DEF PELocal
  <1>3. \A k3 : [PELocal(ph, u2, k3, q, a, b) EXCEPT !.phase = ph2] = PELocal(ph2, u2, k3, q, a, b)
    BY DEF PELocal
  <1> DEFINE l == PELocal(ph, u, k, q, a, b)
  <1> HIDE DEF l
  <1>4. GoneTo(l, u2, ph2) = [[l EXCEPT !.pos = u2] EXCEPT !.phase = ph2]
    BY DEF GoneTo
  <1>5. GoneOn(l, u2, k2, ph2) = [[[l EXCEPT !.pos = u2] EXCEPT !.probe = k2] EXCEPT !.phase = ph2]
    BY DEF GoneOn
  <1> QED BY <1>1, <1>2, <1>3, <1>4, <1>5 DEF l

\* It keeps a number of its sub-quantizers.
LEMMA NumberKept ==
  ASSUME NEW ph, NEW u, NEW k, NEW q, NEW a, NEW b, NEW ph2, NEW u2, NEW x, NEW y, NEW v
  PROVE  KeptNumber(PELocal(ph, u, k, q, a, b), x, y, v, u2, ph2) = PELocal(ph2, u2, k, WithNumber(q, x, y, v), a, b)
  <1> DEFINE l == PELocal(ph, u, k, q, a, b)
             c == WithNumber(q, x, y, v)
  <1>1. [l EXCEPT !.quantizer[x][y] = v] = PELocal(ph, u, k, c, a, b)
    BY DEF PELocal, WithNumber, WithValue
  <1> HIDE DEF l, c
  <1>2. KeptNumber(l, x, y, v, u2, ph2) = GoneTo([l EXCEPT !.quantizer[x][y] = v], u2, ph2)
    BY DEF KeptNumber, GoneTo
  <1>3. GoneTo(PELocal(ph, u, k, c, a, b), u2, ph2) = PELocal(ph2, u2, k, c, a, b)
    BY LocalMoves
  <1> QED BY <1>1, <1>2, <1>3 DEF l, c

\* It keeps an element of the query.
LEMMA ElementKept ==
  ASSUME NEW ph, NEW u, NEW k, NEW q, NEW a, NEW b, NEW ph2, NEW u2, NEW y, NEW v
  PROVE  KeptElement(PELocal(ph, u, k, q, a, b), y, v, u2, ph2) = PELocal(ph2, u2, k, q, WithValue(a, y, v), b)
  <1> DEFINE l == PELocal(ph, u, k, q, a, b)
             c == WithValue(a, y, v)
  <1>1. [l EXCEPT !.query[y] = v] = PELocal(ph, u, k, q, c, b)
    BY DEF PELocal, WithNumber, WithValue
  <1> HIDE DEF l, c
  <1>2. KeptElement(l, y, v, u2, ph2) = GoneTo([l EXCEPT !.query[y] = v], u2, ph2)
    BY DEF KeptElement, GoneTo
  <1>3. GoneTo(PELocal(ph, u, k, q, c, b), u2, ph2) = PELocal(ph2, u2, k, q, c, b)
    BY LocalMoves
  <1> QED BY <1>1, <1>2, <1>3 DEF l, c

\* It keeps a difference.
LEMMA DifferenceKept ==
  ASSUME NEW ph, NEW u, NEW k, NEW q, NEW a, NEW b, NEW ph2, NEW u2, NEW y, NEW v
  PROVE  KeptDifference(PELocal(ph, u, k, q, a, b), y, v, u2, ph2) = PELocal(ph2, u2, k, q, a, WithValue(b, y, v))
  <1> DEFINE l == PELocal(ph, u, k, q, a, b)
             c == WithValue(b, y, v)
  <1>1. [l EXCEPT !.residual[y] = v] = PELocal(ph, u, k, q, a, c)
    BY DEF PELocal, WithNumber, WithValue
  <1> HIDE DEF l, c
  <1>2. KeptDifference(l, y, v, u2, ph2) = GoneTo([l EXCEPT !.residual[y] = v], u2, ph2)
    BY DEF KeptDifference, GoneTo
  <1>3. GoneTo(PELocal(ph, u, k, q, a, c), u2, ph2) = PELocal(ph2, u2, k, q, a, c)
    BY LocalMoves
  <1> QED BY <1>1, <1>2, <1>3 DEF l, c

\* Nothing of the next vector is in an array yet.
LEMMA HasNone == ASSUME NEW F, NEW a, DOMAIN a = 0 .. Share - 1 PROVE Has(F, a, 0)
BY DEF Has

\* sub_quantizer keeps the invariant.
LEMMA QuantizerReadStep ==
  ASSUME NEW r, NEW w, NEW rd, NEW wr, At(r, w, rd, wr), NEW i \in PE, sub_quantizer(i)
  PROVE  LUTInv'
  <1> DEFINE p == sub_PE(i)
             c == s_product_quantizer_init_sub_PE(i)
             v == Head(fifo[c])
             N == Share * LUT_ENTRY_NUM
  <1>1. PICK n, k, u, q, a, b : PEIs(r, i, n, rd, wr, k, u, q, a, b)
    BY PEStands
  <1> DEFINE last == u + 1 = N
             q2 == WithNumber(q, RowAt(u), ElementAt(u), v)
             local == PELocal(IF last THEN "query" ELSE "init", IF last THEN 0 ELSE u + 1, 0, q2, a, b)
             c1 == rd[c]
             c2 == rd[s_sub_query_vectors(i)]
             c3 == rd[s_sub_center_vectors(i)]
             c4 == wr[s_partial_distance_LUT(i)]
  <1>2. at[p].phase = "init" /\ fifo[c] # <<>> /\ Transfer({c}, Nothing) /\ Continues /\ Same
    BY DEF sub_quantizer
  <1>3. PEInit(r, i, n, left[p], at[p], c1, c2, c3, c4, u, q, a, b)
    <2>1. PEAt(r, i, n, left[p], at[p], c1, c2, c3, c4, k, u, q, a, b)
      BY <1>1 DEF PEIs
    <2> HIDE DEF c1, c2, c3, c4, p
    <2>2. PICK l, lf : l = at[p] /\ lf = left[p]
      OBVIOUS
    <2>3. PEInit(r, i, n, lf, l, c1, c2, c3, c4, u, q, a, b)
      BY <1>2, <2>1, <2>2, PhaseIs
    <2> QED BY <2>2, <2>3
  <1>4. /\ at[p] = PELocal("init", u, 0, q, a, b) /\ u \in 0 .. N - 1 /\ HasQuantizer(q, i, u)
        /\ left[p] = 0 /\ c1 = u /\ c2 = n * Share
        /\ DOMAIN a = 0 .. Share - 1 /\ DOMAIN b = 0 .. Share - 1
        /\ c3 = Past(r, 1, n, 0) * Share /\ c4 = Past(r, 1, n, 0) * Column
    BY <1>3 DEF PEInit
  <1>5. N \in Nat /\ Share \in Nat \ {0} /\ Share = PerPE * SubDim /\ Block = SubDim * LUT_ENTRY_NUM
    BY Sizes, Positive, Products DEF Share, Block
  <1>6. at' = [at EXCEPT ![p] = local]
    <2>1. at[p] = [phase |-> "init", pos |-> u, probe |-> 0, quantizer |-> q, query |-> a, residual |-> b]
      BY <1>4 DEF PELocal
    <2>2. at' = [at EXCEPT ![p] =
            [at[p] EXCEPT !.quantizer[(at[p].pos \div SubDim) % LUT_ENTRY_NUM]
                             [(at[p].pos \div (SubDim * LUT_ENTRY_NUM)) * SubDim + (at[p].pos % SubDim)] = v,
                          !.pos = IF at[p].pos + 1 = PerPE * SubDim * LUT_ENTRY_NUM THEN 0 ELSE @ + 1,
                          !.phase = IF at[p].pos + 1 = PerPE * SubDim * LUT_ENTRY_NUM THEN "query" ELSE "init"]]
      BY DEF sub_quantizer, SetAt
    <2>3. at[p].pos = u /\ N = PerPE * SubDim * LUT_ENTRY_NUM
      BY <1>5, <2>1
    <2>4. /\ (u \div SubDim) % LUT_ENTRY_NUM = RowAt(u)
          /\ (u \div (SubDim * LUT_ENTRY_NUM)) * SubDim + (u % SubDim) = ElementAt(u)
      BY <1>5 DEF RowAt, ElementAt
    <2>5. at' = [at EXCEPT ![p] =
            [at[p] EXCEPT !.quantizer[RowAt(u)][ElementAt(u)] = v,
                          !.pos = IF last THEN 0 ELSE @ + 1,
                          !.phase = IF last THEN "query" ELSE "init"]]
      BY <2>2, <2>3, <2>4
    <2> DEFINE x == IF last THEN 0 ELSE u + 1
               ph == IF last THEN "query" ELSE "init"
    <2> HIDE DEF last, v, p
    <2>6. [at[p] EXCEPT !.quantizer[RowAt(u)][ElementAt(u)] = v,
                        !.pos = IF last THEN 0 ELSE @ + 1, !.phase = IF last THEN "query" ELSE "init"]
            = KeptNumber(at[p], RowAt(u), ElementAt(u), v, x, ph)
      BY <2>3 DEF KeptNumber
    <2> HIDE DEF x, ph
    <2>7. \A x1, x2 : KeptNumber(PELocal("init", u, 0, q, a, b), x1, x2, v, x, ph)
            = PELocal(ph, x, 0, WithNumber(q, x1, x2, v), a, b)
      BY NumberKept
    <2>70. KeptNumber(PELocal("init", u, 0, q, a, b), RowAt(u), ElementAt(u), v, x, ph)
            = PELocal(ph, x, 0, q2, a, b)
      BY <2>7
    <2>8. PELocal(ph, x, 0, q2, a, b) = local
      BY DEF x, ph
    <2>9. at[p] = PELocal("init", u, 0, q, a, b)
      BY <1>4
    <2> HIDE DEF local, q2
    <2>10. KeptNumber(at[p], RowAt(u), ElementAt(u), v, x, ph) = local
      BY <2>70, <2>8, <2>9
    <2> QED BY <2>5, <2>6, <2>10
  <1>7. v = QuantizerOf(i, u)
    <2> DEFINE x == u + 1
    <2>1. c \in Stream
      BY PEWiring
    <2>2. v = History(r, w)[c][rd[c] + 1]
      BY <1>2, <2>1, Reading
    <2>3. x \in Nat /\ x - 1 = u /\ rd[c] + 1 = x
      BY <1>4
    <2> HIDE DEF x, v
    <2>4. History(r, w)[c][x] = QuantizerOf(i, x - 1)
      BY <2>3, PEValues
    <2> QED BY <2>2, <2>3, <2>4
  <1> HIDE DEF v
  <1>8. HasQuantizer(q2, i, u + 1)
    BY <1>4, <1>7, QuantizerOneMore DEF N, WithNumber
  <1> HIDE DEF N, q2
  <1> DEFINE u2 == IF last THEN 0 ELSE u + 1
  <1>9. PEAt(r, i, n, left[p], local, c1 + 1, c2, c3, c4, 0, u2, q2, a, b)
    <2>1. CASE last
      <3>1. HasQuantizer(q2, i, N)
        BY <1>8, <2>1
      <3>2. /\ local = PELocal("query", 0, 0, q2, a, b) /\ u2 = 0 /\ 0 \in 0 .. Share - 1
            /\ c2 = n * Share + 0
        <4>1. n * Share \in Int
          <5>1. n \in 0 .. QueryNum(r) /\ QueryNum(r) \in Nat
            <6> DEFINE h == rd[s_batch_header(p)]
                       lf == left[p]
                       np == nprobe[p]
            <6>1. r \in Requests /\ Serves(r, h, lf, np, n)
              BY <1>1 DEF PEIs
            <6> HIDE DEF h, lf, np
            <6>2. Served(r, h, lf, np, n)
              BY <6>1, Serving
            <6> QED BY <6>2 DEF Served
          <5> QED BY <1>5, <5>1, Products
        <4> QED BY <1>4, <1>5, <2>1, <4>1
      <3>3. Has(Elements(QueryVector(n + 1), i), a, 0)
        BY <1>4, HasNone
      <3> HIDE DEF c1, c2, c3, c4, local, p, last, u2
      <3>4. PEQuery(r, i, n, left[p], local, c2, c3, c4, u2, q2, a, b)
        BY <1>4, <3>1, <3>2, <3>3 DEF PEQuery, N
      <3> QED BY <3>4 DEF PEAt
    <2>2. CASE ~ last
      <3>1. /\ local = PELocal("init", u2, 0, q2, a, b) /\ u2 = u + 1 /\ u2 \in 0 .. N - 1
            /\ c1 + 1 = u2 /\ HasQuantizer(q2, i, u2)
        BY <1>4, <1>5, <1>8, <2>2
      <3> HIDE DEF c1, c2, c3, c4, local, p, last, u2
      <3>2. PEInit(r, i, n, left[p], local, c1 + 1, c2, c3, c4, u2, q2, a, b)
        BY <1>4, <3>1 DEF PEInit, N
      <3> QED BY <3>2 DEF PEAt
    <2> QED BY <2>1, <2>2
  <1>10. PICK d : d = c
    OBVIOUS
  <1>11. /\ fifo[d] # <<>> /\ Transfer({d}, Nothing)
         /\ d \in {s_product_quantizer_init_sub_PE(i), s_sub_query_vectors(i), s_sub_center_vectors(i)}
         /\ PEAt(r, i, n, left[p], local,
              IF d = s_product_quantizer_init_sub_PE(i) THEN rd[d] + 1
              ELSE rd[s_product_quantizer_init_sub_PE(i)],
              IF d = s_sub_query_vectors(i) THEN rd[d] + 1 ELSE rd[s_sub_query_vectors(i)],
              IF d = s_sub_center_vectors(i) THEN rd[d] + 1 ELSE rd[s_sub_center_vectors(i)],
              wr[s_partial_distance_LUT(i)], 0, u2, q2, a, b)
    <2> HIDE DEF local, u2
    <2>1. /\ d = s_product_quantizer_init_sub_PE(i)
          /\ d # s_sub_query_vectors(i) /\ d # s_sub_center_vectors(i)
      BY <1>10, PEStreams
    <2> QED BY <1>2, <1>9, <1>10, <2>1
  <1> HIDE DEF local, u2, p, c, c1, c2, c3, c4
  <1> QED BY <1>1, <1>2, <1>6, <1>11, PEReads DEF p

\* The query a PE serves.
LEMMA PEServed ==
  ASSUME NEW r, NEW i, NEW n, NEW rd, NEW wr, NEW k, NEW u, NEW q, NEW a, NEW b,
         PEIs(r, i, n, rd, wr, k, u, q, a, b)
  PROVE  /\ r \in Requests
         /\ Served(r, rd[s_batch_header(sub_PE(i))], left[sub_PE(i)], nprobe[sub_PE(i)], n)
         /\ n \in Nat
  <1> DEFINE h == rd[s_batch_header(sub_PE(i))]
             lf == left[sub_PE(i)]
             np == nprobe[sub_PE(i)]
  <1>1. r \in Requests /\ Serves(r, h, lf, np, n)
    BY DEF PEIs
  <1> HIDE DEF h, lf, np
  <1>2. Served(r, h, lf, np, n)
    BY <1>1, Serving
  <1>3. n \in Nat
    BY <1>2 DEF Served
  <1> QED BY <1>1, <1>2, <1>3 DEF h, lf, np

\* The cell it is at.
LEMMA CellOf ==
  ASSUME NEW r \in Requests, NEW h, NEW lf, NEW np, NEW n, Serves(r, h, lf, np, n), lf > 0,
         NEW k, Spot(r, 1, n, k)
  PROVE  Past(r, 1, n, k) \in Nat /\ Probe(r)[Past(r, 1, n, k) + 1] = <<n + 1, k + 1>>
  <1> DEFINE P == ProbeTotal(r)[n]
  <1>1. Served(r, h, lf, np, n)
    BY Serving
  <1>2. /\ np = ProbesOf(r)[n + 1] /\ np \in Nat \ {0} /\ P \in Nat
        /\ \A m \in 1 .. np : Probe(r)[P + m] = <<n + 1, m>>
    BY <1>1 DEF Served
  <1>3. k + 1 \in 1 .. np /\ k \in Nat
    <2>1. k = 0 \/ k \in 1 .. np * 1 - 1
      BY <1>2 DEF Spot
    <2> QED BY <1>2, <2>1
  <1>4. Past(r, 1, n, k) = P + k
    <2>1. P * 1 = P
      BY <1>2
    <2> QED BY <2>1 DEF Past
  <1> HIDE DEF P
  <1>5. P + k + 1 = P + (k + 1)
    BY <1>2, <1>3
  <1> QED BY <1>2, <1>3, <1>4, <1>5

\* The number of element u of vector g + 1, among all of them.
Index(g, u) == g * Share + u + 1

\* It determines the vector and the element.
LEMMA IndexIs ==
  ASSUME NEW g \in Nat, NEW u \in 0 .. Share - 1
  PROVE  /\ Index(g, u) \in Nat
         /\ (Index(g, u) - 1) \div Share = g /\ (Index(g, u) - 1) % Share = u
  <1>1. Share \in Nat \ {0} /\ g * Share \in Nat
    BY Sizes, Products
  <1>2. Index(g, u) \in Nat /\ Index(g, u) - 1 = g * Share + u
    <2> DEFINE y == g * Share
    <2>1. y \in Nat /\ Index(g, u) = y + u + 1
      BY <1>1 DEF Index
    <2> HIDE DEF y
    <2>2. Index(g, u) \in Nat /\ Index(g, u) - 1 = y + u
      BY <2>1
    <2> QED BY <2>2 DEF y
  <1>3. (g * Share + u) \div Share = g /\ (g * Share + u) % Share = u
    BY <1>1, Division
  <1> QED BY <1>2, <1>3

\* sub_query_vector keeps the invariant.
LEMMA QueryReadStep ==
  ASSUME NEW r, NEW w, NEW rd, NEW wr, At(r, w, rd, wr), NEW i \in PE, sub_query_vector(i)
  PROVE  LUTInv'
  <1> DEFINE p == sub_PE(i)
             c == s_sub_query_vectors(i)
             v == Head(fifo[c])
  <1>1. PICK n, k, u, q, a, b : PEIs(r, i, n, rd, wr, k, u, q, a, b)
    BY PEStands
  <1> DEFINE last == u + 1 = Share
             a2 == WithValue(a, place(u), v)
             u2 == IF last THEN 0 ELSE u + 1
             ph == IF last THEN "center" ELSE "query"
             local == PELocal(ph, u2, 0, q, a2, b)
             c1 == rd[s_product_quantizer_init_sub_PE(i)]
             c2 == rd[c]
             c3 == rd[s_sub_center_vectors(i)]
             c4 == wr[s_partial_distance_LUT(i)]
             F == Elements(QueryVector(n + 1), i)
  <1>2. /\ at[p].phase = "query" /\ left[p] > 0 /\ fifo[c] # <<>>
        /\ Transfer({c}, Nothing) /\ Continues /\ Same
    BY DEF sub_query_vector
  <1>3. PEQuery(r, i, n, left[p], at[p], c2, c3, c4, u, q, a, b)
    <2>1. PEAt(r, i, n, left[p], at[p], c1, c2, c3, c4, k, u, q, a, b)
      BY <1>1 DEF PEIs
    <2> HIDE DEF c1, c2, c3, c4, p
    <2>2. PICK l, lf : l = at[p] /\ lf = left[p]
      OBVIOUS
    <2>3. PEQuery(r, i, n, lf, l, c2, c3, c4, u, q, a, b)
      BY <1>2, <2>1, <2>2, PhaseIs
    <2> QED BY <2>2, <2>3
  <1>4. /\ at[p] = PELocal("query", u, 0, q, a, b) /\ u \in 0 .. Share - 1
        /\ HasQuantizer(q, i, Share * LUT_ENTRY_NUM)
        /\ c2 = n * Share + u /\ Has(F, a, u) /\ DOMAIN b = 0 .. Share - 1
        /\ c3 = Past(r, 1, n, 0) * Share /\ c4 = Past(r, 1, n, 0) * Column
    BY <1>3 DEF PEQuery
  <1>5. Share \in Nat \ {0} /\ Share = PerPE * SubDim /\ n \in Nat /\ n * Share \in Nat
    BY <1>1, PEServed, Sizes, Products DEF Share
  <1>6. at' = [at EXCEPT ![p] = local]
    <2>1. at' = [at EXCEPT ![p] =
            [at[p] EXCEPT !.query[place(at[p].pos)] = v,
                          !.pos = IF at[p].pos + 1 = PerPE * SubDim THEN 0 ELSE @ + 1,
                          !.phase = IF at[p].pos + 1 = PerPE * SubDim THEN "center" ELSE "query"]]
      BY DEF sub_query_vector, SetAt
    <2>2. at[p].pos = u
      BY <1>4 DEF PELocal
    <2>3. at' = [at EXCEPT ![p] =
            [at[p] EXCEPT !.query[place(u)] = v, !.pos = IF last THEN 0 ELSE @ + 1,
                          !.phase = IF last THEN "center" ELSE "query"]]
      BY <1>5, <2>1, <2>2
    <2> HIDE DEF last, v, p
    <2>4. [at[p] EXCEPT !.query[place(u)] = v, !.pos = IF last THEN 0 ELSE @ + 1,
                        !.phase = IF last THEN "center" ELSE "query"]
            = KeptElement(at[p], place(u), v, u2, ph)
      BY <2>2 DEF KeptElement
    <2> HIDE DEF u2, ph
    <2>5. \A y : KeptElement(PELocal("query", u, 0, q, a, b), y, v, u2, ph)
                   = PELocal(ph, u2, 0, q, WithValue(a, y, v), b)
      BY ElementKept
    <2>6. KeptElement(at[p], place(u), v, u2, ph) = local
      BY <1>4, <2>5
    <2> QED BY <2>3, <2>4, <2>6
  <1>7. v = F[u]
    <2>1. c \in Stream
      BY PEWiring
    <2>2. v = History(r, w)[c][rd[c] + 1]
      BY <1>2, <2>1, Reading
    <2>3. PICK y : y = Index(n, u)
      OBVIOUS
    <2>30. rd[c] + 1 = y
      BY <1>4, <2>3 DEF Index
    <2> HIDE DEF v
    <2>4. y \in Nat /\ (y - 1) \div Share = n /\ (y - 1) % Share = u
      <3>1. n \in Nat /\ u \in 0 .. Share - 1
        BY <1>4, <1>5
      <3>2. /\ Index(n, u) \in Nat
            /\ (Index(n, u) - 1) \div Share = n /\ (Index(n, u) - 1) % Share = u
        BY <3>1, IndexIs
      <3> QED BY <2>3, <3>2, Zenon
    <2>5. History(r, w)[c][y] = ElementOf(QueryVectors[((y - 1) \div Share) + 1], i, (y - 1) % Share)
      <3>1. y \in Nat
        BY <2>4
      <3> QED BY <3>1, PEValues
    <2>6. QueryVectors[n + 1] = QueryVector(n + 1)
      BY <1>5 DEF QueryVectors
    <2>7. F[u] = ElementOf(QueryVector(n + 1), i, u)
      BY <1>4, <1>5 DEF Elements
    <2> QED BY <2>2, <2>30, <2>4, <2>5, <2>6, <2>7
  <1> HIDE DEF v, F
  <1>8. Has(F, a2, u + 1)
    BY <1>4, <1>7, HasOneMore DEF WithValue
  <1> HIDE DEF a2
  <1>9. PEAt(r, i, n, left[p], local, c1, c2 + 1, c3, c4, 0, u2, q, a2, b)
    <2>1. CASE last
      <3>1. /\ local = PELocal("center", 0, 0, q, a2, b) /\ u2 = 0 /\ Has(F, a2, Share)
            /\ 0 \in 0 .. Share - 1
        BY <1>5, <1>8, <2>1
      <3>2. c2 + 1 = (n + 1) * Share /\ c3 = Past(r, 1, n, 0) * Share + 0
            /\ c4 = Past(r, 1, n, 0) * Column
        <4>1. (n + 1) * Share = n * Share + Share
          BY <1>5
        <4>2. c2 + 1 = n * Share + Share
          <5> DEFINE y == n * Share
          <5>1. y \in Nat /\ c2 = y + u /\ u \in Nat /\ u + 1 = Share
            BY <1>4, <1>5, <2>1
          <5> HIDE DEF y, c2
          <5>2. c2 + 1 = y + Share
            BY <5>1
          <5> QED BY <5>2 DEF y
        <4>3. Past(r, 1, n, 0) * Share \in Int
          <5>1. Past(r, 1, n, 0) \in Nat
            <6> DEFINE h == rd[s_batch_header(p)]
                       lf == left[p]
                       np == nprobe[p]
            <6>1. r \in Requests /\ Serves(r, h, lf, np, n) /\ lf > 0
              BY <1>1, <1>2 DEF PEIs
            <6>2. Spot(r, 1, n, 0)
              BY DEF Spot
            <6> HIDE DEF h, lf, np
            <6> QED BY <6>1, <6>2, CellOf
          <5> QED BY <1>5, <5>1, Products
        <4> QED BY <1>4, <4>1, <4>2, <4>3
      <3>3. Has(Differences(r, Past(r, 1, n, 0) + 1, i), b, 0)
        BY <1>4, HasNone
      <3>4. Spot(r, 1, n, 0) /\ left[p] > 0
        BY <1>2 DEF Spot
      <3> HIDE DEF c1, c2, c3, c4, local, p, last, u2
      <3>5. PECenter(r, i, n, left[p], local, c2 + 1, c3, c4, 0, u2, q, a2, b)
        BY <1>4, <3>1, <3>2, <3>3, <3>4 DEF PECenter, F
      <3> QED BY <3>5 DEF PEAt
    <2>2. CASE ~ last
      <3>1. /\ local = PELocal("query", u2, 0, q, a2, b) /\ u2 = u + 1 /\ u2 \in 0 .. Share - 1
            /\ Has(F, a2, u2)
        BY <1>4, <1>5, <1>8, <2>2
      <3>2. c2 + 1 = n * Share + u2
        <4> DEFINE y == n * Share
        <4>1. y \in Nat /\ c2 = y + u
          BY <1>4, <1>5
        <4> HIDE DEF y, c2, u2
        <4>2. c2 + 1 = y + u2
          BY <1>4, <3>1, <4>1
        <4> QED BY <4>2 DEF y
      <3>3. left[p] > 0
        BY <1>2
      <3> HIDE DEF c1, c2, c3, c4, local, p, last, u2
      <3>4. PEQuery(r, i, n, left[p], local, c2 + 1, c3, c4, u2, q, a2, b)
        BY <1>4, <3>1, <3>2, <3>3 DEF PEQuery, F
      <3> QED BY <3>4 DEF PEAt
    <2> QED BY <2>1, <2>2
  <1>10. PICK d : d = c
    OBVIOUS
  <1>11. /\ fifo[d] # <<>> /\ Transfer({d}, Nothing)
         /\ d \in {s_product_quantizer_init_sub_PE(i), s_sub_query_vectors(i), s_sub_center_vectors(i)}
         /\ PEAt(r, i, n, left[p], local,
              IF d = s_product_quantizer_init_sub_PE(i) THEN rd[d] + 1
              ELSE rd[s_product_quantizer_init_sub_PE(i)],
              IF d = s_sub_query_vectors(i) THEN rd[d] + 1 ELSE rd[s_sub_query_vectors(i)],
              IF d = s_sub_center_vectors(i) THEN rd[d] + 1 ELSE rd[s_sub_center_vectors(i)],
              wr[s_partial_distance_LUT(i)], 0, u2, q, a2, b)
    <2> HIDE DEF local, u2
    <2>1. /\ d = s_sub_query_vectors(i)
          /\ d # s_product_quantizer_init_sub_PE(i) /\ d # s_sub_center_vectors(i)
      BY <1>10, PEStreams
    <2> QED BY <1>2, <1>9, <1>10, <2>1
  <1> HIDE DEF local, u2, p, c, c1, c2, c3, c4
  <1> QED BY <1>1, <1>2, <1>6, <1>11, PEReads DEF p

\* sub_residual_vector keeps the invariant.
LEMMA ResidualReadStep ==
  ASSUME NEW r, NEW w, NEW rd, NEW wr, At(r, w, rd, wr), NEW i \in PE, sub_residual_vector(i)
  PROVE  LUTInv'
  <1> DEFINE p == sub_PE(i)
             c == s_sub_center_vectors(i)
             v == <<at[p].query[place(at[p].pos)], Head(fifo[c])>>
  <1>1. PICK n, k, u, q, a, b : PEIs(r, i, n, rd, wr, k, u, q, a, b)
    BY PEStands
  <1> DEFINE last == u + 1 = Share
             b2 == WithValue(b, place(u), v)
             u2 == IF last THEN 0 ELSE u + 1
             ph == IF last THEN "rows" ELSE "center"
             local == PELocal(ph, u2, k, q, a, b2)
             c1 == rd[s_product_quantizer_init_sub_PE(i)]
             c2 == rd[s_sub_query_vectors(i)]
             c3 == rd[c]
             c4 == wr[s_partial_distance_LUT(i)]
             G == Past(r, 1, n, k)
             F == Differences(r, G + 1, i)
             E == Elements(QueryVector(n + 1), i)
  <1>2. /\ at[p].phase = "center" /\ fifo[c] # <<>>
        /\ Transfer({c}, Nothing) /\ Continues /\ Same
    BY DEF sub_residual_vector
  <1>3. PECenter(r, i, n, left[p], at[p], c2, c3, c4, k, u, q, a, b)
    <2>1. PEAt(r, i, n, left[p], at[p], c1, c2, c3, c4, k, u, q, a, b)
      BY <1>1 DEF PEIs
    <2> HIDE DEF c1, c2, c3, c4, p
    <2>2. PICK l, lf : l = at[p] /\ lf = left[p]
      OBVIOUS
    <2>3. PECenter(r, i, n, lf, l, c2, c3, c4, k, u, q, a, b)
      BY <1>2, <2>1, <2>2, PhaseIs
    <2> QED BY <2>2, <2>3
  <1>4. /\ at[p] = PELocal("center", u, k, q, a, b) /\ left[p] > 0 /\ Spot(r, 1, n, k)
        /\ u \in 0 .. Share - 1 /\ HasQuantizer(q, i, Share * LUT_ENTRY_NUM)
        /\ Has(E, a, Share) /\ Has(F, b, u) /\ c2 = (n + 1) * Share
        /\ c3 = G * Share + u /\ c4 = G * Column
    BY <1>3 DEF PECenter
  <1>40. G \in Nat /\ Probe(r)[G + 1] = <<n + 1, k + 1>>
    <2> DEFINE h == rd[s_batch_header(p)]
               lf == left[p]
               np == nprobe[p]
    <2>1. r \in Requests /\ Serves(r, h, lf, np, n) /\ lf > 0 /\ Spot(r, 1, n, k)
      BY <1>1, <1>4 DEF PEIs
    <2> HIDE DEF h, lf, np
    <2> QED BY <2>1, CellOf
  <1> HIDE DEF G
  <1>5. Share \in Nat \ {0} /\ Share = PerPE * SubDim /\ n \in Nat /\ G * Share \in Nat
    BY <1>1, <1>40, PEServed, Sizes, Products DEF Share
  <1>6. at' = [at EXCEPT ![p] = local]
    <2>1. at' = [at EXCEPT ![p] =
            [at[p] EXCEPT !.residual[place(at[p].pos)] = v,
                          !.pos = IF at[p].pos + 1 = PerPE * SubDim THEN 0 ELSE @ + 1,
                          !.phase = IF at[p].pos + 1 = PerPE * SubDim THEN "rows" ELSE "center"]]
      BY DEF sub_residual_vector, SetAt
    <2>2. at[p].pos = u
      BY <1>4 DEF PELocal
    <2> HIDE DEF v
    <2>3. at' = [at EXCEPT ![p] =
            [at[p] EXCEPT !.residual[place(u)] = v, !.pos = IF last THEN 0 ELSE @ + 1,
                          !.phase = IF last THEN "rows" ELSE "center"]]
      BY <1>5, <2>1, <2>2
    <2> HIDE DEF last, v, p
    <2>4. [at[p] EXCEPT !.residual[place(u)] = v, !.pos = IF last THEN 0 ELSE @ + 1,
                        !.phase = IF last THEN "rows" ELSE "center"]
            = KeptDifference(at[p], place(u), v, u2, ph)
      BY <2>2 DEF KeptDifference
    <2> HIDE DEF u2, ph
    <2>5. \A y : KeptDifference(PELocal("center", u, k, q, a, b), y, v, u2, ph)
                   = PELocal(ph, u2, k, q, a, WithValue(b, y, v))
      BY DifferenceKept
    <2>6. KeptDifference(at[p], place(u), v, u2, ph) = local
      BY <1>4, <2>5
    <2> QED BY <2>3, <2>4, <2>6
  <1>7. v = F[u]
    <2> DEFINE e == Head(fifo[c])
    <2>1. c \in Stream
      BY PEWiring
    <2>2. e = History(r, w)[c][rd[c] + 1]
      BY <1>2, <2>1, Reading
    <2>3. PICK y : y = Index(G, u)
      OBVIOUS
    <2>30. rd[c] + 1 = y
      BY <1>4, <2>3 DEF Index
    <2>4. y \in Nat /\ (y - 1) \div Share = G /\ (y - 1) % Share = u
      <3>1. G \in Nat /\ u \in 0 .. Share - 1
        BY <1>4, <1>40
      <3>2. /\ Index(G, u) \in Nat
            /\ (Index(G, u) - 1) \div Share = G /\ (Index(G, u) - 1) % Share = u
        BY <3>1, IndexIs
      <3> QED BY <2>3, <3>2, Zenon
    <2> HIDE DEF e
    <2>5. History(r, w)[c][y] = ElementOf(CenterVectors(r)[((y - 1) \div Share) + 1], i, (y - 1) % Share)
      <3>1. y \in Nat
        BY <2>4
      <3> QED BY <3>1, PEValues
    <2>6. CenterVectors(r)[G + 1] = CenterVector(r, G + 1)
      BY <1>40 DEF CenterVectors
    <2>7. e = ElementOf(CenterVector(r, G + 1), i, u)
      BY <2>2, <2>30, <2>4, <2>5, <2>6
    <2>8. at[p].query[place(at[p].pos)] = ElementOf(QueryVector(n + 1), i, u)
      <3>1. at[p].pos = u /\ at[p].query = a
        BY <1>4 DEF PELocal
      <3>2. a[place(u)] = E[u]
        BY <1>4, <1>5 DEF Has
      <3>3. E[u] = ElementOf(QueryVector(n + 1), i, u)
        BY <1>4, <1>5 DEF Elements
      <3> QED BY <3>1, <3>2, <3>3
    <2>9. F[u] = <<ElementOf(QueryVector(Probe(r)[G + 1][1]), i, u), ElementOf(CenterVector(r, G + 1), i, u)>>
      BY <1>4, <1>5 DEF Differences
    <2>10. Probe(r)[G + 1][1] = n + 1
      BY <1>40
    <2> QED BY <2>7, <2>8, <2>9, <2>10 DEF e
  <1> HIDE DEF v, F
  <1>8. Has(F, b2, u + 1)
    BY <1>4, <1>7, HasOneMore DEF WithValue
  <1> HIDE DEF b2
  <1>9. PEAt(r, i, n, left[p], local, c1, c2, c3 + 1, c4, k, u2, q, a, b2)
    <2> DEFINE y == G * Share
    <2>0. y \in Nat /\ c3 = y + u /\ u \in Nat
      BY <1>4, <1>5
    <2>1. CASE last
      <3>1. /\ local = PELocal("rows", 0, k, q, a, b2) /\ u2 = 0 /\ Has(F, b2, Share)
            /\ 0 \in 0 .. Column - 1
        <4>1. Column \in Nat \ {0}
          BY Sizes
        <4> QED BY <1>5, <1>8, <2>1, <4>1
      <3>2. c3 + 1 = (G + 1) * Share /\ c4 = G * Column + 0
        <4>1. (G + 1) * Share = G * Share + Share
          BY <1>5, <1>40
        <4>2. c3 + 1 = G * Share + Share
          <5>1. y \in Nat /\ c3 = y + u /\ u \in Nat /\ u + 1 = Share
            BY <2>0, <2>1
          <5> HIDE DEF y, c3
          <5>2. c3 + 1 = y + Share
            BY <5>1
          <5> QED BY <5>2 DEF y
        <4>3. G * Column \in Int
          BY <1>40, Sizes, Products
        <4> QED BY <1>4, <4>1, <4>2, <4>3
      <3> HIDE DEF c1, c2, c3, c4, local, p, last, u2, y
      <3>5. PERows(r, i, n, left[p], local, c2, c3 + 1, c4, k, u2, q, a, b2)
        BY <1>4, <3>1, <3>2 DEF PERows, F, G
      <3> QED BY <3>5 DEF PEAt
    <2>2. CASE ~ last
      <3>1. /\ local = PELocal("center", u2, k, q, a, b2) /\ u2 = u + 1 /\ u2 \in 0 .. Share - 1
            /\ Has(F, b2, u2)
        BY <1>4, <1>5, <1>8, <2>2
      <3>2. c3 + 1 = G * Share + u2
        <4> HIDE DEF y, c3, u2
        <4>2. c3 + 1 = y + u2
          BY <2>0, <3>1
        <4> QED BY <4>2 DEF y
      <3> HIDE DEF c1, c2, c3, c4, local, p, last, u2, y
      <3>4. PECenter(r, i, n, left[p], local, c2, c3 + 1, c4, k, u2, q, a, b2)
        BY <1>4, <3>1, <3>2 DEF PECenter, F, G
      <3> QED BY <3>4 DEF PEAt
    <2> QED BY <2>1, <2>2
  <1>10. PICK d : d = c
    OBVIOUS
  <1>11. /\ fifo[d] # <<>> /\ Transfer({d}, Nothing)
         /\ d \in {s_product_quantizer_init_sub_PE(i), s_sub_query_vectors(i), s_sub_center_vectors(i)}
         /\ PEAt(r, i, n, left[p], local,
              IF d = s_product_quantizer_init_sub_PE(i) THEN rd[d] + 1
              ELSE rd[s_product_quantizer_init_sub_PE(i)],
              IF d = s_sub_query_vectors(i) THEN rd[d] + 1 ELSE rd[s_sub_query_vectors(i)],
              IF d = s_sub_center_vectors(i) THEN rd[d] + 1 ELSE rd[s_sub_center_vectors(i)],
              wr[s_partial_distance_LUT(i)], k, u2, q, a, b2)
    <2> HIDE DEF local, u2
    <2>1. /\ d = s_sub_center_vectors(i)
          /\ d # s_product_quantizer_init_sub_PE(i) /\ d # s_sub_query_vectors(i)
      BY <1>10, PEStreams
    <2> QED BY <1>2, <1>9, <1>10, <2>1
  <1> HIDE DEF local, u2, p, c, c1, c2, c3, c4
  <1> QED BY <1>1, <1>2, <1>6, <1>11, PEReads DEF p

\* partial_distance keeps the invariant.
LEMMA DistanceStep ==
  ASSUME NEW r, NEW w, NEW rd, NEW wr, At(r, w, rd, wr), NEW i \in PE, partial_distance(i)
  PROVE  LUTInv'
  <1> DEFINE p == sub_PE(i)
             c == s_partial_distance_LUT(i)
             h == rd[s_batch_header(p)]
             v == L2_dist(at[p], at[p].pos \div PerPE, at[p].pos % PerPE)
             takes == {}
             puts == To(c, v)
             R == Counted(Stream, rd, takes)
             W == Counted(Stream, wr, DOMAIN puts)
  <1>1. PICK n, k, u, q, a, b : PEIs(r, i, n, rd, wr, k, u, q, a, b)
    BY PEStands
  <1> DEFINE full == u + 1 = Column
             done == full /\ k + 1 = nprobe[p]
             u2 == IF full THEN 0 ELSE u + 1
             k2 == IF done THEN 0 ELSE IF full THEN k + 1 ELSE k
             ph == IF done THEN "query" ELSE IF full THEN "center" ELSE "rows"
             local == PELocal(ph, u2, k2, q, a, b)
             c1 == rd[s_product_quantizer_init_sub_PE(i)]
             c2 == rd[s_sub_query_vectors(i)]
             c3 == rd[s_sub_center_vectors(i)]
             c4 == wr[c]
             G == Past(r, 1, n, k)
             F == Differences(r, G + 1, i)
             E == Elements(QueryVector(n + 1), i)
  <1>2. at[p].phase = "rows" /\ Transfer(takes, puts) /\ Same
    BY DEF partial_distance
  <1>3. PERows(r, i, n, left[p], at[p], c2, c3, c4, k, u, q, a, b)
    <2>1. PEAt(r, i, n, left[p], at[p], c1, c2, c3, c4, k, u, q, a, b)
      BY <1>1 DEF PEIs
    <2> HIDE DEF c1, c2, c3, c4, p
    <2>2. PICK l, lf : l = at[p] /\ lf = left[p]
      OBVIOUS
    <2>3. PERows(r, i, n, lf, l, c2, c3, c4, k, u, q, a, b)
      BY <1>2, <2>1, <2>2, PhaseIs
    <2> QED BY <2>2, <2>3
  <1>4. /\ at[p] = PELocal("rows", u, k, q, a, b) /\ left[p] > 0 /\ Spot(r, 1, n, k)
        /\ u \in 0 .. Column - 1 /\ HasQuantizer(q, i, Share * LUT_ENTRY_NUM)
        /\ Has(E, a, Share) /\ Has(F, b, Share) /\ c2 = (n + 1) * Share
        /\ c3 = (G + 1) * Share /\ c4 = G * Column + u
    BY <1>3 DEF PERows
  <1>40. Serves(r, h, left[p], nprobe[p], n) /\ r \in Requests
    BY <1>1 DEF PEIs
  <1>41. HasNext(r, 1, h, left[p], nprobe[p], n, k)
    <2> DEFINE lf == left[p]
               np == nprobe[p]
               L == 1
    <2>1. r \in Requests /\ L \in Nat \ {0} /\ Serves(r, h, lf, np, n) /\ lf > 0 /\ Spot(r, L, n, k)
      BY <1>4, <1>40
    <2> HIDE DEF lf, np, h, L, p
    <2>2. HasNext(r, L, h, lf, np, n, k)
      BY <2>1, NextSpot
    <2> QED BY <2>2 DEF lf, np, L
  <1>42. G \in Nat /\ nprobe[p] \in Nat \ {0} /\ nprobe[p] * 1 = nprobe[p] /\ k \in Nat
    BY <1>41 DEF HasNext
  <1>43. PICK m : GoesOn(r, 1, h, left[p], nprobe[p], n, k, m)
    BY <1>41 DEF HasNext
  <1>44. /\ Serves(r, h, IF k + 1 = nprobe[p] THEN left[p] - 1 ELSE left[p], nprobe[p], m)
         /\ k + 1 = nprobe[p] => m = n + 1 /\ Past(r, 1, m, 0) = G + 1
         /\ k + 1 # nprobe[p] => m = n /\ Spot(r, 1, n, k + 1) /\ Past(r, 1, n, k + 1) = G + 1
    BY <1>42, <1>43 DEF GoesOn
  <1> HIDE DEF G
  <1>5. Column \in Nat \ {0} /\ Column = PerPE * LUT_ENTRY_NUM /\ G * Column \in Nat
        /\ PerPE \in Nat \ {0} /\ Share \in Nat \ {0} /\ (G + 1) * Column = G * Column + Column
        /\ n \in Nat /\ p \in Stages
    BY <1>1, <1>42, PEServed, Sizes, Products, StagesAre DEF Column
  <1>6. at' = [at EXCEPT ![p] = local] /\ Finish(p, done) /\ request' = request /\ wraps' = wraps
    <2>1. /\ at' = [at EXCEPT ![p] =
               [at[p] EXCEPT
                  !.pos = IF at[p].pos + 1 = PerPE * LUT_ENTRY_NUM THEN 0 ELSE @ + 1,
                  !.probe = IF at[p].pos + 1 = PerPE * LUT_ENTRY_NUM /\ at[p].probe + 1 = nprobe[p] THEN 0
                            ELSE IF at[p].pos + 1 = PerPE * LUT_ENTRY_NUM THEN @ + 1 ELSE @,
                  !.phase = IF at[p].pos + 1 = PerPE * LUT_ENTRY_NUM /\ at[p].probe + 1 = nprobe[p]
                            THEN "query"
                            ELSE IF at[p].pos + 1 = PerPE * LUT_ENTRY_NUM THEN "center" ELSE @]]
          /\ Finish(p, at[p].pos + 1 = PerPE * LUT_ENTRY_NUM /\ at[p].probe + 1 = nprobe[p])
      BY DEF partial_distance, SetAt
    <2>2. at[p].pos = u /\ at[p].probe = k /\ at[p].phase = "rows"
      BY <1>4 DEF PELocal
    <2>3. /\ at' = [at EXCEPT ![p] =
               [at[p] EXCEPT !.pos = IF full THEN 0 ELSE @ + 1,
                             !.probe = IF done THEN 0 ELSE IF full THEN @ + 1 ELSE @,
                             !.phase = IF done THEN "query" ELSE IF full THEN "center" ELSE @]]
          /\ Finish(p, done)
      BY <1>5, <2>1, <2>2
    <2> HIDE DEF full, done, p
    <2>4. [at[p] EXCEPT !.pos = IF full THEN 0 ELSE @ + 1,
                        !.probe = IF done THEN 0 ELSE IF full THEN @ + 1 ELSE @,
                        !.phase = IF done THEN "query" ELSE IF full THEN "center" ELSE @]
            = GoneOn(at[p], u2, k2, ph)
      BY <2>2 DEF GoneOn
    <2> HIDE DEF u2, k2, ph
    <2>5. GoneOn(PELocal("rows", u, k, q, a, b), u2, k2, ph) = PELocal(ph, u2, k2, q, a, b)
      BY LocalMoves
    <2>6. GoneOn(at[p], u2, k2, ph) = local
      BY <1>4, <2>5
    <2> QED BY <1>2, <2>3, <2>4, <2>6 DEF Same
  <1>7. v = PartOf(r, w, i, G * Column + u)
    <2>1. PICK l : l = at[p]
      OBVIOUS
    <2>2. l.quantizer = q /\ l.residual = b /\ l.pos = u
      BY <1>4, <2>1 DEF PELocal
    <2>3. HasQuantizer(l.quantizer, i, Share * LUT_ENTRY_NUM) /\ Has(F, l.residual, Share) /\ wraps = w
      BY <1>4, <2>2 DEF At
    <2>4. L2_dist(l, u \div PerPE, u % PerPE) = PartOf(r, w, i, G * Column + u)
      BY <1>4, <1>42, <2>3, PartialDistance
    <2> QED BY <2>1, <2>2, <2>4
  <1> HIDE DEF v, F
  <1>8. /\ takes \in SUBSET Stream /\ DOMAIN puts = {c} /\ DOMAIN puts \in SUBSET Stream
        /\ \A d \in takes : Reader(d) = p /\ d[1] # "s_batch_header"
        /\ \A d \in DOMAIN puts : Writer(d) = p
        /\ \A d \in DOMAIN puts : puts[d] = v
    BY PEWiring DEF To, ToAll
  <1>9. \A d \in DOMAIN puts : puts[d] = History(r, w)[d][wr[d] + 1]
    <2>1. PICK y : y = G * Column + u + 1
      OBVIOUS
    <2>2. y \in Nat /\ y - 1 = G * Column + u /\ wr[c] + 1 = y
      <3> DEFINE z == G * Column
      <3>1. z \in Nat /\ y = z + u + 1 /\ u \in Nat /\ wr[c] = z + u
        BY <1>4, <1>5, <2>1
      <3> HIDE DEF z, c
      <3>2. y \in Nat /\ y - 1 = z + u /\ wr[c] + 1 = y
        BY <3>1
      <3> QED BY <3>2 DEF z
    <2>3. History(r, w)[c][y] = PartOf(r, w, i, y - 1)
      <3>1. y \in Nat
        BY <2>2
      <3> QED BY <3>1, PEValues
    <2> HIDE DEF c, puts
    <2> QED BY <1>7, <1>8, <2>2, <2>3
  <1>10. /\ Moves(p) /\ at'[p] = local /\ nprobe'[p] = nprobe[p]
         /\ left'[p] = IF done THEN left[p] - 1 ELSE left[p]
    <2>1. p \in Process
      BY <1>5, StagesAre
    <2> HIDE DEF p, done, local
    <2> QED BY <1>6, <2>1, FinishMoves
  <1> DEFINE r1 == R[s_product_quantizer_init_sub_PE(i)]
             r2 == R[s_sub_query_vectors(i)]
             r3 == R[s_sub_center_vectors(i)]
             w4 == W[s_partial_distance_LUT(i)]
  <1>11. /\ r1 = c1 /\ r2 = c2 /\ r3 = c3 /\ w4 = G * Column + (u + 1)
    <2>1. r1 = c1 /\ r2 = c2 /\ r3 = c3
      BY PEWiring DEF Counted
    <2>2. w4 = c4 + 1
      <3> HIDE DEF puts
      <3> QED BY <1>8, PEWiring DEF Counted
    <2> DEFINE z == G * Column
    <2>3. z \in Nat /\ c4 = z + u /\ u \in Nat
      BY <1>4, <1>5
    <2> HIDE DEF z, c4, w4
    <2>4. w4 = z + (u + 1)
      BY <2>2, <2>3
    <2> QED BY <2>1, <2>4 DEF z
  <1> HIDE DEF r1, r2, r3, w4, R, W, p, h, c, c1, c2, c3, c4, takes, puts, local
  <1>12. \E n2 : Serves(r, h, left'[p], nprobe[p], n2) /\ PEBody(r, i, n2, left'[p], local, r1, r2, r3, w4)
    <2>1. CASE done
      <3>1. /\ m = n + 1 /\ Past(r, 1, m, 0) = G + 1 /\ Serves(r, h, left'[p], nprobe[p], m)
        BY <1>10, <1>44, <2>1
      <3>2. local = PELocal("query", 0, 0, q, a, b)
        BY <2>1 DEF local
      <3>3. /\ r2 = m * Share + 0 /\ r3 = Past(r, 1, m, 0) * Share /\ w4 = Past(r, 1, m, 0) * Column
            /\ 0 \in 0 .. Share - 1
        <4>1. (n + 1) * Share \in Nat
          BY <1>5, Products
        <4>2. r2 = m * Share + 0
          BY <1>4, <1>11, <3>1, <4>1
        <4>3. w4 = (G + 1) * Column
          BY <1>5, <1>11, <2>1
        <4> QED BY <1>4, <1>5, <1>11, <3>1, <4>2, <4>3
      <3>4. Has(Elements(QueryVector(m + 1), i), a, 0) /\ DOMAIN b = 0 .. Share - 1
        <4>1. DOMAIN a = 0 .. Share - 1 /\ DOMAIN b = 0 .. Share - 1
          BY <1>4 DEF Has
        <4> QED BY <4>1, HasNone
      <3> DEFINE z == 0
      <3>5. /\ local = PELocal("query", z, 0, q, a, b) /\ z = 0 /\ z \in 0 .. Share - 1
            /\ r2 = m * Share + z /\ Has(Elements(QueryVector(m + 1), i), a, z)
        BY <3>2, <3>3, <3>4
      <3> HIDE DEF z, done, E
      <3>6. PEQuery(r, i, m, left'[p], local, r2, r3, w4, z, q, a, b)
        BY <1>4, <3>3, <3>4, <3>5 DEF PEQuery
      <3>7. PEBody(r, i, m, left'[p], local, r1, r2, r3, w4)
        BY <3>6, Zenon DEF PEBody, PEAt
      <3> QED BY <3>1, <3>7
    <2>2. CASE ~ done /\ full
      <3>1. /\ Past(r, 1, n, k + 1) = G + 1 /\ Serves(r, h, left'[p], nprobe[p], n)
            /\ Spot(r, 1, n, k + 1) /\ left'[p] = left[p]
        BY <1>10, <1>44, <2>2
      <3> DEFINE kk == k + 1
                 z == 0
      <3>2. local = PELocal("center", z, kk, q, a, b) /\ z \in 0 .. Share - 1
        BY <1>5, <2>2 DEF local
      <3>3. /\ r3 = Past(r, 1, n, kk) * Share + z /\ w4 = Past(r, 1, n, kk) * Column
            /\ r2 = (n + 1) * Share
        <4>1. (G + 1) * Share \in Nat
          BY <1>5, <1>42, Products
        <4>2. r3 = (G + 1) * Share + 0
          BY <1>4, <1>11, <4>1
        <4>3. w4 = (G + 1) * Column
          BY <1>5, <1>11, <2>2
        <4> QED BY <1>4, <1>11, <3>1, <4>2, <4>3
      <3>4. Has(Differences(r, Past(r, 1, n, kk) + 1, i), b, z)
        <4>1. DOMAIN b = 0 .. Share - 1
          BY <1>4 DEF Has
        <4> QED BY <4>1, HasNone
      <3>5. Spot(r, 1, n, kk) /\ left'[p] > 0
        BY <1>4, <3>1
      <3> HIDE DEF z, kk, done, full
      <3>6. PECenter(r, i, n, left'[p], local, r2, r3, w4, kk, z, q, a, b)
        BY <1>4, <3>2, <3>3, <3>4, <3>5 DEF PECenter
      <3>7. PEBody(r, i, n, left'[p], local, r1, r2, r3, w4)
        BY <3>6, Zenon DEF PEBody, PEAt
      <3> QED BY <3>1, <3>7
    <2>3. CASE ~ full
      <3>1. left'[p] = left[p] /\ Serves(r, h, left'[p], nprobe[p], n)
        BY <1>10, <1>40, <2>3
      <3> DEFINE z == u + 1
      <3>2. local = PELocal("rows", z, k, q, a, b) /\ z \in 0 .. Column - 1
        BY <1>4, <1>5, <2>3 DEF local
      <3>3. w4 = G * Column + z /\ r3 = (G + 1) * Share /\ r2 = (n + 1) * Share /\ left'[p] > 0
        BY <1>4, <1>11, <3>1
      <3> HIDE DEF z, done, full
      <3>4. PERows(r, i, n, left'[p], local, r2, r3, w4, k, z, q, a, b)
        BY <1>4, <3>2, <3>3 DEF PERows, G, F
      <3>5. PEBody(r, i, n, left'[p], local, r1, r2, r3, w4)
        BY <3>4, Zenon DEF PEBody, PEAt
      <3> QED BY <3>1, <3>5
    <2> QED BY <2>1, <2>2, <2>3
  <1>13. PICK n2 : Serves(r, h, left'[p], nprobe[p], n2) /\ PEBody(r, i, n2, left'[p], local, r1, r2, r3, w4)
    BY <1>12
  <1>14. StageBody(r, w, p, n2, left'[p], at'[p], R, W)
    <2>1. PICK l2, lf2 : l2 = local /\ lf2 = left'[p]
      OBVIOUS
    <2>2. PEBody(r, i, n2, lf2, l2, r1, r2, r3, w4)
      BY <1>13, <2>1
    <2>3. StageBody(r, w, p, n2, lf2, l2, R, W)
      BY <2>2, Bodies DEF p, r1, r2, r3, w4
    <2> QED BY <1>10, <2>1, <2>3
  <1> QED BY <1>2, <1>5, <1>8, <1>9, <1>10, <1>13, <1>14, StageStep DEF h, R, W

-----------------------------------------------------------------------------
(* The dispatchers read a vector. *)

\* A vector fills its packets.
LEMMA PacketsOf ==
  /\ size_vector \in Nat \ {0}
  /\ \A j \in 0 .. size_vector : /\ j * FLOATS \in Nat
                                 /\ j * FLOATS < D <=> j < size_vector
  <1> DEFINE q == D \div FLOATS
             m == D % FLOATS
             s == size_vector
  <1>1. D \in Nat \ {0} /\ FLOATS \in Nat \ {0}
    BY Positive
  <1>2. q \in Nat /\ m \in 0 .. FLOATS - 1 /\ D = q * FLOATS + m
    BY <1>1, Quotient
  <1>3. s = IF m = 0 THEN q ELSE q + 1
    BY DEF size_vector
  <1> HIDE DEF q, m, s
  <1>4. s \in Nat \ {0}
    <2>1. CASE q = 0
      <3>1. q * FLOATS = 0
        BY <1>1, <2>1
      <3> QED BY <1>1, <1>2, <1>3, <2>1, <3>1
    <2>2. CASE q # 0
      BY <1>2, <1>3, <2>2
    <2> QED BY <2>1, <2>2
  <1>5. ASSUME NEW j \in 0 .. s
        PROVE  /\ j * FLOATS \in Nat
               /\ j * FLOATS < D <=> j < s
    <2>1. j \in Nat
      BY <1>4, <1>5
    <2>2. j * FLOATS \in Nat /\ q * FLOATS \in Nat
      BY <1>1, <1>2, <2>1, Products
    <2>3. CASE j = s /\ m = 0
      BY <1>2, <1>3, <1>4, <2>2, <2>3
    <2>4. CASE j = s /\ m # 0
      <3>1. (q + 1) * FLOATS = q * FLOATS + FLOATS
        BY <1>1, <1>2
      <3> QED BY <1>1, <1>2, <1>3, <1>4, <2>2, <2>4, <3>1
    <2>5. CASE j < s
      <3>1. j <= q /\ (m = 0 => j + 1 <= q)
        BY <1>2, <1>3, <1>5, <2>1, <2>5
      <3>2. \A u, v \in Nat : u <= v => u * FLOATS <= v * FLOATS
        BY <1>1
      <3>3. j * FLOATS <= q * FLOATS
        BY <1>2, <2>1, <3>1, <3>2
      <3>4. CASE m = 0
        <4>1. (j + 1) * FLOATS <= q * FLOATS
          BY <1>2, <2>1, <3>1, <3>2, <3>4
        <4>2. (j + 1) * FLOATS = j * FLOATS + FLOATS
          BY <1>1, <2>1
        <4> QED BY <1>1, <1>2, <2>2, <2>5, <3>4, <4>1, <4>2
      <3>5. CASE m # 0
        BY <1>1, <1>2, <2>2, <2>5, <3>3, <3>5
      <3> QED BY <3>4, <3>5
    <2>6. j = s \/ j < s
      BY <1>4, <1>5
    <2> QED BY <2>3, <2>4, <2>5, <2>6
  <1> QED BY <1>4, <1>5 DEF s

\* One packet more is in the buffer.
LEMMA BufferedOneMore ==
  ASSUME NEW v, NEW vb, NEW j \in 0 .. size_vector - 1, Buffered(v, vb, j)
  PROVE  Buffered(v, vb \o Packets(v)[j + 1], j + 1)
  <1> DEFINE f == FLOATS
             t == Packets(v)[j + 1]
             z == j * f
  <1>1. f \in Nat \ {0} /\ size_vector \in Nat \ {0} /\ j \in Nat /\ z \in Nat
    <2>1. j \in 0 .. size_vector /\ j \in Nat
      BY PacketsOf
    <2> QED BY <2>1, Positive, PacketsOf
  <1>2. t = [y \in 1 .. f |-> Element(v, z + y - 1)]
    <2>1. j + 1 \in 1 .. size_vector /\ (j + 1) - 1 = j
      BY <1>1
    <2> DEFINE x == j + 1
    <2> HIDE DEF x
    <2>2. x \in 1 .. size_vector /\ x - 1 = j
      BY <2>1 DEF x
    <2>3. Packets(v)[x] = [y \in 1 .. FLOATS |-> Element(v, (x - 1) * FLOATS + y - 1)]
      BY <2>2 DEF Packets
    <2>4. Packets(v)[x] = [y \in 1 .. FLOATS |-> Element(v, j * FLOATS + y - 1)]
      BY <2>2, <2>3
    <2> QED BY <2>4 DEF x
  <1>3. IsSequence(vb) /\ Len(vb) = z /\ \A e \in 1 .. z : vb[e] = Element(v, e - 1)
    BY DEF Buffered
  <1>4. (j + 1) * f = z + f
    BY <1>1
  <1> HIDE DEF t, z, f
  <1>5. IsSequence(t) /\ Len(t) = f /\ \A y \in 1 .. f : t[y] = Element(v, z + y - 1)
    <2>1. t \in Seq({t[y] : y \in 1 .. f}) /\ Len(t) = f
      BY <1>1, <1>2
    <2> QED BY <1>2, <2>1 DEF IsSequence
  <1>6. /\ IsSequence(vb \o t) /\ Len(vb \o t) = z + f
        /\ \A e \in 1 .. z + f : (vb \o t)[e] = IF e <= z THEN vb[e] ELSE t[e - z]
    BY <1>3, <1>5, Concat
  <1>7. ASSUME NEW e \in 1 .. z + f PROVE (vb \o t)[e] = Element(v, e - 1)
    <2>1. CASE e <= z
      BY <1>1, <1>3, <1>6, <1>7, <2>1
    <2>2. CASE ~ e <= z
      <3>1. e - z \in 1 .. f /\ z + (e - z) - 1 = e - 1
        BY <1>1, <1>7, <2>2
      <3>2. (vb \o t)[e] = t[e - z]
        BY <1>6, <1>7, <2>2
      <3> DEFINE y == e - z
      <3> HIDE DEF y
      <3>3. t[y] = Element(v, z + y - 1)
        BY <1>5, <3>1 DEF y
      <3> QED BY <3>1, <3>2, <3>3 DEF y
    <2> QED BY <2>1, <2>2
  <1>8. IsSequence(vb \o t) /\ Len(vb \o t) = (j + 1) * f
        /\ \A e \in 1 .. (j + 1) * f : (vb \o t)[e] = Element(v, e - 1)
    BY <1>4, <1>6, <1>7
  <1> QED BY <1>8 DEF Buffered, t, f

\* The packets come vector by vector.
LEMMA NextPacket ==
  ASSUME NEW V, NEW g \in Nat, NEW j \in 0 .. size_vector - 1, NEW in, in = g * size_vector + j
  PROVE  in \in Nat /\ PacketAt(V, in + 1) = Packets(V[g + 1])[j + 1]
  <1> DEFINE s == size_vector
  <1>1. s \in Nat \ {0} /\ g * s \in Nat
    BY PacketsOf, Products
  <1>2. in \in Nat /\ (in + 1) - 1 = in
    <2> DEFINE z == g * s
    <2>1. z \in Nat /\ in = z + j
      BY <1>1
    <2> HIDE DEF z
    <2> QED BY <1>1, <2>1
  <1> HIDE DEF s
  <1>3. in \div s = g /\ in % s = j
    <2>1. (g * s + j) \div s = g /\ (g * s + j) % s = j
      BY <1>1, Division DEF s
    <2> QED BY <2>1 DEF s
  <1> DEFINE x == in + 1
  <1>4. x - 1 = in
    BY <1>2
  <1> HIDE DEF x
  <1>5. PacketAt(V, x) = Packets(V[((x - 1) \div s) + 1])[((x - 1) % s) + 1]
    BY DEF PacketAt, s
  <1> QED BY <1>2, <1>3, <1>4, <1>5 DEF x

\* One packet more in the buffer of a dispatcher.
WithPacket(l, v) == [l EXCEPT !.vector_buffer = l.vector_buffer \o v]

\* A dispatcher that loads the next packet.
LEMMA Loads ==
  ASSUME NEW V, NEW out, NEW lf, NEW l, NEW g \in Nat, NEW k, NEW in, NEW wr,
         DispatchBody(V, out, lf, l, g, k, in, wr), lf > 0, Len(l.vector_buffer) < D
  PROVE  DispatchBody(V, out, lf, WithPacket(l, PacketAt(V, in + 1)), g, k, in + 1, wr)
  <1>1. PICK vb, j, t : DispatchAt(V, out, lf, l, g, k, in, wr, vb, j, t)
    BY DEF DispatchBody
  <1>2. /\ l = [vector_buffer |-> vb, pos |-> t, vec |-> k] /\ j \in 0 .. size_vector
        /\ t \in 0 .. D - 1 /\ Buffered(V[g + 1], vb, j) /\ (j = size_vector \/ t = 0)
        /\ in = g * size_vector + j
        /\ \A i \in PE : wr[<<out, i>>] = Passes(SUB_PE_NUM, g * D + t, i)
    BY <1>1 DEF DispatchAt
  <1>3. j * FLOATS < D
    BY <1>2 DEF Buffered
  <1>4. j \in 0 .. size_vector - 1 /\ t = 0 /\ j + 1 \in 0 .. size_vector
    <2>1. size_vector \in Nat /\ j < size_vector
      BY <1>2, <1>3, PacketsOf
    <2> QED BY <1>2, <2>1
  <1> DEFINE P == PacketAt(V, in + 1)
             vb2 == vb \o P
             l2 == [l EXCEPT !.vector_buffer = l.vector_buffer \o P]
  <1>5. in \in Nat /\ P = Packets(V[g + 1])[j + 1]
    BY <1>2, <1>4, NextPacket
  <1> HIDE DEF P
  <1>6. Buffered(V[g + 1], vb2, j + 1)
    BY <1>2, <1>4, <1>5, BufferedOneMore
  <1>7. l2 = [vector_buffer |-> vb2, pos |-> t, vec |-> k]
    <2>1. l.vector_buffer = vb
      BY <1>2
    <2>2. l2 = [l EXCEPT !.vector_buffer = vb2]
      BY <2>1
    <2> HIDE DEF vb2
    <2>3. [l EXCEPT !.vector_buffer = vb2] = [vector_buffer |-> vb2, pos |-> t, vec |-> k]
      BY <1>2
    <2> QED BY <2>2, <2>3
  <1>8. in + 1 = g * size_vector + (j + 1)
    <2> DEFINE z == g * size_vector
    <2>1. z \in Nat /\ in = z + j /\ j \in Nat
      BY <1>2, <1>4, PacketsOf, Products
    <2> HIDE DEF z
    <2>2. in + 1 = z + (j + 1)
      BY <2>1
    <2> QED BY <2>2 DEF z
  <1> HIDE DEF vb2, l2
  <1>9. DispatchAt(V, out, lf, l2, g, k, in + 1, wr, vb2, j + 1, t)
    BY <1>2, <1>4, <1>6, <1>7, <1>8 DEF DispatchAt
  <1> QED BY <1>9 DEF DispatchBody, WithPacket, l2, P

\* A dispatcher that reads a packet does nothing else.
LEMMA LoadMoves ==
  ASSUME NEW r, NEW w, NEW rd, NEW wr, At(r, w, rd, wr), NEW p \in Stages, NEW c \in Stream,
         load_vector(p, c)
  PROVE  /\ Moves(p) /\ left'[p] = left[p] /\ nprobe'[p] = nprobe[p] /\ left[p] > 0
         /\ Len(at[p].vector_buffer) < D /\ Transfer({c}, Nothing)
         /\ at'[p] = WithPacket(at[p], History(r, w)[c][rd[c] + 1])
  <1> DEFINE v == Head(fifo[c])
  <1>1. /\ left[p] > 0 /\ Len(at[p].vector_buffer) < D /\ fifo[c] # <<>>
        /\ Transfer({c}, Nothing) /\ Continues /\ request' = request /\ wraps' = wraps
        /\ at' = [at EXCEPT ![p].vector_buffer = @ \o v]
    BY DEF load_vector, Same
  <1>2. v = History(r, w)[c][rd[c] + 1]
    BY <1>1, Reading
  <1> HIDE DEF v
  <1>3. p \in Process /\ DOMAIN at = Process /\ DOMAIN left = Process /\ DOMAIN nprobe = Process
    BY StagesAre DEF At
  <1>4. left' = left /\ nprobe' = nprobe
    BY <1>1 DEF Continues
  <1>5. /\ DOMAIN at' = Process /\ at'[p] = [at[p] EXCEPT !.vector_buffer = at[p].vector_buffer \o v]
        /\ \A q \in Process \ {p} : at'[q] = at[q]
    BY <1>1, <1>3
  <1>6. Moves(p)
    BY <1>1, <1>3, <1>4, <1>5 DEF Moves
  <1> QED BY <1>1, <1>2, <1>4, <1>5, <1>6 DEF WithPacket

\* The query dispatcher keeps the invariant when it reads a packet.
LEMMA QueryLoadStep ==
  ASSUME NEW r, NEW w, NEW rd, NEW wr, At(r, w, rd, wr),
         load_vector(query_dispatcher, s_query_vectors)
  PROVE  LUTInv'
  <1> DEFINE p == query_dispatcher
             c == s_query_vectors
             h == rd[s_batch_header(p)]
             takes == {c}
             puts == Nothing
             R == Counted(Stream, rd, takes)
             W == Counted(Stream, wr, DOMAIN puts)
             V == QueryVectors
             out == "s_sub_query_vectors"
  <1>1. p \in Stages /\ c \in Stream
    BY StagesAre, Wiring
  <1>2. PICK n : /\ r \in Requests /\ Serves(r, h, left[p], nprobe[p], n)
                 /\ DispatchBody(V, out, left[p], at[p], n, 0, rd[c], wr)
    BY <1>1, StageAt, Bodies
  <1>3. /\ Moves(p) /\ left'[p] = left[p] /\ nprobe'[p] = nprobe[p] /\ left[p] > 0
        /\ Len(at[p].vector_buffer) < D /\ Transfer(takes, puts)
        /\ at'[p] = WithPacket(at[p], History(r, w)[c][rd[c] + 1])
    BY <1>1, LoadMoves
  <1>4. /\ takes \in SUBSET Stream /\ DOMAIN puts = {}
        /\ DOMAIN puts \in SUBSET Stream /\ \A d \in takes : Reader(d) = p /\ d[1] # "s_batch_header"
        /\ \A d \in DOMAIN puts : Writer(d) = p /\ puts[d] = History(r, w)[d][wr[d] + 1]
    BY Wiring, NotHeader DEF ToAll, Nothing
  <1>5. R[c] = rd[c] + 1 /\ \A i \in PE : W[<<out, i>>] = wr[<<out, i>>]
    BY <1>1, <1>4, PEWiring DEF Counted, s_sub_query_vectors
  <1>6. n \in Nat
    <2> DEFINE lf == left[p]
               np == nprobe[p]
    <2>1. r \in Requests /\ Serves(r, h, lf, np, n)
      BY <1>2
    <2> HIDE DEF lf, np, h
    <2>2. Served(r, h, lf, np, n)
      BY <2>1, Serving
    <2> QED BY <2>2 DEF Served
  <1>7. History(r, w)[c][rd[c] + 1] = PacketAt(V, rd[c] + 1)
    <2>1. rd[c] + 1 \in Nat
      BY <1>1, Reading
    <2> DEFINE x == rd[c] + 1
    <2> HIDE DEF x
    <2>2. History(r, w)[c][x] = PacketAt(V, x)
      BY <2>1, Values DEF x
    <2> QED BY <2>2 DEF x
  <1> DEFINE in == rd[c]
             l == at[p]
             lf == left[p]
             l2 == WithPacket(l, PacketAt(V, in + 1))
  <1>8. n \in Nat /\ DispatchBody(V, out, lf, l, n, 0, in, wr) /\ lf > 0 /\ Len(l.vector_buffer) < D
    BY <1>2, <1>3, <1>6
  <1>9. at'[p] = l2 /\ left'[p] = lf /\ R[c] = in + 1
    BY <1>3, <1>5, <1>7
  <1> HIDE DEF in, l, lf, p, c, h, takes, puts, R, W, V, out
  <1>10. DispatchBody(V, out, lf, l2, n, 0, in + 1, wr)
    BY <1>8, Loads
  <1> HIDE DEF l2
  <1> DEFINE in2 == in + 1
  <1>11. PICK y : y = in + 1
    OBVIOUS
  <1>12. DispatchBody(V, out, lf, l2, n, 0, y, wr)
    BY <1>10, <1>11
  <1>13. DispatchBody(V, out, lf, l2, n, 0, y, W)
    BY <1>5, <1>12, DispatchFrame
  <1>14. StageBody(r, w, p, n, left'[p], at'[p], R, W)
    BY <1>9, <1>11, <1>13, Bodies DEF p, c, V, out
  <1>15. Serves(r, h, left'[p], nprobe[p], n)
    BY <1>2, <1>9 DEF lf
  <1> QED BY <1>1, <1>3, <1>4, <1>14, <1>15, StageStep DEF h, R, W

\* The centre dispatcher keeps the invariant when it reads a packet.
LEMMA CenterLoadStep ==
  ASSUME NEW r, NEW w, NEW rd, NEW wr, At(r, w, rd, wr),
         load_vector(center_dispatcher, s_center_vectors)
  PROVE  LUTInv'
  <1> DEFINE p == center_dispatcher
             c == s_center_vectors
             h == rd[s_batch_header(p)]
             takes == {c}
             puts == Nothing
             R == Counted(Stream, rd, takes)
             W == Counted(Stream, wr, DOMAIN puts)
             V == CenterVectors(r)
             out == "s_sub_center_vectors"
  <1>1. p \in Stages /\ c \in Stream
    BY StagesAre, Wiring
  <1>2. PICK n : /\ r \in Requests /\ Serves(r, h, left[p], nprobe[p], n)
                 /\ CenterBody(r, n, left[p], at[p], rd, wr)
    BY <1>1, StageAt, Bodies
  <1>20. PICK k : /\ Spot(r, 1, n, k)
                  /\ DispatchBody(V, out, left[p], at[p], Past(r, 1, n, k), k, rd[c], wr)
    BY <1>2 DEF CenterBody
  <1>3. /\ Moves(p) /\ left'[p] = left[p] /\ nprobe'[p] = nprobe[p] /\ left[p] > 0
        /\ Len(at[p].vector_buffer) < D /\ Transfer(takes, puts)
        /\ at'[p] = WithPacket(at[p], History(r, w)[c][rd[c] + 1])
    BY <1>1, LoadMoves
  <1>4. /\ takes \in SUBSET Stream /\ DOMAIN puts = {}
        /\ DOMAIN puts \in SUBSET Stream /\ \A d \in takes : Reader(d) = p /\ d[1] # "s_batch_header"
        /\ \A d \in DOMAIN puts : Writer(d) = p /\ puts[d] = History(r, w)[d][wr[d] + 1]
    BY Wiring, NotHeader DEF ToAll, Nothing
  <1>5. R[c] = rd[c] + 1 /\ \A i \in PE : W[<<out, i>>] = wr[<<out, i>>]
    BY <1>1, <1>4, PEWiring DEF Counted, s_sub_center_vectors
  <1> DEFINE g == Past(r, 1, n, k)
  <1>6. g \in Nat
    <2> DEFINE lf == left[p]
               np == nprobe[p]
    <2>1. r \in Requests /\ Serves(r, h, lf, np, n) /\ lf > 0 /\ Spot(r, 1, n, k)
      BY <1>2, <1>20, <1>3
    <2> HIDE DEF lf, np, h
    <2> QED BY <2>1, CellOf
  <1>7. History(r, w)[c][rd[c] + 1] = PacketAt(V, rd[c] + 1)
    <2>1. rd[c] + 1 \in Nat
      BY <1>1, Reading
    <2> DEFINE x == rd[c] + 1
    <2> HIDE DEF x
    <2>2. History(r, w)[c][x] = PacketAt(V, x)
      BY <2>1, Values DEF x
    <2> QED BY <2>2 DEF x
  <1> DEFINE in == rd[c]
             l == at[p]
             lf == left[p]
             l2 == WithPacket(l, PacketAt(V, in + 1))
  <1>8. g \in Nat /\ DispatchBody(V, out, lf, l, g, k, in, wr) /\ lf > 0 /\ Len(l.vector_buffer) < D
    BY <1>20, <1>3, <1>6
  <1>9. at'[p] = l2 /\ left'[p] = lf /\ R[c] = in + 1
    BY <1>3, <1>5, <1>7
  <1> HIDE DEF in, l, lf, p, c, h, takes, puts, R, W, V, out, g
  <1>10. DispatchBody(V, out, lf, l2, g, k, in + 1, wr)
    BY <1>8, Loads
  <1> HIDE DEF l2
  <1>11. PICK y : y = in + 1
    OBVIOUS
  <1>12. DispatchBody(V, out, lf, l2, g, k, y, wr)
    BY <1>10, <1>11
  <1>13. DispatchBody(V, out, lf, l2, g, k, y, W)
    BY <1>5, <1>12, DispatchFrame
  <1>14. CenterBody(r, n, lf, l2, R, W)
    BY <1>20, <1>9, <1>11, <1>13 DEF CenterBody, c, V, out, g
  <1>140. StageBody(r, w, p, n, left'[p], at'[p], R, W)
    BY <1>9, <1>14, Bodies DEF p
  <1>15. Serves(r, h, left'[p], nprobe[p], n)
    BY <1>2, <1>9 DEF lf
  <1> QED BY <1>1, <1>3, <1>4, <1>140, <1>15, StageStep DEF h, R, W

-----------------------------------------------------------------------------
(* The dispatchers deal a vector out. *)

\* Element t to be dealt out is element u of those of PE s.
DealtTo(t, s, u) ==
  /\ s \in PE /\ u \in 0 .. Share - 1 /\ t \div SUB_PE_NUM = u /\ t % SUB_PE_NUM = s
  /\ PE_of(dealt(t).m) = s
  /\ dealt(t).m * SubDim + dealt(t).i = ((u % PerPE) * SUB_PE_NUM + s) * SubDim + (u \div PerPE)
  /\ dealt(t).m * SubDim + dealt(t).i \in 0 .. D - 1

\* Every element is dealt to one PE, in the order in which the PE places it.
LEMMA Deal ==
  ASSUME NEW t \in 0 .. D - 1
  PROVE  \E s, u : DealtTo(t, s, u)
  <1> DEFINE S == SUB_PE_NUM
             P == PerPE
             B == SubDim
  <1>1. /\ S \in Nat \ {0} /\ P \in Nat \ {0} /\ B \in Nat \ {0} /\ M = P * S /\ D = M * B
        /\ M \in Nat \ {0} /\ Share = P * B /\ D = Share * S /\ D \in Nat \ {0}
        /\ Share \in Nat \ {0}
    BY Positive, Sizes DEF Share
  <1>2. PICK z, k, s : Written(S, P, z, k, s, t)
    <2>1. t \in Nat
      BY <1>1
    <2> HIDE DEF S, P
    <2> QED BY <1>1, <2>1, HasDigits
  <1> DEFINE u == z * P + k
             m == k * S + s
             x == m * B + z
  <1>3. DigitsAre(S, P, z, k, s, t)
    BY <1>2, Digits
  <1>4. z \in Nat /\ k \in 0 .. P - 1 /\ s \in 0 .. S - 1
    BY <1>2 DEF Written
  <1>5. /\ t \div S = u /\ t % S = s /\ u \in Nat /\ u % P = k /\ u \div P = z
        /\ t \div M = z /\ t % M = m /\ m \in 0 .. M - 1
    <2>1. S * P = M
      BY <1>1
    <2>2. /\ t \div S = z * P + k /\ t % S = s
          /\ (t \div S) % P = k /\ (t \div S) \div P = z
          /\ t \div (S * P) = z /\ t % (S * P) = k * S + s
          /\ z * P + k \in Nat /\ k * S + s \in 0 .. S * P - 1
      BY <1>3 DEF DigitsAre
    <2> HIDE DEF S, P, u, m
    <2> QED BY <2>1, <2>2 DEF u, m
  <1>6. u \in 0 .. Share - 1
    <2> HIDE DEF S, P, B, u, m, x
    <2>1. t < Share * S /\ t \in Nat /\ Share \in Nat /\ S \in Nat \ {0}
      BY <1>1
    <2>2. t \div S < Share
      BY <2>1, Quotient
    <2> QED BY <1>1, <1>5, <2>2
  <1>7. z \in 0 .. B - 1
    <2> HIDE DEF S, P, B, u, m, x
    <2>1. t < B * M /\ t \in Nat /\ B \in Nat /\ M \in Nat \ {0}
      BY <1>1
    <2>2. t \div M < B
      BY <2>1, Quotient
    <2> QED BY <1>1, <1>4, <1>5, <2>2
  <1> HIDE DEF S, P, B, u, m
  <1>8. x \in 0 .. D - 1
    <2>1. m * B \in Nat /\ m \in Nat /\ (M - (m + 1)) \in Nat
      BY <1>1, <1>5, Products
    <2>2. (M - (m + 1)) * B \in Nat
      BY <1>1, <2>1, Products
    <2>3. M * B = (M - (m + 1)) * B + (m * B + B)
      BY <1>1, <2>1
    <2> QED BY <1>1, <1>7, <2>1, <2>2, <2>3
  <1>9. PE_of(m) = s
    <2>1. (k * S + s) % S = s
      BY <1>1, <1>4, Division
    <2> QED BY <2>1 DEF PE_of, m, S
  <1>10. dealt(t).m = m /\ dealt(t).i = z
    BY <1>5 DEF dealt
  <1>11. x = ((u % P) * S + s) * B + (u \div P)
    BY <1>5 DEF m
  <1>12. s \in PE
    BY <1>4, PEs DEF S
  <1> HIDE DEF x
  <1>13. dealt(t).m * B + dealt(t).i = x
    BY <1>10 DEF x
  <1>14. DealtTo(t, s, u)
    BY <1>5, <1>6, <1>8, <1>9, <1>10, <1>11, <1>12, <1>13 DEF DealtTo, S, P, B
  <1> QED BY <1>14

\* What PE s has got when it is its turn.
LEMMA Turn ==
  ASSUME NEW g \in Nat, NEW t \in 0 .. D - 1, NEW s, NEW u, DealtTo(t, s, u)
  PROVE  /\ Passes(SUB_PE_NUM, g * D + t, s) + 1 = Index(g, u)
         /\ \A i \in PE : /\ Passes(SUB_PE_NUM, g * D + t, i) \in Nat
                          /\ Passes(SUB_PE_NUM, g * D + t + 1, i) =
                               IF i = s THEN Passes(SUB_PE_NUM, g * D + t, i) + 1
                               ELSE Passes(SUB_PE_NUM, g * D + t, i)
  <1> DEFINE S == SUB_PE_NUM
             y == g * D + t
             q == g * Share + u
  <1>1. /\ S \in Nat \ {0} /\ D = Share * S /\ Share \in Nat \ {0} /\ D \in Nat \ {0}
    BY Positive, Sizes
  <1>2. s \in 0 .. S - 1 /\ u \in 0 .. Share - 1 /\ t \div S = u /\ t % S = s /\ t \in Nat
    BY <1>1, PEs DEF DealtTo
  <1>3. t = u * S + s
    <2> HIDE DEF S
    <2> QED BY <1>1, <1>2, Quotient
  <1>4. y \in Nat /\ g * Share \in Nat /\ q \in Nat /\ u \in Nat
    <2>1. g * D \in Nat /\ g * Share \in Nat
      BY <1>1, Products
    <2> DEFINE a == g * D
               b == g * Share
    <2>2. a \in Nat /\ b \in Nat
      BY <2>1
    <2> HIDE DEF a, b
    <2>3. a + t \in Nat /\ b + u \in Nat /\ u \in Nat
      BY <1>1, <1>2, <2>2
    <2> QED BY <2>1, <2>3 DEF a, b
  <1>5. y = q * S + s
    <2>1. g * D = (g * Share) * S
      BY <1>1
    <2>2. (g * Share + u) * S = (g * Share) * S + u * S
      BY <1>1, <1>4
    <2>3. (g * Share) * S \in Nat /\ u * S \in Nat
      <3> DEFINE b == g * Share
      <3>1. b \in Nat
        BY <1>4
      <3> HIDE DEF b, S
      <3>2. b * S \in Nat /\ u * S \in Nat
        BY <1>1, <1>4, <3>1, Products
      <3> QED BY <3>2 DEF b
    <2> DEFINE a == (g * Share) * S
               b == u * S
    <2>4. g * D = a /\ q * S = a + b /\ t = b + s /\ a \in Nat /\ b \in Nat
      BY <1>3, <2>1, <2>2, <2>3
    <2> HIDE DEF a, b, q, S
    <2> QED BY <1>2, <2>4
  <1> HIDE DEF S, q
  <1>6. y \div S = q /\ y % S = s
    <2>1. (q * S + s) \div S = q /\ (q * S + s) % S = s
      BY <1>1, <1>2, <1>4, Division
    <2> QED BY <1>5, <2>1
  <1> HIDE DEF y
  <1>7. /\ Passes(S, y, y % S) = y \div S
        /\ \A i \in 0 .. S - 1 :
              /\ Passes(S, y, i) \in Nat
              /\ Passes(S, y + 1, i) = IF i = y % S THEN Passes(S, y, i) + 1 ELSE Passes(S, y, i)
    BY <1>1, <1>4, NextPass
  <1>8. Passes(S, y, s) + 1 = Index(g, u)
    BY <1>6, <1>7 DEF Index, q
  <1>9. \A i \in PE : i \in 0 .. S - 1
    BY PEs DEF S
  <1> QED BY <1>6, <1>7, <1>8, <1>9 DEF S, y

\* The element that a dispatcher deals out next.
DealtValue(l) == l.vector_buffer[dealt(l.pos).m * SubDim + dealt(l.pos).i + 1]
NextDealt(V, out, l, g, wr) ==
  \E s, u : /\ DealtTo(l.pos, s, u) /\ l.pos \in 0 .. D - 1
            /\ DealtValue(l) = ElementOf(V[g + 1], s, u)
            /\ wr[<<out, s>>] + 1 = Index(g, u)

\* What it deals out is what comes next in that stream.
LEMMA Deals ==
  ASSUME NEW V, NEW out, NEW lf, NEW l, NEW g \in Nat, NEW k, NEW in, NEW wr,
         DispatchBody(V, out, lf, l, g, k, in, wr), Len(l.vector_buffer) >= D
  PROVE  NextDealt(V, out, l, g, wr)
  <1>1. PICK vb, j, t : DispatchAt(V, out, lf, l, g, k, in, wr, vb, j, t)
    BY DEF DispatchBody
  <1>2. /\ l = [vector_buffer |-> vb, pos |-> t, vec |-> k] /\ j \in 0 .. size_vector
        /\ t \in 0 .. D - 1 /\ Buffered(V[g + 1], vb, j)
        /\ \A i \in PE : wr[<<out, i>>] = Passes(SUB_PE_NUM, g * D + t, i)
    BY <1>1 DEF DispatchAt
  <1>3. j * FLOATS >= D /\ Len(vb) = j * FLOATS
    BY <1>2 DEF Buffered
  <1>4. PICK s, u : DealtTo(t, s, u)
    BY <1>2, Deal
  <1> DEFINE x == dealt(t).m * SubDim + dealt(t).i
  <1>5. /\ s \in PE /\ x \in 0 .. D - 1
        /\ x = ((u % PerPE) * SUB_PE_NUM + s) * SubDim + (u \div PerPE)
    BY <1>4 DEF DealtTo
  <1> HIDE DEF x
  <1>6. vb[x + 1] = Element(V[g + 1], x)
    <2> DEFINE y == x + 1
               z == j * FLOATS
    <2>1. z \in Nat /\ D \in Nat /\ z >= D
      BY <1>2, <1>3, PacketsOf, Positive
    <2>2. \A e \in 1 .. z : vb[e] = Element(V[g + 1], e - 1)
      BY <1>2 DEF Buffered
    <2> HIDE DEF z
    <2>3. y \in 1 .. z /\ y - 1 = x
      BY <1>5, <2>1
    <2> HIDE DEF y
    <2>4. vb[y] = Element(V[g + 1], x)
      BY <2>2, <2>3
    <2> QED BY <2>4 DEF y
  <1>7. Element(V[g + 1], x) = <<V[g + 1], x>>
    BY <1>5, Positive DEF Element
  <1>8. DealtValue(l) = ElementOf(V[g + 1], s, u)
    <2>1. DealtValue(l) = vb[x + 1]
      BY <1>2 DEF DealtValue, x
    <2>2. ElementOf(V[g + 1], s, u) = <<V[g + 1], x>>
      BY <1>5 DEF ElementOf
    <2> QED BY <1>6, <1>7, <2>1, <2>2
  <1>9. wr[<<out, s>>] + 1 = Index(g, u)
    <2>1. Passes(SUB_PE_NUM, g * D + t, s) + 1 = Index(g, u)
      BY <1>2, <1>4, Turn
    <2> QED BY <1>2, <1>5, <2>1
  <1>10. l.pos = t
    BY <1>2
  <1> QED BY <1>2, <1>4, <1>8, <1>9, <1>10 DEF NextDealt

\* Where it is afterwards: W counts what is written.
AtNext(l) == [l EXCEPT !.pos = @ + 1]
AtFirst(k) == [vector_buffer |-> <<>>, pos |-> 0, vec |-> k]

\* It then has dealt out one element more, or has none of the next vector.
LEMMA Dealing ==
  ASSUME NEW V, NEW out, NEW lf, NEW l, NEW g \in Nat, NEW k, NEW in, NEW wr, NEW wr2,
         DispatchBody(V, out, lf, l, g, k, in, wr), lf > 0, Len(l.vector_buffer) >= D,
         \A i \in PE : wr2[<<out, i>>] =
           IF i = PE_of(dealt(l.pos).m) THEN wr[<<out, i>>] + 1 ELSE wr[<<out, i>>]
  PROVE  /\ l.pos + 1 # D => DispatchBody(V, out, lf, AtNext(l), g, k, in, wr2)
         /\ l.pos + 1 = D =>
              \A lf2, k2 : DispatchBody(V, out, lf2, AtFirst(k2), g + 1, k2, in, wr2)
  <1>1. PICK vb, j, t : DispatchAt(V, out, lf, l, g, k, in, wr, vb, j, t)
    BY DEF DispatchBody
  <1>2. /\ l = [vector_buffer |-> vb, pos |-> t, vec |-> k] /\ j \in 0 .. size_vector
        /\ t \in 0 .. D - 1 /\ Buffered(V[g + 1], vb, j)
        /\ in = g * size_vector + j
        /\ \A i \in PE : wr[<<out, i>>] = Passes(SUB_PE_NUM, g * D + t, i)
    BY <1>1 DEF DispatchAt
  <1>3. j = size_vector
    <2>1. ~ j * FLOATS < D
      <3>1. Len(vb) = j * FLOATS /\ j * FLOATS \in Nat /\ D \in Nat
        BY <1>2, PacketsOf, Positive DEF Buffered
      <3>2. Len(vb) >= D
        BY <1>2
      <3> QED BY <3>1, <3>2
    <2>2. ~ j < size_vector /\ size_vector \in Nat
      BY <1>2, <2>1, PacketsOf
    <2> QED BY <1>2, <2>2
  <1>4. PICK s, u : DealtTo(t, s, u)
    BY <1>2, Deal
  <1>5. l.pos = t /\ PE_of(dealt(t).m) = s
    BY <1>2, <1>4 DEF DealtTo
  <1>6. \A i \in PE : wr2[<<out, i>>] = Passes(SUB_PE_NUM, g * D + t + 1, i)
    <2>1. \A i \in PE : Passes(SUB_PE_NUM, g * D + t + 1, i) =
                          IF i = s THEN Passes(SUB_PE_NUM, g * D + t, i) + 1
                          ELSE Passes(SUB_PE_NUM, g * D + t, i)
      BY <1>2, <1>4, Turn
    <2>2. \A i \in PE : wr2[<<out, i>>] = IF i = s THEN wr[<<out, i>>] + 1 ELSE wr[<<out, i>>]
      BY <1>5
    <2> QED BY <1>2, <2>1, <2>2
  <1>7. /\ D \in Nat \ {0} /\ t \in Nat /\ g * D \in Nat /\ size_vector \in Nat
        /\ g * size_vector \in Nat
    BY <1>2, Positive, PacketsOf, Products
  <1>8. ASSUME t + 1 # D PROVE DispatchBody(V, out, lf, AtNext(l), g, k, in, wr2)
    <2> DEFINE t2 == t + 1
    <2>1. t2 \in 0 .. D - 1 /\ g * D + t + 1 = g * D + t2
      <3> DEFINE y == g * D
      <3>1. y \in Nat /\ D \in Nat /\ t \in 0 .. D - 1
        BY <1>2, <1>7
      <3> HIDE DEF y
      <3>2. t + 1 \in 0 .. D - 1 /\ y + t + 1 = y + (t + 1)
        BY <1>8, <3>1
      <3> QED BY <3>2 DEF y
    <2>2. AtNext(l) = [vector_buffer |-> vb, pos |-> t2, vec |-> k]
      BY <1>2 DEF AtNext
    <2>3. \A i \in PE : wr2[<<out, i>>] = Passes(SUB_PE_NUM, g * D + t2, i)
      BY <1>6, <2>1
    <2> HIDE DEF t2
    <2>4. DispatchAt(V, out, lf, AtNext(l), g, k, in, wr2, vb, j, t2)
      BY <1>2, <1>3, <2>1, <2>2, <2>3 DEF DispatchAt
    <2> QED BY <2>4 DEF DispatchBody
  <1>9. ASSUME t + 1 = D, NEW lf2, NEW k2
        PROVE  DispatchBody(V, out, lf2, AtFirst(k2), g + 1, k2, in, wr2)
    <2> DEFINE none == <<>>
               a == g * D
               b == g * size_vector
    <2>1. Buffered(V[g + 1 + 1], none, 0)
      <3>1. <<>> \in Seq({}) /\ Len(<<>>) = 0
        OBVIOUS
      <3>2. 0 * FLOATS = 0 /\ \A e \in 1 .. 0 : FALSE
        BY Positive
      <3>3. IsSequence(none) /\ Len(none) = 0
        BY <3>1 DEF IsSequence
      <3> HIDE DEF none
      <3> QED BY <3>2, <3>3 DEF Buffered
    <2>2. (g + 1) * D + 0 = g * D + t + 1
      <3>1. (g + 1) * D = a + D /\ a \in Nat
        BY <1>7
      <3> HIDE DEF a
      <3>2. (g + 1) * D + 0 = a + t + 1
        BY <1>7, <1>9, <3>1
      <3> QED BY <3>2 DEF a
    <2>3. in = (g + 1) * size_vector + 0
      <3>1. (g + 1) * size_vector = b + size_vector /\ b \in Nat
        BY <1>7
      <3> HIDE DEF b
      <3>2. in = b + size_vector
        BY <1>2, <1>3 DEF b
      <3> QED BY <1>7, <3>1, <3>2
    <2>4. \A i \in PE : wr2[<<out, i>>] = Passes(SUB_PE_NUM, (g + 1) * D + 0, i)
      BY <1>6, <2>2
    <2>5. 0 \in 0 .. size_vector /\ 0 \in 0 .. D - 1
      BY <1>7
    <2>6. AtFirst(k2) = [vector_buffer |-> none, pos |-> 0, vec |-> k2]
      BY DEF AtFirst
    <2> DEFINE g2 == g + 1
    <2>7. /\ Buffered(V[g2 + 1], none, 0) /\ in = g2 * size_vector + 0
          /\ \A i \in PE : wr2[<<out, i>>] = Passes(SUB_PE_NUM, g2 * D + 0, i)
      BY <2>1, <2>3, <2>4
    <2> HIDE DEF none, a, b, g2
    <2>8. DispatchAt(V, out, lf2, AtFirst(k2), g2, k2, in, wr2, none, 0, 0)
      BY <2>5, <2>6, <2>7 DEF DispatchAt
    <2> QED BY <2>8 DEF DispatchBody, g2
  <1> QED BY <1>5, <1>8, <1>9

\* A dispatcher that deals out an element does nothing else; vecs is the number
\* of vectors of a query, k that of the one it is at.
DealMoves(p, out, vecs, k, puts) ==
  /\ Moves(p) /\ nprobe'[p] = nprobe[p] /\ left[p] > 0 /\ Len(at[p].vector_buffer) >= D
  /\ Transfer({}, puts) /\ DOMAIN puts = {<<out, PE_of(dealt(at[p].pos).m)>>}
  /\ PE_of(dealt(at[p].pos).m) \in PE
  /\ puts[<<out, PE_of(dealt(at[p].pos).m)>>] = DealtValue(at[p])
  /\ at[p].pos + 1 = D => /\ at'[p] = AtFirst((k + 1) % vecs)
                          /\ left'[p] = IF k + 1 = vecs THEN left[p] - 1 ELSE left[p]
  /\ at[p].pos + 1 # D => at'[p] = AtNext(at[p]) /\ left'[p] = left[p]

\* dispatch_vector moves that way.
LEMMA DealsOnly ==
  ASSUME NEW r, NEW w, NEW rd, NEW wr, At(r, w, rd, wr), NEW p \in Stages, NEW out, NEW vecs,
         dispatch_vector(p, out, vecs), NEW V, NEW g \in Nat, NEW k, NEW in,
         DispatchBody(V, out, left[p], at[p], g, k, in, wr)
  PROVE  /\ DealMoves(p, out, vecs, k,
                      To(<<out, PE_of(dealt(at[p].pos).m)>>, DealtValue(at[p])))
         /\ NextDealt(V, out, at[p], g, wr)
  <1> DEFINE l == at[p]
             i0 == PE_of(dealt(l.pos).m)
             puts == To(<<out, i0>>, DealtValue(l))
             last == l.pos + 1 = D
             local == IF last THEN [vector_buffer |-> <<>>, pos |-> 0, vec |-> (l.vec + 1) % vecs]
                      ELSE [l EXCEPT !.pos = @ + 1]
  <1>1. l.vec = k
    <2>1. PICK vb, j, t : DispatchAt(V, out, left[p], l, g, k, in, wr, vb, j, t)
      BY DEF DispatchBody
    <2> QED BY <2>1 DEF DispatchAt
  <1>2. /\ left[p] > 0 /\ Len(l.vector_buffer) >= D /\ Transfer({}, puts)
        /\ at' = [at EXCEPT ![p] = local] /\ Finish(p, last /\ l.vec + 1 = vecs)
        /\ request' = request /\ wraps' = wraps
    BY DEF dispatch_vector, Same, SetAt, DealtValue
  <1>3. DOMAIN puts = {<<out, i0>>} /\ puts[<<out, i0>>] = DealtValue(l)
    BY DEF To, ToAll
  <1>4. NextDealt(V, out, l, g, wr)
    <2> DEFINE lf == left[p]
    <2>1. DispatchBody(V, out, lf, l, g, k, in, wr) /\ Len(l.vector_buffer) >= D
      BY <1>2
    <2> HIDE DEF l, lf
    <2> QED BY <2>1, Deals
  <1>5. i0 \in PE
    <2>1. PICK s, u : DealtTo(l.pos, s, u)
      BY <1>4 DEF NextDealt
    <2> QED BY <2>1 DEF DealtTo
  <1> HIDE DEF local, last, puts, i0
  <1>6. /\ Moves(p) /\ at'[p] = local /\ nprobe'[p] = nprobe[p]
        /\ left'[p] = IF last /\ l.vec + 1 = vecs THEN left[p] - 1 ELSE left[p]
    <2> DEFINE fin == last /\ l.vec + 1 = vecs
    <2>1. p \in Process
      BY StagesAre
    <2>2. at' = [at EXCEPT ![p] = local] /\ Finish(p, fin)
      BY <1>2
    <2>3. /\ Moves(p) /\ at'[p] = local /\ nprobe'[p] = nprobe[p]
          /\ left'[p] = IF fin THEN left[p] - 1 ELSE left[p]
      BY <1>2, <2>1, <2>2, FinishMoves
    <2> QED BY <2>3 DEF fin
  <1>7. /\ last => local = AtFirst((k + 1) % vecs)
        /\ ~ last => local = AtNext(l)
    BY <1>1 DEF local, AtFirst, AtNext
  <1>8. DealMoves(p, out, vecs, k, puts)
    BY <1>1, <1>2, <1>3, <1>5, <1>6, <1>7 DEF DealMoves, last, i0
  <1> QED BY <1>4, <1>8 DEF puts, i0

\* The query dispatcher keeps the invariant when it deals out an element.
LEMMA QueryDealStep ==
  ASSUME NEW r, NEW w, NEW rd, NEW wr, At(r, w, rd, wr),
         dispatch_vector(query_dispatcher, "s_sub_query_vectors", 1)
  PROVE  LUTInv'
  <1> DEFINE p == query_dispatcher
             h == rd[s_batch_header(p)]
             V == QueryVectors
             out == "s_sub_query_vectors"
             l == at[p]
             i0 == PE_of(dealt(l.pos).m)
             takes == {}
             puts == To(<<out, i0>>, DealtValue(l))
             R == Counted(Stream, rd, takes)
             W == Counted(Stream, wr, DOMAIN puts)
             in == rd[s_query_vectors]
  <1>1. p \in Stages
    BY StagesAre
  <1>2. PICK n : /\ r \in Requests /\ Serves(r, h, left[p], nprobe[p], n)
                 /\ DispatchBody(V, out, left[p], at[p], n, 0, in, wr)
    BY <1>1, StageAt, Bodies
  <1>3. Served(r, h, left[p], nprobe[p], n) /\ n \in Nat
    <2> DEFINE lf == left[p]
               np == nprobe[p]
    <2>1. r \in Requests /\ Serves(r, h, lf, np, n)
      BY <1>2
    <2> HIDE DEF lf, np, h
    <2>2. Served(r, h, lf, np, n)
      BY <2>1, Serving
    <2> QED BY <2>2 DEF Served, lf, np
  <1>4. DealMoves(p, out, 1, 0, puts) /\ NextDealt(V, out, l, n, wr)
    <2> HIDE DEF in
    <2>1. dispatch_vector(p, out, 1)
      OBVIOUS
    <2> HIDE DEF p, V, out
    <2> QED BY <1>1, <1>2, <1>3, <2>1, DealsOnly
  <1>5. PICK s, u : /\ DealtTo(l.pos, s, u) /\ DealtValue(l) = ElementOf(V[n + 1], s, u)
                    /\ wr[<<out, s>>] + 1 = Index(n, u)
    BY <1>4 DEF NextDealt
  <1>6. s \in PE /\ i0 = s /\ u \in 0 .. Share - 1
    BY <1>5 DEF DealtTo
  <1>7. /\ takes \in SUBSET Stream /\ DOMAIN puts = {s_sub_query_vectors(s)}
        /\ DOMAIN puts \in SUBSET Stream /\ \A d \in takes : Reader(d) = p /\ d[1] # "s_batch_header"
        /\ \A d \in DOMAIN puts : Writer(d) = p /\ puts[d] = DealtValue(l)
        /\ \A i : s_sub_query_vectors(i) = <<out, i>>
    <2>1. DOMAIN puts = {<<out, s>>} /\ puts[<<out, s>>] = DealtValue(l)
      BY <1>4, <1>6 DEF DealMoves
    <2>2. \A i : s_sub_query_vectors(i) = <<out, i>>
      BY DEF s_sub_query_vectors
    <2> HIDE DEF puts
    <2>3. s_sub_query_vectors(s) \in Stream /\ Writer(s_sub_query_vectors(s)) = p
      BY <1>6, PEWiring
    <2> QED BY <2>1, <2>2, <2>3
  <1>8. \A d \in DOMAIN puts : puts[d] = History(r, w)[d][wr[d] + 1]
    <2>1. PICK x : x = Index(n, u)
      OBVIOUS
    <2>2. x \in Nat /\ (x - 1) \div Share = n /\ (x - 1) % Share = u
      BY <1>3, <1>6, <2>1, IndexIs
    <2>3. History(r, w)[s_sub_query_vectors(s)][x] =
            ElementOf(QueryVectors[((x - 1) \div Share) + 1], s, (x - 1) % Share)
      <3>1. x \in Nat
        BY <2>2
      <3> QED BY <1>6, <3>1, PEValues
    <2> HIDE DEF puts
    <2> QED BY <1>5, <1>7, <2>1, <2>2, <2>3
  <1>9. R[s_query_vectors] = in /\ \A i \in PE :
          W[<<out, i>>] = IF i = i0 THEN wr[<<out, i>>] + 1 ELSE wr[<<out, i>>]
    <2> HIDE DEF puts, i0
    <2>1. \A i \in PE : <<out, i>> \in Stream /\ (<<out, i>> \in DOMAIN puts <=> i = i0)
      BY <1>6, <1>7, PEWiring
    <2> HIDE DEF out
    <2> QED BY <2>1, Wiring DEF Counted
  <1>10. /\ Moves(p) /\ nprobe'[p] = nprobe[p] /\ left[p] > 0 /\ Len(l.vector_buffer) >= D
         /\ Transfer(takes, puts)
         /\ l.pos + 1 = D => at'[p] = AtFirst(0) /\ left'[p] = left[p] - 1
         /\ l.pos + 1 # D => at'[p] = AtNext(l) /\ left'[p] = left[p]
    <2>1. (0 + 1) % 1 = 0 /\ 0 + 1 = 1
      OBVIOUS
    <2> QED BY <1>4, <2>1 DEF DealMoves
  <1> DEFINE lf == left[p]
  <1>11. DispatchBody(V, out, lf, l, n, 0, in, wr) /\ lf > 0 /\ n \in Nat
    BY <1>2, <1>3, <1>10
  <1> HIDE DEF p, h, V, out, l, takes, puts, R, W, in, lf
  <1>12. /\ l.pos + 1 # D => DispatchBody(V, out, lf, AtNext(l), n, 0, in, W)
         /\ l.pos + 1 = D =>
              \A lf2, k2 : DispatchBody(V, out, lf2, AtFirst(k2), n + 1, k2, in, W)
    BY <1>9, <1>10, <1>11, Dealing DEF i0
  <1>13. CASE l.pos + 1 = D
    <2>1. Serves(r, h, left'[p], nprobe[p], n + 1)
      BY <1>3, <1>10, <1>13 DEF Served
    <2> DEFINE lf2 == left'[p]
               m == n + 1
    <2>2. DispatchBody(V, out, lf2, AtFirst(0), m, 0, in, W)
      BY <1>12, <1>13
    <2>3. StageBody(r, w, p, m, left'[p], at'[p], R, W)
      <3> HIDE DEF m
      <3> QED BY <1>9, <1>10, <1>13, <2>2, Bodies DEF p, V, out
    <2> QED BY <1>1, <1>7, <1>8, <1>10, <2>1, <2>3, StageStep DEF h, R, W
  <1>14. CASE l.pos + 1 # D
    <2>1. Serves(r, h, left'[p], nprobe[p], n)
      BY <1>2, <1>10, <1>14
    <2>2. StageBody(r, w, p, n, left'[p], at'[p], R, W)
      BY <1>9, <1>10, <1>12, <1>14, Bodies DEF p, V, out, lf
    <2> QED BY <1>1, <1>7, <1>8, <1>10, <2>1, <2>2, StageStep DEF h, R, W
  <1> QED BY <1>13, <1>14

\* The centre dispatcher keeps the invariant when it deals out an element.
LEMMA CenterDealStep ==
  ASSUME NEW r, NEW w, NEW rd, NEW wr, At(r, w, rd, wr),
         dispatch_vector(center_dispatcher, "s_sub_center_vectors", nprobe[center_dispatcher])
  PROVE  LUTInv'
  <1> DEFINE p == center_dispatcher
             h == rd[s_batch_header(p)]
             V == CenterVectors(r)
             out == "s_sub_center_vectors"
             l == at[p]
             np == nprobe[p]
             i0 == PE_of(dealt(l.pos).m)
             takes == {}
             puts == To(<<out, i0>>, DealtValue(l))
             R == Counted(Stream, rd, takes)
             W == Counted(Stream, wr, DOMAIN puts)
             in == rd[s_center_vectors]
  <1>1. p \in Stages
    BY StagesAre
  <1>2. PICK n : /\ r \in Requests /\ Serves(r, h, left[p], np, n)
                 /\ CenterBody(r, n, left[p], at[p], rd, wr)
    BY <1>1, StageAt, Bodies
  <1>20. PICK k : /\ Spot(r, 1, n, k)
                  /\ DispatchBody(V, out, left[p], at[p], Past(r, 1, n, k), k, in, wr)
    BY <1>2 DEF CenterBody
  <1> DEFINE g == Past(r, 1, n, k)
  <1>21. left[p] > 0
    BY DEF dispatch_vector
  <1>3. g \in Nat /\ HasNext(r, 1, h, left[p], np, n, k)
    <2> DEFINE lf == left[p]
    <2>1. r \in Requests /\ Serves(r, h, lf, np, n) /\ lf > 0 /\ Spot(r, 1, n, k) /\ 1 \in Nat \ {0}
      BY <1>2, <1>20, <1>21
    <2> HIDE DEF lf, np, h
    <2>2. HasNext(r, 1, h, lf, np, n, k)
      BY <2>1, NextSpot
    <2>3. g \in Nat
      BY <2>1, CellOf
    <2> QED BY <2>2, <2>3 DEF lf
  <1>30. PICK m : GoesOn(r, 1, h, left[p], np, n, k, m)
    BY <1>3 DEF HasNext
  <1> DEFINE k1 == (k + 1) % np
  <1>31. /\ np \in Nat \ {0} /\ np * 1 = np
         /\ Serves(r, h, IF k + 1 = np THEN left[p] - 1 ELSE left[p], np, m)
         /\ Spot(r, 1, m, k1) /\ Past(r, 1, m, k1) = g + 1
    <2>1. np \in Nat \ {0}
      BY <1>3 DEF HasNext
    <2> HIDE DEF np
    <2>2. np * 1 = np
      BY <2>1
    <2> QED BY <1>30, <2>1, <2>2 DEF GoesOn
  <1> HIDE DEF k1
  <1>4. DealMoves(p, out, np, k, puts) /\ NextDealt(V, out, l, g, wr)
    <2> HIDE DEF in, g
    <2>1. dispatch_vector(p, out, np)
      OBVIOUS
    <2> HIDE DEF p, V, out, np
    <2>2. /\ DealMoves(p, out, np, k,
                       To(<<out, PE_of(dealt(at[p].pos).m)>>, DealtValue(at[p])))
          /\ NextDealt(V, out, at[p], g, wr)
      <3>1. DispatchBody(V, out, left[p], at[p], g, k, in, wr)
        BY <1>20 DEF g
      <3> QED BY <1>1, <1>3, <2>1, <3>1, DealsOnly
    <2> QED BY <2>2
  <1> HIDE DEF g
  <1>5. PICK s, u : /\ DealtTo(l.pos, s, u) /\ DealtValue(l) = ElementOf(V[g + 1], s, u)
                    /\ wr[<<out, s>>] + 1 = Index(g, u)
    BY <1>4 DEF NextDealt
  <1>6. s \in PE /\ i0 = s /\ u \in 0 .. Share - 1
    BY <1>5 DEF DealtTo
  <1>7. /\ takes \in SUBSET Stream /\ DOMAIN puts = {s_sub_center_vectors(s)}
        /\ DOMAIN puts \in SUBSET Stream /\ \A d \in takes : Reader(d) = p /\ d[1] # "s_batch_header"
        /\ \A d \in DOMAIN puts : Writer(d) = p /\ puts[d] = DealtValue(l)
        /\ \A i : s_sub_center_vectors(i) = <<out, i>>
    <2>1. DOMAIN puts = {<<out, s>>} /\ puts[<<out, s>>] = DealtValue(l)
      BY <1>4, <1>6 DEF DealMoves
    <2>2. \A i : s_sub_center_vectors(i) = <<out, i>>
      BY DEF s_sub_center_vectors
    <2> HIDE DEF puts
    <2>3. s_sub_center_vectors(s) \in Stream /\ Writer(s_sub_center_vectors(s)) = p
      BY <1>6, PEWiring
    <2> QED BY <2>1, <2>2, <2>3
  <1>8. \A d \in DOMAIN puts : puts[d] = History(r, w)[d][wr[d] + 1]
    <2>1. PICK x : x = Index(g, u)
      OBVIOUS
    <2>2. x \in Nat /\ (x - 1) \div Share = g /\ (x - 1) % Share = u
      BY <1>3, <1>6, <2>1, IndexIs
    <2>3. History(r, w)[s_sub_center_vectors(s)][x] =
            ElementOf(CenterVectors(r)[((x - 1) \div Share) + 1], s, (x - 1) % Share)
      <3>1. x \in Nat
        BY <2>2
      <3> QED BY <1>6, <3>1, PEValues
    <2> HIDE DEF puts
    <2> QED BY <1>5, <1>7, <2>1, <2>2, <2>3
  <1>9. R[s_center_vectors] = in /\ \A i \in PE :
          W[<<out, i>>] = IF i = i0 THEN wr[<<out, i>>] + 1 ELSE wr[<<out, i>>]
    <2> HIDE DEF puts, i0
    <2>1. \A i \in PE : <<out, i>> \in Stream /\ (<<out, i>> \in DOMAIN puts <=> i = i0)
      BY <1>6, <1>7, PEWiring
    <2> HIDE DEF out
    <2> QED BY <2>1, Wiring DEF Counted
  <1>10. /\ Moves(p) /\ nprobe'[p] = np /\ left[p] > 0 /\ Len(l.vector_buffer) >= D
         /\ Transfer(takes, puts)
         /\ l.pos + 1 = D => /\ at'[p] = AtFirst(k1)
                             /\ left'[p] = IF k + 1 = np THEN left[p] - 1 ELSE left[p]
         /\ l.pos + 1 # D => at'[p] = AtNext(l) /\ left'[p] = left[p]
    BY <1>4 DEF DealMoves, k1
  <1> DEFINE lf == left[p]
  <1>11. DispatchBody(V, out, lf, l, g, k, in, wr) /\ lf > 0 /\ g \in Nat
    BY <1>20, <1>3, <1>21 DEF g
  <1> HIDE DEF p, h, V, out, l, takes, puts, R, W, in, lf, np
  <1>12. /\ l.pos + 1 # D => DispatchBody(V, out, lf, AtNext(l), g, k, in, W)
         /\ l.pos + 1 = D =>
              \A lf2, k2 : DispatchBody(V, out, lf2, AtFirst(k2), g + 1, k2, in, W)
    BY <1>9, <1>10, <1>11, Dealing DEF i0
  <1>13. CASE l.pos + 1 = D
    <2>1. Serves(r, h, left'[p], np, m)
      BY <1>31, <1>10, <1>13
    <2> DEFINE lf2 == left'[p]
    <2>2. DispatchBody(V, out, lf2, AtFirst(k1), g + 1, k1, in, W)
      BY <1>12, <1>13
    <2>3. CenterBody(r, m, left'[p], at'[p], R, W)
      BY <1>31, <1>9, <1>10, <1>13, <2>2 DEF CenterBody, V, out
    <2>4. StageBody(r, w, p, m, left'[p], at'[p], R, W)
      BY <2>3, Bodies DEF p
    <2> QED BY <1>1, <1>7, <1>8, <1>10, <2>1, <2>4, StageStep DEF h, R, W, np
  <1>14. CASE l.pos + 1 # D
    <2>1. Serves(r, h, left'[p], np, n)
      BY <1>2, <1>10, <1>14
    <2>2. CenterBody(r, n, left'[p], at'[p], R, W)
      BY <1>20, <1>9, <1>10, <1>12, <1>14 DEF CenterBody, V, out, lf, g
    <2>3. StageBody(r, w, p, n, left'[p], at'[p], R, W)
      BY <2>2, Bodies DEF p
    <2> QED BY <1>1, <1>7, <1>8, <1>10, <2>1, <2>3, StageStep DEF h, R, W, np
  <1> QED BY <1>13, <1>14

-----------------------------------------------------------------------------
(* The sub-quantizers are dealt out. *)

\* Number t goes to PE s, of whose numbers it is the one at Dealt(t, s).
QuantizerTo(t, s) ==
  /\ s \in PE /\ PE_of(t \div Block) = s
  /\ Dealt(t, s) \in Nat
  /\ Quantizer(t \div Block, (t \div SubDim) % LUT_ENTRY_NUM, t % SubDim) = QuantizerOf(s, Dealt(t, s))
  /\ \A i \in PE : Dealt(t + 1, i) = IF i = s THEN Dealt(t, i) + 1 ELSE Dealt(t, i)

\* Every number has a PE.
LEMMA DealQuantizer ==
  ASSUME NEW t \in Nat
  PROVE  \E s : QuantizerTo(t, s)
  <1> DEFINE S == SUB_PE_NUM
             B == SubDim
             L == LUT_ENTRY_NUM
             C == Block
             m == t \div C
             y == t % C
             s == m % S
             a == m \div S
             u == Dealt(t, s)
  <1>1. /\ S \in Nat \ {0} /\ B \in Nat \ {0} /\ L \in Nat \ {0} /\ C \in Nat \ {0} /\ C = B * L
    BY Positive, Sizes DEF Block
  <1> HIDE DEF S, B, L, C
  <1>2. m \in Nat /\ y \in 0 .. C - 1 /\ t = m * C + y
    BY <1>1, Quotient
  <1> HIDE DEF m, y
  <1>3. s \in 0 .. S - 1 /\ a \in Nat /\ m = a * S + s
    BY <1>1, <1>2, Quotient
  <1>4. /\ Passes(S, m, s) = a
        /\ \A i \in 0 .. S - 1 :
              /\ Passes(S, m, i) \in Nat
              /\ Passes(S, m + 1, i) = IF i = s THEN Passes(S, m, i) + 1 ELSE Passes(S, m, i)
    BY <1>1, <1>2, NextPass
  <1>5. \A x, i : Dealt(x, i) =
          Passes(S, x \div C, i) * C + (IF i = (x \div C) % S THEN x % C ELSE 0)
    BY DEF Dealt, S, C
  <1>6. u = a * C + y
    BY <1>4, <1>5 DEF m, y
  <1>7. \A i \in PE : i \in 0 .. S - 1
    BY PEs DEF S
  <1>70. s \in PE
    BY <1>3, PEs DEF S
  <1>71. PE_of(m) = s
    BY DEF PE_of, S
  <1> HIDE DEF s, a, u
  <1>8. a * C \in Nat /\ u \in Nat
    <2>1. a * C \in Nat
      BY <1>1, <1>3, Products
    <2> DEFINE z == a * C
    <2>2. z \in Nat /\ u = z + y
      BY <1>6, <2>1
    <2> HIDE DEF z
    <2>3. u \in Nat
      BY <1>1, <1>2, <2>2
    <2> QED BY <2>1, <2>3
  <1>9. Quantizer(m, (t \div B) % L, t % B) = QuantizerOf(s, u)
    <2>1. PICK k, j : k \in 0 .. L - 1 /\ j \in 0 .. B - 1 /\ y = k * B + j
      <3> DEFINE k == y \div B
                 j == y % B
      <3>1. k \in Nat /\ j \in 0 .. B - 1 /\ y = k * B + j /\ (y < L * B => k < L)
        <4>1. y \in Nat
          BY <1>1, <1>2
        <4> QED BY <1>1, <4>1, Quotient
      <3>2. L * B = C
        BY <1>1
      <3> HIDE DEF k, j
      <3>3. k \in 0 .. L - 1
        BY <1>1, <1>2, <3>1, <3>2
      <3> QED BY <3>1, <3>3
    <2>2. ASSUME NEW z \in Nat, NEW x, x = z * C + y
          PROVE  x \div C = z /\ (x \div B) % L = k /\ x % B = j
      <3>1. x = (z * L + k) * B + j
        <4>1. (z * L + k) * B = (z * L) * B + k * B
          <5>1. z * L \in Nat /\ k \in Nat
            BY <1>1, <2>1, <2>2, Products
          <5> QED BY <1>1, <5>1
        <4>2. (z * L) * B = z * (B * L)
          BY <1>1, <2>2
        <4>3. z * C \in Nat /\ k * B \in Nat
          <5>1. k \in Nat
            BY <1>1, <2>1
          <5> QED BY <1>1, <2>2, <5>1, Products
        <4> DEFINE e == z * C
                   f == k * B
        <4>4. (z * L + k) * B = e + f /\ x = e + (f + j) /\ e \in Nat /\ f \in Nat
          BY <1>1, <2>1, <2>2, <4>1, <4>2, <4>3
        <4> HIDE DEF e, f
        <4> QED BY <1>1, <2>1, <4>4
      <3>2. Written(B, L, z, k, j, x)
        BY <1>1, <2>1, <2>2, <3>1 DEF Written
      <3>3. DigitsAre(B, L, z, k, j, x)
        BY <3>2, Digits
      <3> QED BY <1>1, <3>3 DEF DigitsAre
    <2>3. t \div C = m /\ (t \div B) % L = k /\ t % B = j
      BY <1>2, <2>2
    <2>4. u \div C = a /\ (u \div B) % L = k /\ u % B = j
      BY <1>3, <1>6, <2>2
    <2>5. QuantizerOf(s, u) = Quantizer((u \div C) * S + s, (u \div B) % L, u % B)
      BY DEF QuantizerOf, C, S, B, L
    <2> QED BY <1>3, <2>3, <2>4, <2>5
  <1>10. ASSUME NEW i \in PE PROVE Dealt(t + 1, i) = IF i = s THEN Dealt(t, i) + 1 ELSE Dealt(t, i)
    <2> DEFINE p == Passes(S, m, i)
               p2 == Passes(S, m + 1, i)
    <2>1. p \in Nat /\ p2 = IF i = s THEN p + 1 ELSE p
      BY <1>4, <1>7
    <2>2. Dealt(t, i) = p * C + (IF i = s THEN y ELSE 0)
      BY <1>5 DEF m, y, s
    <2>3. p * C \in Nat
      BY <1>1, <2>1, Products
    <2>4. CASE y + 1 = C
      <3>1. t + 1 = (m + 1) * C + 0 /\ m + 1 \in Nat /\ 0 \in 0 .. C - 1
        <4>1. (m + 1) * C = m * C + C /\ m * C \in Nat
          BY <1>1, <1>2, Products
        <4> DEFINE z == m * C
        <4>2. z \in Nat /\ t = z + y /\ (m + 1) * C = z + C
          BY <1>2, <4>1
        <4> HIDE DEF z
        <4> QED BY <1>1, <1>2, <2>4, <4>2
      <3>2. (t + 1) \div C = m + 1 /\ (t + 1) % C = 0
        <4>1. ((m + 1) * C + 0) \div C = m + 1 /\ ((m + 1) * C + 0) % C = 0
          BY <1>1, <3>1, Division
        <4> QED BY <3>1, <4>1
      <3>3. Dealt(t + 1, i) = p2 * C + 0
        <4>1. Dealt(t + 1, i) = p2 * C + (IF i = (m + 1) % S THEN 0 ELSE 0)
          BY <1>5, <3>2
        <4> QED BY <4>1
      <3>4. CASE i = s
        <4>1. p2 * C = p * C + C
          BY <1>1, <2>1, <3>4
        <4> DEFINE z == p * C
        <4>2. z \in Nat /\ Dealt(t + 1, i) = z + C + 0 /\ Dealt(t, i) = z + y
          BY <2>2, <2>3, <3>3, <3>4, <4>1
        <4> HIDE DEF z
        <4> QED BY <1>1, <1>2, <2>4, <3>4, <4>2
      <3>5. CASE i # s
        BY <2>1, <2>2, <3>3, <3>5
      <3> QED BY <3>4, <3>5
    <2>5. CASE y + 1 # C
      <3>1. t + 1 = m * C + (y + 1) /\ y + 1 \in 0 .. C - 1
        <4> DEFINE z == m * C
        <4>2. z \in Nat /\ t = z + y
          BY <1>1, <1>2, Products
        <4> HIDE DEF z
        <4>3. t + 1 = z + (y + 1) /\ y + 1 \in 0 .. C - 1
          BY <1>1, <1>2, <2>5, <4>2
        <4> QED BY <4>3 DEF z
      <3>2. (t + 1) \div C = m /\ (t + 1) % C = y + 1
        BY <1>1, <1>2, <3>1, Division
      <3>3. Dealt(t + 1, i) = p * C + (IF i = s THEN y + 1 ELSE 0)
        BY <1>5, <3>2 DEF s
      <3> DEFINE z == p * C
      <3>4. z \in Nat /\ Dealt(t + 1, i) = z + (IF i = s THEN y + 1 ELSE 0)
            /\ Dealt(t, i) = z + (IF i = s THEN y ELSE 0)
        BY <2>2, <2>3, <3>3
      <3> HIDE DEF z
      <3>5. y \in Nat
        BY <1>1, <1>2
      <3> QED BY <3>4, <3>5
    <2> QED BY <2>4, <2>5
  <1>11. QuantizerTo(t, s)
    BY <1>70, <1>71, <1>8, <1>9, <1>10 DEF QuantizerTo, u, m, C, B, L
  <1> QED BY <1>11

\* product_quantizer_dispatcher keeps the invariant.
LEMMA QuantizerStep ==
  ASSUME NEW r, NEW w, NEW rd, NEW wr, At(r, w, rd, wr), product_quantizer_dispatcher
  PROVE  LUTInv'
  <1> DEFINE p == quantizer
             c == s_product_quantizer_init
             v == Head(fifo[c])
             out(i) == s_product_quantizer_init_sub_PE(i)
  <1>1. p \in Process /\ p \notin Stages /\ p # replicate
    BY StagesAre
  <1>2. PICK t \in Nat : /\ at[p] = [pos |-> t] /\ rd[c] = t /\ wr[c] = D * LUT_ENTRY_NUM
                         /\ \A i \in PE : wr[out(i)] = Dealt(t, i)
    <2>1. ProcessInv(r, w, p, left[p], nprobe[p], at[p], rd, wr)
      BY <1>1 DEF At
    <2>2. QuantizerBody(at[p], rd, wr)
      BY <2>1 DEF ProcessInv
    <2> QED BY <2>2 DEF QuantizerBody
  <1>3. PICK s : QuantizerTo(t, s)
    BY DealQuantizer
  <1> DEFINE takes == {c}
             puts == To(out(s), v)
             R == Counted(Stream, rd, takes)
             W == Counted(Stream, wr, DOMAIN puts)
  <1>4. /\ fifo[c] # <<>> /\ Transfer(takes, puts) /\ at' = [at EXCEPT ![p] = [pos |-> t + 1]]
        /\ left' = left /\ nprobe' = nprobe /\ request' = request /\ wraps' = wraps
    <2>1. at[p].pos = t /\ SubDim * LUT_ENTRY_NUM = Block
      BY <1>2 DEF Block
    <2>2. PE_of(t \div Block) = s
      BY <1>3 DEF QuantizerTo
    <2> QED BY <2>1, <2>2 DEF product_quantizer_dispatcher, SetAt, Same
  <1>5. s \in PE /\ out(s) \in Stream /\ Writer(out(s)) = p /\ c \in Stream /\ Reader(c) = p
    BY <1>3, Wiring, PEWiring DEF QuantizerTo
  <1>6. /\ takes \in SUBSET Stream /\ DOMAIN puts = {out(s)}
        /\ DOMAIN puts \in SUBSET Stream /\ \A d \in takes : Reader(d) = p
        /\ \A d \in DOMAIN puts : Writer(d) = p /\ puts[d] = v
    BY <1>5 DEF To, ToAll
  <1>7. v = QuantizerOf(s, Dealt(t, s)) /\ Dealt(t, s) \in Nat
    <2>1. v = History(r, w)[c][rd[c] + 1] /\ rd[c] < wr[c]
      BY <1>4, <1>5, Reading
    <2> DEFINE x == t + 1
               N == D * LUT_ENTRY_NUM
    <2>2. N \in Nat
      BY Positive, Products
    <2>20. t < N
      BY <1>2, <2>1
    <2>21. product_quantizer = [y \in 1 .. N |->
             Quantizer((y - 1) \div Block, ((y - 1) \div SubDim) % LUT_ENTRY_NUM, (y - 1) % SubDim)]
      BY DEF product_quantizer, Block
    <2> HIDE DEF N
    <2>3. x \in 1 .. N /\ x - 1 = t /\ x \in Nat
      BY <1>2, <2>2, <2>20
    <2> HIDE DEF x, v
    <2>4. History(r, w)[c][x] = product_quantizer[x]
      BY <2>3, Values
    <2>5. product_quantizer[x] =
            Quantizer(t \div Block, (t \div SubDim) % LUT_ENTRY_NUM, t % SubDim)
      BY <2>3, <2>21
    <2>6. v = Quantizer(t \div Block, (t \div SubDim) % LUT_ENTRY_NUM, t % SubDim)
      BY <1>2, <2>1, <2>4, <2>5 DEF x
    <2> QED BY <1>3, <2>6 DEF QuantizerTo
  <1>8. \A d \in DOMAIN puts : puts[d] = History(r, w)[d][wr[d] + 1]
    <2> DEFINE u == Dealt(t, s)
               x == u + 1
    <2>1. x \in Nat /\ x - 1 = u /\ wr[out(s)] = u
      BY <1>2, <1>5, <1>7
    <2> HIDE DEF u, puts, v
    <2>2. wr[out(s)] + 1 = x
      BY <2>1
    <2> HIDE DEF x
    <2>3. History(r, w)[out(s)][x] = QuantizerOf(s, x - 1)
      <3>1. x \in Nat /\ s \in PE
        BY <1>5, <2>1
      <3>2. \A j \in PE : \A y \in Nat :
              History(r, w)[s_product_quantizer_init_sub_PE(j)][y] = QuantizerOf(j, y - 1)
        BY PEValues
      <3> QED BY <3>1, <3>2
    <2> QED BY <1>6, <1>7, <2>1, <2>2, <2>3 DEF u
  <1> HIDE DEF v, puts
  <1>9. Moves(p) /\ at'[p] = [pos |-> t + 1]
    BY <1>1, <1>4 DEF Moves, At
  <1>10. /\ R[c] = t + 1 /\ W[c] = D * LUT_ENTRY_NUM
         /\ \A i \in PE : W[out(i)] = Dealt(t + 1, i)
    <2>1. \A i \in PE : out(i) \in Stream /\ (out(i) \in DOMAIN puts <=> i = s) /\ out(i) # c
      <3>1. \A i \in PE : out(i) \in Stream /\ out(i) # c
        BY PEWiring DEF s_product_quantizer_init_sub_PE, s_product_quantizer_init
      <3>2. \A i \in PE : out(i) = out(s) <=> i = s
        BY DEF s_product_quantizer_init_sub_PE
      <3> QED BY <1>6, <3>1, <3>2
    <2>2. \A i \in PE : W[out(i)] = IF i = s THEN wr[out(i)] + 1 ELSE wr[out(i)]
      BY <2>1 DEF Counted
    <2>3. c \notin DOMAIN puts
      BY <1>5, <1>6, <2>1
    <2>4. R[c] = t + 1 /\ W[c] = D * LUT_ENTRY_NUM
      BY <1>2, <1>5, <2>3 DEF Counted
    <2>5. \A i \in PE : Dealt(t + 1, i) = IF i = s THEN Dealt(t, i) + 1 ELSE Dealt(t, i)
      BY <1>3 DEF QuantizerTo
    <2> QED BY <1>2, <2>2, <2>4, <2>5
  <1> HIDE DEF takes, R, W
  <1>11. QuantizerBody(at'[p], R, W)
    <2> DEFINE t2 == t + 1
    <2>1. t2 \in Nat
      OBVIOUS
    <2>2. /\ at'[p] = [pos |-> t2] /\ R[c] = t2 /\ W[c] = D * LUT_ENTRY_NUM
          /\ \A i \in PE : W[out(i)] = Dealt(t2, i)
      BY <1>9, <1>10
    <2> HIDE DEF t2
    <2> QED BY <2>1, <2>2 DEF QuantizerBody
  <1> DEFINE lf == left'[p]
             np == nprobe'[p]
             l == at'[p]
  <1>12. ProcessInv(r, w, p, lf, np, l, R, W)
    BY <1>1, <1>11 DEF ProcessInv
  <1> QED BY <1>1, <1>4, <1>6, <1>8, <1>9, <1>12, Step DEF R, W

-----------------------------------------------------------------------------
(* The input, in closed form. *)

\* s are the packets of the vectors of V, one vector after the other.
InPackets(s, V) == IsSequence(s) /\ \A x \in 1 .. Len(s) : s[x] = PacketAt(V, x)

\* The packets of N vectors.
LEMMA PacketStream ==
  ASSUME NEW N \in Nat, NEW V, NEW s, s = FlattenSeq([n \in 1 .. N |-> Packets(V[n])])
  PROVE  InPackets(s, V) /\ Len(s) = N * size_vector
  <1> DEFINE L == size_vector
             seqs == [n \in 1 .. N |-> Packets(V[n])]
             P(v, x) == Packets(v)[x]
             A == {P(V[n], x) : n \in 1 .. N, x \in 1 .. L}
  <1>1. L \in Nat \ {0}
    BY PacketsOf
  <1>2. ASSUME NEW n \in 1 .. N PROVE seqs[n] \in Seq(A) /\ Len(seqs[n]) = L
    <2> DEFINE t == seqs[n]
    <2>1. t = Packets(V[n])
      OBVIOUS
    <2>2. DOMAIN t = 1 .. L
      BY DEF Packets
    <2>3. t = [x \in 1 .. L |-> P(V[n], x)]
      BY <2>1, <2>2 DEF Packets
    <2>4. \A x \in 1 .. L : P(V[n], x) \in A
      OBVIOUS
    <2> HIDE DEF t, A, P, L
    <2>5. t \in Seq(A) /\ Len(t) = L
      BY <1>1, <2>3, <2>4
    <2> QED BY <2>5 DEF t
  <1>3. seqs \in [1 .. N -> Seq(A)] /\ \A q \in 1 .. N : Len(seqs[q]) = L
    <2> HIDE DEF A, L
    <2>1. \A q \in 1 .. N : seqs[q] \in Seq(A) /\ Len(seqs[q]) = L
      BY <1>2
    <2>2. DOMAIN seqs = 1 .. N /\ seqs = [q \in 1 .. N |-> seqs[q]]
      OBVIOUS
    <2> HIDE DEF seqs
    <2> QED BY <2>1, <2>2
  <1>4. \A n \in 1 .. N : seqs[n] = Packets(V[n])
    OBVIOUS
  <1>5. s = FlattenSeq(seqs)
    OBVIOUS
  <1> HIDE DEF A, L, seqs, P
  <1>6. /\ s \in Seq(A) /\ Len(s) = N * L
        /\ \A x \in 1 .. N * L : s[x] = seqs[(x - 1) \div L + 1][((x - 1) % L) + 1]
    <2>1. /\ FlattenSeq(seqs) \in Seq(A) /\ Len(FlattenSeq(seqs)) = N * L
          /\ \A x \in 1 .. N * L :
               FlattenSeq(seqs)[x] = seqs[(x - 1) \div L + 1][((x - 1) % L) + 1]
      BY <1>1, <1>3, FlattenUniform, ZenonT(60)
    <2> QED BY <1>5, <2>1
  <1>7. ASSUME NEW x \in 1 .. Len(s) PROVE s[x] = PacketAt(V, x)
    <2> DEFINE n == (x - 1) \div L + 1
    <2>1. N * L \in Nat
      BY <1>1, Products
    <2>2. n \in 1 .. N
      <3>1. x - 1 \in Nat /\ x - 1 < N * L
        BY <1>6, <2>1
      <3>2. (x - 1) \div L \in Nat /\ (x - 1) \div L < N
        <4> DEFINE y == x - 1
        <4>1. y \in Nat /\ y < N * L
          BY <3>1
        <4> HIDE DEF y
        <4>2. y \div L \in Nat /\ y \div L < N
          BY <1>1, <4>1, Quotient
        <4> QED BY <4>2 DEF y
      <3> QED BY <3>2
    <2>3. s[x] = seqs[n][((x - 1) % L) + 1]
      BY <1>6
    <2> HIDE DEF n
    <2>4. s[x] = Packets(V[n])[((x - 1) % L) + 1]
      BY <1>4, <2>2, <2>3
    <2> QED BY <2>4 DEF PacketAt, n, L
  <1> QED BY <1>6, <1>7 DEF InPackets, IsSequence, L

\* Those of the queries.
LEMMA QueryInput ==
  ASSUME NEW r \in Requests, request = r
  PROVE  InPackets(FlattenSeq([n \in Queries |-> Packets(Vectors(n))]), QueryVectors)
  <1> DEFINE N == QueryNum(r)
             s == FlattenSeq([n \in Queries |-> Packets(Vectors(n))])
  <1>1. N \in Nat /\ Queries = 1 .. N
    BY QueryFacts DEF Queries, QueryProbes, ProbesOf
  <1>2. \A n \in 1 .. N : Vectors(n) = QueryVectors[n]
    BY <1>1 DEF Vectors, QueryVectors, QueryVector
  <1>3. [n \in Queries |-> Packets(Vectors(n))] = [n \in 1 .. N |-> Packets(QueryVectors[n])]
    BY <1>1, <1>2
  <1>4. s = FlattenSeq([n \in 1 .. N |-> Packets(QueryVectors[n])])
    BY <1>3
  <1> HIDE DEF s, N
  <1>5. InPackets(s, QueryVectors)
    BY <1>1, <1>4, PacketStream
  <1> QED BY <1>5 DEF s

\* Those of the centres.
LEMMA CenterInput ==
  ASSUME NEW r \in Requests, request = r
  PROVE  InPackets(FlattenSeq([n \in Queries |->
                     FlattenSeq([k \in DOMAIN Centers(n) |-> Packets(Centers(n)[k])])]),
                   CenterVectors(r))
  <1> DEFINE N == QueryNum(r)
             L == size_vector
             np == ProbesOf(r)
             PT == ProbeTotal(r)
             T == [j \in 0 .. N |-> PT[j] * L]
             len == [j \in 1 .. N |-> np[j] * L]
             inner(n) == FlattenSeq([k \in DOMAIN Centers(n) |-> Packets(Centers(n)[k])])
             seqs == [n \in 1 .. N |-> inner(n)]
             A == {inner(n)[x] : n \in 1 .. N, x \in 1 .. T[N]}
             s == FlattenSeq([n \in Queries |-> inner(n)])
  <1>1. N \in Nat /\ Queries = 1 .. N /\ QueryProbes = np /\ L \in Nat \ {0}
    BY QueryFacts, PacketsOf DEF Queries, QueryProbes, ProbesOf
  <1>2. /\ \A n \in 1 .. N : np[n] \in Nat \ {0}
        /\ \A n \in 0 .. N : PT[n] \in Nat
        /\ PT[0] = 0
        /\ \A n \in 1 .. N : PT[n] = PT[n - 1] + np[n]
        /\ \A n \in 1 .. N : \A k \in 1 .. np[n] : Probe(r)[PT[n - 1] + k] = <<n, k>>
        /\ \A m, n \in 0 .. N : m <= n => PT[m] <= PT[n]
    BY QueryFacts, ProbeFacts
  <1>3. ASSUME NEW n \in 1 .. N
        PROVE  /\ InPackets(inner(n), Centers(n)) /\ Len(inner(n)) = np[n] * L
               /\ Centers(n) = [k \in 1 .. np[n] |-> <<"center", n, k>>]
    <2> DEFINE C == Centers(n)
               t == inner(n)
               m == np[n]
    <2>1. C = [k \in 1 .. m |-> <<"center", n, k>>]
      BY <1>1 DEF Centers
    <2>2. DOMAIN C = 1 .. m /\ m \in Nat
      BY <1>2, <2>1
    <2>3. t = FlattenSeq([k \in 1 .. m |-> Packets(C[k])])
      BY <2>2
    <2> HIDE DEF C, t, m
    <2>4. InPackets(t, C) /\ Len(t) = m * size_vector
      BY <2>2, <2>3, PacketStream
    <2> QED BY <2>1, <2>4 DEF C, t, m
  <1>4. s = FlattenSeq(seqs)
    BY <1>1
  <1>5. DOMAIN seqs = 1 .. N /\ \A n \in 1 .. N : seqs[n] = inner(n)
    OBVIOUS
  <1>6. /\ T[0] = 0 /\ \A j \in 0 .. N : T[j] \in Nat
        /\ \A j \in 1 .. N : len[j] \in Nat /\ T[j] = T[j - 1] + len[j]
    <2>1. 0 * L = 0 /\ T[0] = PT[0] * L
      BY <1>1
    <2>2. ASSUME NEW j \in 0 .. N PROVE T[j] \in Nat
      BY <1>1, <1>2, Products
    <2>3. ASSUME NEW j \in 1 .. N PROVE len[j] \in Nat /\ T[j] = T[j - 1] + len[j]
      <3>1. j \in 0 .. N /\ j - 1 \in 0 .. N
        BY <1>1
      <3>2. T[j] = PT[j] * L /\ T[j - 1] = PT[j - 1] * L /\ len[j] = np[j] * L
        BY <3>1
      <3>3. PT[j - 1] \in Nat /\ np[j] \in Nat /\ PT[j] = PT[j - 1] + np[j]
        BY <1>2, <3>1
      <3> HIDE DEF T, len, PT, np, L
      <3>4. (PT[j - 1] + np[j]) * L = PT[j - 1] * L + np[j] * L
        BY <1>1, <3>3
      <3>5. np[j] * L \in Nat
        BY <1>1, <3>3, Products
      <3> QED BY <3>2, <3>3, <3>4, <3>5
    <2> QED BY <1>2, <2>1, <2>2, <2>3
  <1> HIDE DEF inner, seqs, s, len, T
  <1>7. \A n \in 1 .. N : Len(seqs[n]) = len[n] /\ seqs[n] \in Seq(A)
    <2> TAKE n \in 1 .. N
    <2>1. IsSequence(inner(n)) /\ Len(inner(n)) = np[n] * L
      BY <1>3 DEF InPackets
    <2>2. len[n] = np[n] * L
      BY DEF len
    <2>3. len[n] <= T[N] /\ T[N] \in Nat /\ len[n] \in Nat
      <3>1. \A i, j \in 0 .. N : i <= j => T[i] <= T[j]
        <4>1. IsTotal(T, N, len)
          BY <1>6 DEF IsTotal
        <4> HIDE DEF A, N
        <4> QED BY <1>1, <4>1, Totals
      <3>2. n \in 0 .. N /\ N \in 0 .. N /\ n <= N /\ n - 1 \in 0 .. N
        BY <1>1
      <3>3. T[n] <= T[N] /\ T[n] = T[n - 1] + len[n] /\ len[n] \in Nat /\ T[n - 1] \in Nat
            /\ T[N] \in Nat /\ T[n] \in Nat
        BY <1>6, <3>1, <3>2
      <3> HIDE DEF N
      <3> QED BY <3>3
    <2>4. \A x \in 1 .. len[n] : inner(n)[x] \in A
      BY <2>3
    <2>5. PICK B : inner(n) \in Seq(B)
      BY <2>1 DEF IsSequence
    <2> DEFINE t == inner(n)
    <2>6. t \in Seq(B) /\ Len(t) = len[n] /\ \A x \in 1 .. len[n] : t[x] \in A
      BY <2>1, <2>2, <2>4, <2>5
    <2> HIDE DEF t, A
    <2>7. t \in Seq(A)
      BY <2>6
    <2> QED BY <1>5, <2>1, <2>2, <2>7 DEF t
  <1>8. seqs \in [1 .. N -> Seq(A)]
    <2>1. seqs = [n \in 1 .. N |-> seqs[n]]
      BY DEF seqs
    <2> HIDE DEF A, N
    <2> QED BY <1>7, <2>1
  <1>9. IsTotal(T, N, len)
    BY <1>6 DEF IsTotal
  <1>10. \A j \in 1 .. N : len[j] = Len(seqs[j])
    <2> HIDE DEF A, N
    <2> QED BY <1>7
  <1> HIDE DEF A, N, L, np, PT
  <1>11. Flattened(s, A, N, seqs, T)
    <2>1. Flattened(FlattenSeq(seqs), A, N, seqs, T)
      BY <1>1, <1>8, <1>9, <1>10, FlattenTotal
    <2> QED BY <1>4, <2>1
  <1>12. /\ s \in Seq(A) /\ Len(s) = T[N]
         /\ \A j \in 1 .. N : \A k \in 1 .. Len(seqs[j]) : s[T[j - 1] + k] = seqs[j][k]
    BY <1>11 DEF Flattened
  <1>120. \A y \in 1 .. T[N] : \E j \in 1 .. N : \E k \in 1 .. len[j] : y = T[j - 1] + k
    <2>1. N \in Nat
      BY <1>1
    <2>2. Counting(T, N, len, PairsOf(N, len))
      BY <1>9, <2>1, TotalCounts
    <2> QED BY <2>2 DEF Counting
  <1>13. ASSUME NEW x \in 1 .. Len(s) PROVE s[x] = PacketAt(CenterVectors(r), x)
    <2>1. \A y \in 1 .. T[N] : \E j \in 1 .. N : \E k \in 1 .. len[j] : y = T[j - 1] + k
      BY <1>120
    <2>2. x \in 1 .. T[N]
      BY <1>12
    <2>3. PICK n \in 1 .. N : \E y \in 1 .. len[n] : x = T[n - 1] + y
      BY <2>1, <2>2
    <2>4. PICK y \in 1 .. len[n] : x = T[n - 1] + y
      BY <2>3
    <2>5. s[x] = inner(n)[y] /\ inner(n)[y] = PacketAt(Centers(n), y) /\ len[n] = np[n] * L
      <3>1. y \in 1 .. Len(seqs[n]) /\ seqs[n] = inner(n)
        BY <1>5, <1>10, <2>4
      <3>2. s[T[n - 1] + y] = seqs[n][y]
        BY <1>12, <3>1
      <3>3. inner(n)[y] = PacketAt(Centers(n), y)
        BY <1>3, <3>1 DEF InPackets
      <3>4. len[n] = np[n] * L
        BY DEF len
      <3> QED BY <2>4, <3>1, <3>2, <3>3, <3>4
    <2> DEFINE z == y - 1
               k == z \div L
               j == z % L
               p == PT[n - 1]
               b == p * L
    <2>6. np[n] \in Nat \ {0} /\ p \in Nat /\ T[n - 1] = b /\ b \in Nat
          /\ \A k2 \in 1 .. np[n] : Probe(r)[p + k2] = <<n, k2>>
      <3>1. n - 1 \in 0 .. N
        BY <1>1
      <3>2. T[n - 1] = b
        BY <3>1 DEF T
      <3>3. p \in Nat /\ np[n] \in Nat \ {0}
        BY <1>2, <3>1
      <3> HIDE DEF p
      <3>4. b \in Nat
        BY <1>1, <3>3, Products
      <3>5. \A k2 \in 1 .. np[n] : Probe(r)[p + k2] = <<n, k2>>
        BY <1>2 DEF p
      <3> QED BY <3>2, <3>3, <3>4, <3>5
    <2> HIDE DEF p
    <2>7. z \in Nat /\ z < np[n] * L /\ x - 1 = b + z
      <3>1. np[n] * L \in Nat
        BY <1>1, <2>6, Products
      <3> DEFINE q == np[n] * L
      <3>2. y \in 1 .. q /\ q \in Nat /\ x = b + y
        BY <2>4, <2>5, <2>6, <3>1
      <3> HIDE DEF q, b
      <3>3. z \in Nat /\ z < q /\ x - 1 = b + z
        BY <2>6, <3>2
      <3> QED BY <3>3 DEF q
    <2> HIDE DEF z
    <2>8. k \in Nat /\ j \in 0 .. L - 1 /\ z = k * L + j /\ k < np[n]
      BY <1>1, <2>6, <2>7, Quotient
    <2> HIDE DEF k, j
    <2>9. (x - 1) \div L = p + k /\ (x - 1) % L = j
      <3>1. (p + k) * L = p * L + k * L /\ p + k \in Nat
        BY <1>1, <2>6, <2>8
      <3>2. k * L \in Nat
        BY <1>1, <2>8, Products
      <3> DEFINE e == k * L
      <3>3. (p + k) * L = b + e /\ x - 1 = b + (e + j) /\ e \in Nat
        BY <2>7, <2>8, <3>1, <3>2
      <3> HIDE DEF e, b
      <3>4. x - 1 = (p + k) * L + j
        BY <1>1, <2>6, <2>8, <3>3
      <3>5. ((p + k) * L + j) \div L = p + k /\ ((p + k) * L + j) % L = j
        BY <1>1, <2>8, <3>1, Division
      <3> QED BY <3>4, <3>5
    <2> HIDE DEF b
    <2> DEFINE g == p + k + 1
    <2>10. CenterVectors(r)[g] = <<"center", n, k + 1>>
      <3>1. k + 1 \in 1 .. np[n] /\ g = p + (k + 1) /\ g \in Nat
        BY <2>6, <2>8
      <3>2. Probe(r)[g] = <<n, k + 1>>
        BY <2>6, <3>1
      <3> HIDE DEF g
      <3> QED BY <3>1, <3>2 DEF CenterVectors, CenterVector
    <2>11. Centers(n)[k + 1] = <<"center", n, k + 1>>
      <3>1. k + 1 \in 1 .. np[n]
        BY <2>6, <2>8
      <3> QED BY <1>3, <3>1
    <2>12. PacketAt(CenterVectors(r), x) = Packets(CenterVectors(r)[g])[j + 1]
      BY <2>9 DEF PacketAt, L
    <2>13. PacketAt(Centers(n), y) = Packets(Centers(n)[k + 1])[j + 1]
      BY DEF PacketAt, L, k, j, z
    <2> QED BY <2>5, <2>10, <2>11, <2>12, <2>13
  <1>14. InPackets(s, CenterVectors(r))
    BY <1>12, <1>13 DEF InPackets, IsSequence
  <1> QED BY <1>14 DEF s, inner

\* The streams that come from outside.
Given == {s_batch_header(replicate), s_product_quantizer_init, s_query_vectors, s_center_vectors}

\* They are four.
LEMMA GivenDiffer ==
  /\ s_batch_header(replicate) \notin {s_product_quantizer_init, s_query_vectors, s_center_vectors}
  /\ s_product_quantizer_init \notin {s_query_vectors, s_center_vectors}
  /\ s_query_vectors # s_center_vectors
  /\ \A c \in Given : Writer(c) = nobody
BY HeaderWiring, Wiring DEF Given, s_batch_header, s_product_quantizer_init, s_query_vectors,
   s_center_vectors

\* The headers in closed form.
LEMMA HeaderInput ==
  ASSUME NEW r \in Requests, request = r
  PROVE  /\ IsSequence(Headers) /\ Len(Headers) = BatchNum(r) + 1
         /\ \A b \in 1 .. BatchNum(r) + 1 : Headers[b] = HeaderOf(r, b)
  <1> DEFINE B == BatchNum(r)
             s == [b \in 1 .. B |-> HeaderOf(r, b)]
             t == <<TerminateHeader>>
  <1>1. B \in Nat /\ DOMAIN r = 1 .. B
    BY Batches
  <1>2. Headers = s \o t
    <2>1. \A b \in 1 .. B : Header(r[b].queries, r[b].nprobe) = HeaderOf(r, b)
      BY Batches DEF HeaderOf, NProbe
    <2>2. [b \in DOMAIN r |-> Header(r[b].queries, r[b].nprobe)] = s
      BY <1>1, <2>1
    <2> QED BY <2>2 DEF Headers
  <1>3. IsSequence(s) /\ Len(s) = B
    <2> DEFINE A == {HeaderOf(r, b) : b \in 1 .. B}
    <2>1. \A b \in 1 .. B : HeaderOf(r, b) \in A
      OBVIOUS
    <2> HIDE DEF A, B
    <2>2. s \in Seq(A) /\ Len(s) = B
      BY <1>1, <2>1
    <2> QED BY <2>2 DEF IsSequence
  <1>4. IsSequence(t) /\ Len(t) = 1 /\ t[1] = TerminateHeader
    <2>1. t \in Seq({TerminateHeader}) /\ Len(t) = 1 /\ t[1] = TerminateHeader
      OBVIOUS
    <2> QED BY <2>1 DEF IsSequence
  <1>5. \A b \in 1 .. B : s[b] = HeaderOf(r, b)
    OBVIOUS
  <1> HIDE DEF s, t
  <1>6. /\ IsSequence(s \o t) /\ Len(s \o t) = B + 1
        /\ \A b \in 1 .. B + 1 : (s \o t)[b] = IF b <= B THEN s[b] ELSE t[b - B]
    <2>1. /\ IsSequence(s \o t) /\ Len(s \o t) = Len(s) + Len(t)
          /\ \A b \in 1 .. Len(s) + Len(t) : (s \o t)[b] = IF b <= Len(s) THEN s[b] ELSE t[b - Len(s)]
      BY <1>3, <1>4, Concat
    <2> QED BY <1>3, <1>4, <2>1
  <1>7. ASSUME NEW b \in 1 .. B + 1 PROVE (s \o t)[b] = HeaderOf(r, b)
    <2>1. CASE b <= B
      BY <1>1, <1>5, <1>6, <2>1
    <2>2. CASE ~ b <= B
      <3>1. b - B = 1 /\ b \notin 1 .. B
        BY <1>1, <2>2
      <3>2. HeaderOf(r, b) = TerminateHeader
        BY <3>1 DEF HeaderOf
      <3> QED BY <1>4, <1>6, <2>2, <3>1, <3>2
    <2> QED BY <2>1, <2>2
  <1> QED BY <1>2, <1>6, <1>7

\* What the streams hold at first is what will have passed through them.
LEMMA InputInOrder ==
  ASSUME NEW r \in Requests, request = r, NEW w, NEW c \in Stream
  PROVE  /\ IsSequence(Input(c)) /\ InOrder(History(r, w)[c], Input(c), 0)
         /\ c \notin Given => Input(c) = <<>>
         /\ c = s_batch_header(replicate) => Len(Input(c)) = BatchNum(r) + 1
         /\ c = s_product_quantizer_init => Len(Input(c)) = D * LUT_ENTRY_NUM
  <1>1. CASE c = s_batch_header(replicate)
    <2>1. Input(c) = Headers
      BY <1>1, GivenDiffer DEF Input
    <2>2. ASSUME NEW j \in 1 .. Len(Headers) PROVE Headers[j] = History(r, w)[c][0 + j]
      <3>1. BatchNum(r) \in Nat /\ Len(Headers) = BatchNum(r) + 1
        BY Batches, HeaderInput
      <3>2. j \in 1 .. BatchNum(r) + 1 /\ j \in Nat /\ 0 + j = j
        BY <3>1
      <3>3. History(r, w)[s_batch_header(replicate)][j] = HeaderOf(r, j)
        <4>1. \A q \in Stages \cup {replicate} : \A x \in Nat :
                History(r, w)[s_batch_header(q)][x] = HeaderOf(r, x)
          BY Values
        <4> QED BY <3>2, <4>1
      <3> QED BY <1>1, <3>2, <3>3, HeaderInput
    <2>3. InOrder(History(r, w)[c], Headers, 0)
      BY <2>2 DEF InOrder
    <2> QED BY <1>1, <2>1, <2>3, HeaderInput, GivenDiffer DEF Given
  <1>2. CASE c = s_product_quantizer_init
    <2> DEFINE N == D * LUT_ENTRY_NUM
               s == product_quantizer
    <2>1. Input(c) = s
      BY <1>2, GivenDiffer DEF Input
    <2>2. N \in Nat
      BY Positive, Products
    <2>3. IsSequence(s) /\ Len(s) = N
      <3> DEFINE F(t) == Quantizer((t - 1) \div (SubDim * LUT_ENTRY_NUM),
                                   ((t - 1) \div SubDim) % LUT_ENTRY_NUM, (t - 1) % SubDim)
      <3>1. s = [t \in 1 .. N |-> F(t)]
        BY DEF product_quantizer
      <3> HIDE DEF N, F, s
      <3>2. s \in Seq({F(t) : t \in 1 .. N}) /\ Len(s) = N
        BY <2>2, <3>1
      <3> QED BY <3>2 DEF IsSequence
    <2> HIDE DEF N
    <2>4. ASSUME NEW j \in 1 .. Len(s) PROVE s[j] = History(r, w)[c][0 + j]
      <3>1. j \in Nat /\ 0 + j = j
        BY <2>2, <2>3
      <3>2. History(r, w)[s_product_quantizer_init][j] = s[j]
        BY <3>1, Values
      <3> QED BY <1>2, <3>1, <3>2
    <2> HIDE DEF s
    <2>5. InOrder(History(r, w)[c], s, 0)
      BY <2>4 DEF InOrder
    <2> QED BY <1>2, <2>1, <2>3, <2>5, GivenDiffer DEF Given, N
  <1>3. CASE c = s_query_vectors
    <2> DEFINE s == FlattenSeq([n \in Queries |-> Packets(Vectors(n))])
    <2>1. Input(c) = s
      BY <1>3, GivenDiffer DEF Input
    <2>2. InPackets(s, QueryVectors)
      BY QueryInput
    <2> HIDE DEF s
    <2>3. ASSUME NEW j \in 1 .. Len(s) PROVE s[j] = History(r, w)[c][0 + j]
      <3>1. j \in Nat /\ 0 + j = j
        BY <2>2, Sequences DEF InPackets
      <3>2. History(r, w)[s_query_vectors][j] = PacketAt(QueryVectors, j)
        BY <3>1, Values
      <3> QED BY <1>3, <2>2, <3>1, <3>2 DEF InPackets
    <2>4. InOrder(History(r, w)[c], s, 0)
      BY <2>3 DEF InOrder
    <2> QED BY <1>3, <2>1, <2>2, <2>4, GivenDiffer DEF Given, InPackets
  <1>4. CASE c = s_center_vectors
    <2> DEFINE s == FlattenSeq([n \in Queries |->
                      FlattenSeq([k \in DOMAIN Centers(n) |-> Packets(Centers(n)[k])])])
    <2>1. Input(c) = s
      BY <1>4, GivenDiffer DEF Input
    <2>2. InPackets(s, CenterVectors(r))
      BY CenterInput
    <2> HIDE DEF s
    <2>3. ASSUME NEW j \in 1 .. Len(s) PROVE s[j] = History(r, w)[c][0 + j]
      <3>1. j \in Nat /\ 0 + j = j
        BY <2>2, Sequences DEF InPackets
      <3>2. History(r, w)[s_center_vectors][j] = PacketAt(CenterVectors(r), j)
        BY <3>1, Values
      <3> QED BY <1>4, <2>2, <3>1, <3>2 DEF InPackets
    <2>4. InOrder(History(r, w)[c], s, 0)
      BY <2>3 DEF InOrder
    <2> QED BY <1>4, <2>1, <2>2, <2>4, GivenDiffer DEF Given, InPackets
  <1>5. CASE c \notin Given
    <2>1. Input(c) = <<>>
      BY <1>5 DEF Input, Given
    <2>2. IsSequence(<<>>)
      BY DEF IsSequence
    <2>3. c # s_batch_header(replicate) /\ c # s_product_quantizer_init
      BY <1>5 DEF Given
    <2> QED BY <2>1, <2>2, <2>3, NoneInOrder
  <1> QED BY <1>1, <1>2, <1>3, <1>4, <1>5, Zenon DEF Given

-----------------------------------------------------------------------------
(* The first state. *)

\* Nothing has been read, and nothing written but what is given.
Fresh(r, rd, wr) ==
  /\ \A c \in Stream : rd[c] = 0
  /\ \A c \in Stream \ Given : wr[c] = 0
  /\ wr[s_batch_header(replicate)] = BatchNum(r) + 1
  /\ wr[s_product_quantizer_init] = D * LUT_ENTRY_NUM

\* Nothing has been read at first.
LEMMA Zero ==
  ASSUME NEW r \in Requests
  PROVE  /\ Serves(r, 0, 0, 0, 0) /\ QueryTotal(r)[0] = 0 /\ ProbeTotal(r)[0] = 0
         /\ \A L \in Nat : Spot(r, L, 0, 0) /\ Past(r, L, 0, 0) = 0
         /\ \A n \in Nat : 0 * n = 0
         /\ \A i \in PE : Passes(SUB_PE_NUM, 0, i) = 0 /\ Dealt(0, i) = 0
  <1>1. ProbeTotal(r)[0] = 0 /\ QueryTotal(r)[0] = 0
    BY ProbeFacts, QueryFacts
  <1>2. BatchNum(r) \in Nat /\ Size(r, 0) \in Nat
    BY Batches
  <1>3. \A n \in Nat : 0 * n = 0
    OBVIOUS
  <1>4. \A L \in Nat : Spot(r, L, 0, 0) /\ Past(r, L, 0, 0) = 0
    <2> TAKE L \in Nat
    <2>1. 0 * L = 0 /\ 0 + 0 = 0
      OBVIOUS
    <2> QED BY <1>1, <2>1 DEF Spot, Past
  <1>5. ~ (0 > 0) /\ 0 \in 0 .. BatchNum(r) + 1 /\ 0 \in 0 .. Size(r, 0) /\ 0 = QueryTotal(r)[0] - 0
    BY <1>1, <1>2
  <1>6. Serves(r, 0, 0, 0, 0)
    BY <1>5 DEF Serves
  <1>7. \A n \in Nat \ {0} : 0 \div n = 0 /\ 0 % n = 0
    <2> TAKE n \in Nat \ {0}
    <2>1. (0 * n + 0) \div n = 0 /\ (0 * n + 0) % n = 0
      <3>1. 0 \in 0 .. n - 1
        OBVIOUS
      <3> QED BY <3>1, Division
    <2>2. 0 * n + 0 = 0
      OBVIOUS
    <2> QED BY <2>1, <2>2
  <1>8. ASSUME NEW i \in PE PROVE Passes(SUB_PE_NUM, 0, i) = 0 /\ Dealt(0, i) = 0
    <2>1. i \in Nat
      BY PEs, Positive
    <2>2. Passes(SUB_PE_NUM, 0, i) = 0
      BY <1>7, <2>1, Positive DEF Passes
    <2>3. 0 \div Block = 0 /\ 0 % Block = 0 /\ Block \in Nat
      BY <1>7, Sizes
    <2>4. Dealt(0, i) = 0
      <3>1. 0 * Block = 0
        BY <2>3
      <3> QED BY <2>2, <2>3, <3>1 DEF Dealt
    <2> QED BY <2>2, <2>4
  <1> QED BY <1>1, <1>3, <1>4, <1>6, <1>8

\* The local data of each process at first.
LEMMA Locals ==
  /\ \A p \in {query_dispatcher, center_dispatcher} :
       Local(p) = [vector_buffer |-> <<>>, pos |-> 0, vec |-> 0]
  /\ Local(gather) = [pos |-> 0, row |-> <<>>]
  /\ \A p \in {quantizer, replicate, extra_FIFO} : Local(p) = [pos |-> 0]
  /\ \A i \in PE : Local(sub_PE(i)) =
       PELocal("init", 0, 0, [k \in 0 .. LUT_ENTRY_NUM - 1 |-> Unset], Unset, Unset)
  <1>1. /\ \A i : sub_PE(i)[1] = "sub_PE"
        /\ \A p \in {query_dispatcher, center_dispatcher, gather, quantizer, replicate, extra_FIFO} :
             p[1] # "sub_PE"
        /\ gather \notin {query_dispatcher, center_dispatcher}
        /\ \A p \in {quantizer, replicate, extra_FIFO} : p \notin {query_dispatcher, center_dispatcher, gather}
        /\ \A i : sub_PE(i) \notin {query_dispatcher, center_dispatcher}
    BY DEF sub_PE, query_dispatcher, center_dispatcher, gather, quantizer, replicate, extra_FIFO
  <1>2. \A p \in {query_dispatcher, center_dispatcher} :
          Local(p) = [vector_buffer |-> <<>>, pos |-> 0, vec |-> 0]
    BY <1>1 DEF Local
  <1>3. Local(gather) = [pos |-> 0, row |-> <<>>]
    BY <1>1 DEF Local
  <1>4. \A p \in {quantizer, replicate, extra_FIFO} : Local(p) = [pos |-> 0]
    BY <1>1 DEF Local
  <1>5. \A i \in PE : Local(sub_PE(i)) =
          PELocal("init", 0, 0, [k \in 0 .. LUT_ENTRY_NUM - 1 |-> Unset], Unset, Unset)
    <2> TAKE i \in PE
    <2> DEFINE p == sub_PE(i)
    <2>1. p[1] = "sub_PE" /\ p \notin {query_dispatcher, center_dispatcher} /\ p # gather
      BY <1>1
    <2> HIDE DEF p
    <2> DEFINE q == [k \in 0 .. LUT_ENTRY_NUM - 1 |-> Unset]
    <2>2. Local(p) = [phase |-> "init", pos |-> 0, probe |-> 0, quantizer |-> q,
                      query |-> Unset, residual |-> Unset]
      <3> DEFINE a == [vector_buffer |-> <<>>, pos |-> 0, vec |-> 0]
                 b == [phase |-> "init", pos |-> 0, probe |-> 0, quantizer |-> q,
                       query |-> Unset, residual |-> Unset]
                 c == [pos |-> 0, row |-> <<>>]
                 d == [pos |-> 0]
      <3>1. Local(p) = CASE p \in {query_dispatcher, center_dispatcher} -> a
                         [] p[1] = "sub_PE" -> b [] p = gather -> c [] OTHER -> d
        BY DEF Local
      <3> HIDE DEF a, b, c, d, q
      <3>2. Local(p) = b
        BY <2>1, <3>1
      <3> QED BY <3>2 DEF b
    <2> QED BY <2>2 DEF PELocal, p
  <1> QED BY <1>2, <1>3, <1>4, <1>5

\* Only the streams that come from outside are given.
LEMMA NotGiven ==
  /\ \A c \in {s_distance_LUT_buffer, s_distance_LUT} : c \notin Given
  /\ \A p \in Stages : s_batch_header(p) \notin Given
  /\ \A i \in PE : /\ s_product_quantizer_init_sub_PE(i) \notin Given
                   /\ s_sub_query_vectors(i) \notin Given
                   /\ s_sub_center_vectors(i) \notin Given
                   /\ s_partial_distance_LUT(i) \notin Given
  <1>1. \A c \in Given : Writer(c) = nobody
    BY GivenDiffer
  <1>2. nobody \notin Process
    BY StagesAre
  <1>3. /\ Writer(s_distance_LUT_buffer) \in Process /\ Writer(s_distance_LUT) \in Process
        /\ \A p \in Stages : Writer(s_batch_header(p)) \in Process
    BY Wiring, HeaderWiring, StagesAre
  <1>4. \A i \in PE : /\ Writer(s_product_quantizer_init_sub_PE(i)) \in Process
                      /\ Writer(s_sub_query_vectors(i)) \in Process
                      /\ Writer(s_sub_center_vectors(i)) \in Process
                      /\ Writer(s_partial_distance_LUT(i)) \in Process
    BY PEWiring, StagesAre
  <1> QED BY <1>1, <1>2, <1>3, <1>4

\* Each stage is at its first place.
LEMMA FreshBody ==
  ASSUME NEW r \in Requests, NEW w, NEW rd, NEW wr, Fresh(r, rd, wr), NEW p \in Stages
  PROVE  StageBody(r, w, p, 0, 0, Local(p), rd, wr)
  <1>0. /\ \A c \in Stream : rd[c] = 0 /\ (c \notin Given => wr[c] = 0)
        /\ ~ (0 > 0)
    BY DEF Fresh
  <1> DEFINE none == <<>>
  <1>1. IsSequence(none) /\ Len(none) = 0
    <2>1. <<>> \in Seq({})
      OBVIOUS
    <2> QED BY <2>1 DEF IsSequence
  <1>2. ASSUME NEW V, NEW out, \A i \in PE : wr[<<out, i>>] = 0
        PROVE  DispatchBody(V, out, 0, [vector_buffer |-> none, pos |-> 0, vec |-> 0], 0, 0, 0, wr)
    <2>1. Buffered(V[0 + 1], none, 0)
      <3>1. 0 * FLOATS = 0 /\ \A e \in 1 .. 0 : FALSE
        BY Positive
      <3> HIDE DEF none
      <3> QED BY <1>1, <3>1 DEF Buffered
    <2>2. 0 \in 0 .. size_vector /\ 0 \in 0 .. D - 1 /\ 0 = 0 * size_vector + 0 /\ 0 * D + 0 = 0
      BY Positive, PacketsOf
    <2>3. \A i \in PE : wr[<<out, i>>] = Passes(SUB_PE_NUM, 0 * D + 0, i)
      BY <1>2, <2>2, Zero
    <2> HIDE DEF none
    <2>4. DispatchAt(V, out, 0, [vector_buffer |-> none, pos |-> 0, vec |-> 0], 0, 0, 0, wr, none, 0, 0)
      BY <2>1, <2>2, <2>3, Zenon DEF DispatchAt
    <2> QED BY <2>4 DEF DispatchBody
  <1>3. ASSUME p = query_dispatcher
        PROVE  DispatchBody(QueryVectors, "s_sub_query_vectors", 0, Local(p), 0, 0, rd[s_query_vectors], wr)
    <2>1. \A i \in PE : wr[<<"s_sub_query_vectors", i>>] = 0
      BY <1>0, PEWiring, NotGiven DEF s_sub_query_vectors
    <2>2. rd[s_query_vectors] = 0 /\ Local(p) = [vector_buffer |-> none, pos |-> 0, vec |-> 0]
      BY <1>0, <1>3, Wiring, Locals
    <2> QED BY <1>2, <2>1, <2>2
  <1>4. ASSUME p = center_dispatcher PROVE CenterBody(r, 0, 0, Local(p), rd, wr)
    <2>1. \A i \in PE : wr[<<"s_sub_center_vectors", i>>] = 0
      BY <1>0, PEWiring, NotGiven DEF s_sub_center_vectors
    <2>2. rd[s_center_vectors] = 0 /\ Local(p) = [vector_buffer |-> none, pos |-> 0, vec |-> 0]
      BY <1>0, <1>4, Wiring, Locals
    <2>3. DispatchBody(CenterVectors(r), "s_sub_center_vectors", 0, Local(p), 0, 0,
                       rd[s_center_vectors], wr)
      BY <1>2, <2>1, <2>2
    <2>4. Spot(r, 1, 0, 0) /\ Past(r, 1, 0, 0) = 0
      BY Zero
    <2> QED BY <2>3, <2>4 DEF CenterBody
  <1>5. ASSUME NEW i \in PE, p = sub_PE(i)
        PROVE  PEBody(r, i, 0, 0, Local(p), rd[s_product_quantizer_init_sub_PE(i)],
                      rd[s_sub_query_vectors(i)], rd[s_sub_center_vectors(i)],
                      wr[s_partial_distance_LUT(i)])
    <2> DEFINE q == [k \in 0 .. LUT_ENTRY_NUM - 1 |-> Unset]
    <2>1. /\ rd[s_product_quantizer_init_sub_PE(i)] = 0 /\ rd[s_sub_query_vectors(i)] = 0
          /\ rd[s_sub_center_vectors(i)] = 0 /\ wr[s_partial_distance_LUT(i)] = 0
      BY <1>0, PEWiring, NotGiven
    <2>2. Local(p) = PELocal("init", 0, 0, q, Unset, Unset)
      BY <1>5, Locals
    <2>3. DOMAIN Unset = 0 .. Share - 1
      BY DEF Unset, Share
    <2>4. HasQuantizer(q, i, 0)
      <3>1. DOMAIN q = 0 .. LUT_ENTRY_NUM - 1 /\ \A k \in DOMAIN q : DOMAIN q[k] = 0 .. Share - 1
        BY <2>3
      <3>2. \A v \in 0 .. 0 - 1 : FALSE
        OBVIOUS
      <3> HIDE DEF q
      <3> QED BY <3>1, <3>2 DEF HasQuantizer
    <2>5. 0 \in 0 .. Share * LUT_ENTRY_NUM - 1
      <3>1. Share * LUT_ENTRY_NUM \in Nat \ {0}
        BY Sizes, Positive, Products
      <3> DEFINE z == Share * LUT_ENTRY_NUM
      <3>2. z \in Nat \ {0}
        BY <3>1
      <3> HIDE DEF z
      <3>3. 0 \in 0 .. z - 1
        BY <3>2
      <3> QED BY <3>3 DEF z
    <2>6. Past(r, 1, 0, 0) = 0 /\ 0 * Share = 0 /\ 0 * Column = 0
      BY Zero, Sizes
    <2> HIDE DEF q
    <2>7. PEInit(r, i, 0, 0, Local(p), 0, 0, 0, 0, 0, q, Unset, Unset)
      BY <2>2, <2>3, <2>4, <2>5, <2>6 DEF PEInit
    <2>8. PEBody(r, i, 0, 0, Local(p), 0, 0, 0, 0)
      BY <2>7, Zenon DEF PEAt, PEBody
    <2> QED BY <2>1, <2>8
  <1>6. ASSUME p = gather PROVE GatherBody(r, w, 0, 0, Local(p), rd, wr)
    <2>1. /\ \A i \in PE : rd[s_partial_distance_LUT(i)] = 0
          /\ wr[s_distance_LUT_buffer] = 0
      BY <1>0, PEWiring, Wiring, NotGiven
    <2>2. Past(r, LUT_ENTRY_NUM, 0, 0) = 0 /\ Spot(r, LUT_ENTRY_NUM, 0, 0)
      BY Zero, Positive
    <2>3. 0 \in 0 .. PerPE - 1 /\ 0 * SUB_PE_NUM = 0 /\ 0 * PerPE + 0 = 0 /\ \A m \in 1 .. 0 : FALSE
      BY Sizes, Positive
    <2>4. Local(p) = [pos |-> 0, row |-> none]
      BY <1>6, Locals
    <2> HIDE DEF none
    <2>5. GatherAt(r, w, 0, 0, Local(p), rd, wr, 0, 0, none)
      BY <1>1, <2>1, <2>2, <2>3, <2>4 DEF GatherAt
    <2> QED BY <2>5 DEF GatherBody
  <1>7. ASSUME p = extra_FIFO PROVE ExtraBody(r, 0, Local(p), rd, wr)
    <2>1. /\ rd[s_distance_LUT_buffer] = 0 /\ wr[s_distance_LUT] = 0 /\ rd[s_distance_LUT] = 0
      BY <1>0, Wiring, NotGiven
    <2>2. Past(r, LUT_ENTRY_NUM, 0, 0) = 0 /\ Spot(r, LUT_ENTRY_NUM, 0, 0)
      BY Zero, Positive
    <2>3. Local(p) = [pos |-> 0]
      BY <1>7, Locals
    <2> QED BY <2>1, <2>2, <2>3 DEF ExtraBody
  <1> QED BY <1>3, <1>4, <1>5, <1>6, <1>7, Zenon DEF StageBody

\* The invariant holds at first.
LEMMA InitInv == Init => LUTInv
  <1> SUFFICES ASSUME Init PROVE LUTInv
    OBVIOUS
  <1>0. PICK r, w : r \in Requests /\ request = r /\ wraps = w
    BY DEF Init
  <1>1. /\ fifo = [c \in Stream |-> Input(c)]
        /\ left = [p \in Process |-> 0] /\ nprobe = [p \in Process |-> 0]
        /\ at = [p \in Process |-> Local(p)]
    BY DEF Init, FlowInit
  <1>2. \A c \in Stream :
          /\ IsSequence(Input(c)) /\ InOrder(History(r, w)[c], Input(c), 0)
          /\ c \notin Given => Input(c) = <<>>
          /\ c = s_batch_header(replicate) => Len(Input(c)) = BatchNum(r) + 1
          /\ c = s_product_quantizer_init => Len(Input(c)) = D * LUT_ENTRY_NUM
    BY <1>0, InputInOrder
  <1> DEFINE rd == [c \in Stream |-> 0]
             wr == [c \in Stream |-> Len(Input(c))]
  <1>3. Fresh(r, rd, wr)
    <2>1. \A c \in Stream \ Given : wr[c] = 0
      <3>1. Len(<<>>) = 0
        OBVIOUS
      <3> QED BY <1>2, <3>1
    <2>2. \A c \in Stream : rd[c] = 0
      OBVIOUS
    <2>3. /\ wr[s_batch_header(replicate)] = BatchNum(r) + 1
          /\ wr[s_product_quantizer_init] = D * LUT_ENTRY_NUM
      BY <1>2, Wiring, HeaderWiring
    <2> HIDE DEF rd, wr
    <2> QED BY <2>1, <2>2, <2>3 DEF Fresh
  <1>4. FlowInv(History(r, w), Stream, rd, wr)
    <2>1. ASSUME NEW c \in Stream
          PROVE  /\ rd[c] \in Nat /\ wr[c] \in Nat
                 /\ IsSequence(fifo[c]) /\ wr[c] = rd[c] + Len(fifo[c])
                 /\ InOrder(History(r, w)[c], fifo[c], rd[c])
      <3> DEFINE s == Input(c)
      <3>1. fifo[c] = s /\ rd[c] = 0 /\ wr[c] = Len(s)
        BY <1>1
      <3>2. IsSequence(s) /\ InOrder(History(r, w)[c], s, 0)
        BY <1>2
      <3> HIDE DEF s, rd, wr
      <3>3. Len(s) \in Nat
        BY <3>2, Sequences
      <3> QED BY <3>1, <3>2, <3>3
    <2>2. DOMAIN fifo = Stream
      BY <1>1
    <2> HIDE DEF rd, wr
    <2> QED BY <2>1, <2>2 DEF FlowInv
  <1> HIDE DEF rd, wr
  <1>5. ASSUME NEW p \in Process
        PROVE  ProcessInv(r, w, p, left[p], nprobe[p], at[p], rd, wr)
    <2>1. left[p] = 0 /\ nprobe[p] = 0 /\ at[p] = Local(p)
      BY <1>1
    <2>2. \A c \in Stream : rd[c] = 0 /\ (c \notin Given => wr[c] = 0)
      BY <1>3 DEF Fresh
    <2>3. ASSUME p = quantizer PROVE QuantizerBody(Local(p), rd, wr)
      <3>1. \A i \in PE : wr[s_product_quantizer_init_sub_PE(i)] = Dealt(0, i)
        <4>1. \A i \in PE : wr[s_product_quantizer_init_sub_PE(i)] = 0
          BY <2>2, PEWiring, NotGiven
        <4> QED BY <1>0, <4>1, Zero
      <3>2. rd[s_product_quantizer_init] = 0
        BY <2>2, Wiring
      <3>3. wr[s_product_quantizer_init] = D * LUT_ENTRY_NUM
        BY <1>3 DEF Fresh
      <3>4. Local(p) = [pos |-> 0]
        BY <2>3, Locals
      <3> QED BY <3>1, <3>2, <3>3, <3>4 DEF QuantizerBody
    <2>4. ASSUME p = replicate
          PROVE  /\ wr[s_batch_header(replicate)] = BatchNum(r) + 1
                 /\ \A q \in Stages : wr[s_batch_header(q)] = rd[s_batch_header(replicate)]
      <3>1. wr[s_batch_header(replicate)] = BatchNum(r) + 1
        BY <1>3 DEF Fresh
      <3>2. rd[s_batch_header(replicate)] = 0 /\ \A q \in Stages : wr[s_batch_header(q)] = 0
        BY <2>2, HeaderWiring, NotGiven
      <3> QED BY <3>1, <3>2
    <2>5. ASSUME p \in Stages PROVE StageInv(r, w, p, 0, 0, Local(p), rd, wr)
      <3>1. StageBody(r, w, p, 0, 0, Local(p), rd, wr)
        BY <1>0, <1>3, <2>5, FreshBody
      <3>2. rd[s_batch_header(p)] = 0 /\ Serves(r, 0, 0, 0, 0)
        BY <1>0, <2>2, <2>5, HeaderWiring, Zero
      <3> QED BY <3>1, <3>2 DEF StageInv
    <2> QED BY <2>1, <2>3, <2>4, <2>5, Zenon DEF ProcessInv
  <1>6. DOMAIN at = Process /\ DOMAIN left = Process /\ DOMAIN nprobe = Process
    BY <1>1
  <1>7. At(r, w, rd, wr)
    BY <1>0, <1>4, <1>5, <1>6 DEF At
  <1> QED BY <1>7 DEF LUTInv

\* Every step keeps the invariant.
LEMMA NextInv == LUTInv /\ [Next]_vars => LUTInv'
  <1> SUFFICES ASSUME LUTInv, [Next]_vars PROVE LUTInv'
    OBVIOUS
  <1>0. PICK r, w, rd, wr : At(r, w, rd, wr)
    BY DEF LUTInv
  <1>1. ASSUME UNCHANGED vars PROVE LUTInv'
    <2>1. /\ fifo' = fifo /\ left' = left /\ nprobe' = nprobe /\ at' = at
          /\ request' = request /\ wraps' = wraps
      BY <1>1 DEF vars, flowVars
    <2>2. At(r, w, rd, wr)'
      BY <1>0, <2>1 DEF At, FlowInv
    <2> QED BY <2>2 DEF LUTInv
  <1>2. CASE Control
    <2>1. UNCHANGED at /\ Same
      BY <1>2 DEF Control
    <2>2. CASE replicate_s_batch_header(replicate, Stages)
      BY <1>0, <2>1, <2>2, ReplicateStep
    <2>3. ASSUME NEW p \in Stages, Loaded(p), read_header(p) PROVE LUTInv'
      BY <1>0, <2>1, <2>3, HeaderStep
    <2> QED BY <1>2, <2>2, <2>3 DEF Control
  <1>3. CASE product_quantizer_dispatcher
    BY <1>0, <1>3, QuantizerStep
  <1>4. CASE query_vector_dispatcher
    BY <1>0, <1>4, QueryLoadStep, QueryDealStep DEF query_vector_dispatcher
  <1>5. CASE center_vector_dispatcher
    BY <1>0, <1>5, CenterLoadStep, CenterDealStep DEF center_vector_dispatcher
  <1>6. ASSUME NEW i \in PE, LUT_construction_sub_PE(i) PROVE LUTInv'
    <2>1. CASE sub_quantizer(i)
      BY <1>0, <2>1, QuantizerReadStep
    <2>2. CASE sub_query_vector(i)
      BY <1>0, <2>2, QueryReadStep
    <2>3. CASE sub_residual_vector(i)
      BY <1>0, <2>3, ResidualReadStep
    <2>4. CASE partial_distance(i)
      BY <1>0, <2>4, DistanceStep
    <2> QED BY <1>6, <2>1, <2>2, <2>3, <2>4 DEF LUT_construction_sub_PE
  <1>7. CASE gather_LUT_results
    BY <1>0, <1>7, GatherStep
  <1>8. CASE extra_LUT_FIFO
    BY <1>0, <1>8, ExtraStep
  <1>9. CASE Finished
    BY <1>1, <1>9 DEF Finished
  <1> QED BY <1>1, <1>2, <1>3, <1>4, <1>5, <1>6, <1>7, <1>8, <1>9 DEF Next, Body

-----------------------------------------------------------------------------
(* The rows that leave. *)

\* The table of probed cell g.
TableOf(r, g) == [query |-> QueryVector(Probe(r)[g][1]), center |-> CenterVector(r, g)]

\* The tables, in closed form.
LEMMA TablesAre ==
  ASSUME NEW r \in Requests, request = r, NEW g \in 1 .. ProbeNum(r)
  PROVE  Tables[g] = TableOf(r, g)
  <1> DEFINE N == QueryNum(r)
             np == ProbesOf(r)
             T == ProbeTotal(r)
             inner(n) == [k \in DOMAIN Centers(n) |-> [query |-> Vectors(n), center |-> Centers(n)[k]]]
             seqs == [n \in 1 .. N |-> inner(n)]
             cell(n, k) == [query |-> <<"query", n>>, center |-> <<"center", n, k>>]
             A == {cell(n, k) : n \in Nat, k \in Nat}
             num == PairsOf(N, np)
  <1>1. N \in Nat /\ Queries = 1 .. N /\ QueryProbes = np /\ \A n \in 1 .. N : np[n] \in Nat \ {0}
    BY QueryFacts DEF Queries, QueryProbes, ProbesOf
  <1>2. ASSUME NEW n \in 1 .. N PROVE inner(n) = [k \in 1 .. np[n] |-> cell(n, k)]
    <2>1. Centers(n) = [k \in 1 .. np[n] |-> <<"center", n, k>>]
      BY <1>1 DEF Centers
    <2>2. DOMAIN Centers(n) = 1 .. np[n]
          /\ \A k \in 1 .. np[n] : Centers(n)[k] = <<"center", n, k>>
      BY <2>1
    <2> QED BY <2>2 DEF Vectors
  <1>3. Tables = FlattenSeq(seqs)
    BY <1>1 DEF Tables
  <1>4. \A n \in 1 .. N : seqs[n] = inner(n)
    OBVIOUS
  <1>5. seqs = [n \in 1 .. N |-> seqs[n]]
    OBVIOUS
  <1> HIDE DEF inner, seqs
  <1>6. ASSUME NEW n \in 1 .. N
        PROVE  /\ seqs[n] \in Seq(A) /\ Len(seqs[n]) = np[n]
               /\ \A k \in 1 .. np[n] : seqs[n][k] = cell(n, k)
    <2> DEFINE m == np[n]
    <2>0. inner(n) = [k \in 1 .. m |-> cell(n, k)] /\ m \in Nat /\ n \in Nat
      BY <1>1, <1>2
    <2>1. seqs[n] = [k \in 1 .. m |-> cell(n, k)]
      BY <1>4, <2>0
    <2>2. \A k \in Nat : cell(n, k) \in A
      <3> HIDE DEF cell
      <3> QED BY <2>0
    <2> HIDE DEF m, cell, A
    <2>3. [k \in 1 .. m |-> cell(n, k)] \in Seq(A)
      BY <2>0, <2>2
    <2> QED BY <2>0, <2>1, <2>3 DEF m
  <1> HIDE DEF A, cell
  <1>7. seqs \in [1 .. N -> Seq(A)] /\ \A j \in 1 .. N : np[j] = Len(seqs[j])
    <2>1. \A n \in 1 .. N : seqs[n] \in Seq(A) /\ np[n] = Len(seqs[n])
      BY <1>6
    <2> HIDE DEF N, np
    <2> QED BY <1>5, <2>1
  <1>8. IsTotal(T, N, np) /\ ProbeNum(r) = T[N] /\ num = Probe(r)
    BY ProbeFacts DEF ProbeNum, Probe
  <1> HIDE DEF N, np, T, num
  <1>9. Flattened(Tables, A, N, seqs, T)
    <2>1. Flattened(FlattenSeq(seqs), A, N, seqs, T)
      BY <1>1, <1>7, <1>8, FlattenTotal
    <2> QED BY <1>3, <2>1
  <1>10. Counting(T, N, np, num)
    BY <1>1, <1>8, TotalCounts DEF num
  <1>11. PICK n \in 1 .. N : \E k \in 1 .. np[n] : g = T[n - 1] + k
    BY <1>8, <1>10 DEF Counting
  <1>12. PICK k \in 1 .. np[n] : g = T[n - 1] + k
    BY <1>11
  <1>13. Tables[g] = seqs[n][k]
    <2>1. k \in 1 .. Len(seqs[n])
      BY <1>7, <1>12
    <2>2. Tables[T[n - 1] + k] = seqs[n][k]
      BY <1>9, <2>1 DEF Flattened
    <2> QED BY <1>12, <2>2
  <1>14. Probe(r)[g] = <<n, k>>
    BY <1>8, <1>10, <1>12 DEF Counting
  <1>15. seqs[n][k] = cell(n, k)
    BY <1>6, <1>12
  <1> QED BY <1>13, <1>14, <1>15 DEF TableOf, cell, QueryVector, CenterVector

\* No more rows are out than the probed cells have.
LEMMA RowsOut ==
  ASSUME NEW r, NEW w, NEW rd, NEW wr, At(r, w, rd, wr)
  PROVE  /\ wr[s_distance_LUT] <= ProbeNum(r) * LUT_ENTRY_NUM
         /\ rd[s_distance_LUT] = 0
  <1> DEFINE h == rd[s_batch_header(extra_FIFO)]
             lf == left[extra_FIFO]
             np == nprobe[extra_FIFO]
             L == LUT_ENTRY_NUM
  <1>1. r \in Requests /\ extra_FIFO \in Stages /\ L \in Nat \ {0}
    BY StagesAre, Positive DEF At
  <1>2. PICK n : /\ Serves(r, h, lf, np, n)
                 /\ StageBody(r, w, extra_FIFO, n, lf, at[extra_FIFO], rd, wr)
    BY <1>1, StageAt
  <1>3. ExtraBody(r, n, at[extra_FIFO], rd, wr)
    BY <1>2, Bodies
  <1>4. PICK x : /\ Spot(r, L, n, x) /\ wr[s_distance_LUT] = Past(r, L, n, x)
                 /\ rd[s_distance_LUT] = 0
    BY <1>3 DEF ExtraBody
  <1> HIDE DEF h, lf, np, L
  <1>5. Served(r, h, lf, np, n)
    BY <1>1, <1>2, Serving
  <1> DEFINE P == ProbeTotal(r)
             PN == ProbeNum(r)
  <1>6. n \in 0 .. QueryNum(r) /\ P[n] \in 0 .. PN /\ PN \in Nat /\ QueryNum(r) \in Nat
    BY <1>5 DEF Served
  <1>7. \A u, v \in Nat : u <= v => u * L <= v * L
    <2> TAKE u, v \in Nat
    <2> HAVE u <= v
    <2>1. (v - u) * L >= 0 /\ (v - u) * L = v * L - u * L
      BY <1>1
    <2> QED BY <1>1, <2>1
  <1>8. CASE x = 0
    <2>1. P[n] * L <= PN * L /\ P[n] * L \in Nat
      BY <1>1, <1>6, <1>7, Products
    <2> DEFINE a == P[n] * L
    <2>2. Past(r, L, n, x) = a + 0
      BY <1>8 DEF Past
    <2> HIDE DEF a
    <2>3. a + 0 = a
      BY <2>1 DEF a
    <2> QED BY <1>4, <2>1, <2>2, <2>3 DEF a, L
  <1>9. CASE x # 0
    <2> DEFINE q == ProbesOf(r)[n + 1]
    <2>1. n \in 0 .. QueryNum(r) - 1 /\ x \in 1 .. q * L - 1
      BY <1>4, <1>9 DEF Spot
    <2>2. /\ q \in Nat \ {0} /\ P[n + 1] = P[n] + q /\ P[n + 1] \in 0 .. PN
      <3>1. n + 1 \in 1 .. QueryNum(r) /\ (n + 1) - 1 = n
        BY <1>6, <2>1
      <3>2. P[n + 1] = P[(n + 1) - 1] + q /\ q \in Nat \ {0} /\ n + 1 \in 0 .. QueryNum(r)
        BY <1>1, <3>1, QueryFacts, ProbeFacts
      <3> QED BY <1>1, <3>1, <3>2, ProbeFacts
    <2> DEFINE a == P[n] * L
               b == q * L
               c == PN * L
               d == P[n + 1]
    <2>3. a \in Nat /\ b \in Nat /\ c \in Nat
      BY <1>1, <1>6, <2>2, Products
    <2>4. Past(r, L, n, x) = a + x
      BY DEF Past
    <2> HIDE DEF q, P, PN, d
    <2>5. a + b <= c
      <3>1. d * L <= PN * L /\ d = P[n] + q /\ d \in Nat /\ P[n] \in Nat
        BY <1>6, <1>7, <2>2 DEF d
      <3>2. (P[n] + q) * L = P[n] * L + q * L
        BY <1>1, <2>2, <3>1
      <3> QED BY <3>1, <3>2
    <2>6. x \in 1 .. b - 1
      BY <2>1
    <2> HIDE DEF a, b, c
    <2>7. a + x <= c
      BY <2>3, <2>5, <2>6
    <2> QED BY <1>4, <2>4, <2>7 DEF c, PN, L
  <1> QED BY <1>4, <1>8, <1>9

\* Row x, counted from 0, has the distances of its table.
RowOfTable(row, x, m) ==
  row[m + 1] = Distance(Tables[x \div LUT_ENTRY_NUM + 1], x % LUT_ENTRY_NUM, m)

\* So have the rows of the streams.
LEMMA RowFilled ==
  ASSUME NEW r \in Requests, NEW w, request = r, NEW x \in Nat,
         x < ProbeNum(r) * LUT_ENTRY_NUM,
         NEW m \in 0 .. M - 1, m < SUB_PE_NUM \/ w
  PROVE  RowOfTable(RowOf(r, w, x), x, m)
  <1> DEFINE L == LUT_ENTRY_NUM
             q == x \div L
             k == x % L
             g == q + 1
  <1>1. L \in Nat \ {0} /\ ProbeNum(r) \in Nat /\ M \in Nat
    BY Positive, ProbeFacts
  <1>2. q \in Nat /\ q < ProbeNum(r)
    <2> DEFINE K == ProbeNum(r)
    <2>1. K \in Nat /\ x < K * L
      BY <1>1
    <2> HIDE DEF K, L
    <2>2. x \div L \in Nat /\ x \div L < K
      BY <1>1, <2>1, Quotient
    <2> QED BY <2>2 DEF K
  <1> HIDE DEF q, k, L
  <1>3. g \in 1 .. ProbeNum(r)
    BY <1>1, <1>2
  <1>4. RowOf(r, w, x)[m + 1] = Part(r, w, g, k, m)
    <2>1. m + 1 \in 1 .. M /\ (m + 1) - 1 = m
      BY <1>1
    <2> QED BY <2>1 DEF RowOf, q, k, L
  <1>5. Part(r, w, g, k, m) = DistanceOf(r, g, k, m)
    BY DEF Part
  <1> HIDE DEF g
  <1>6. Tables[g] = TableOf(r, g)
    BY <1>3, TablesAre
  <1>7. Distance(Tables[g], k, m) = DistanceOf(r, g, k, m)
    <2>1. PICK t : t = Tables[g]
      OBVIOUS
    <2> DEFINE u == QueryVector(Probe(r)[g][1])
               v == CenterVector(r, g)
    <2>2. t = [query |-> u, center |-> v]
      BY <1>6, <2>1 DEF TableOf
    <2>3. DistanceOf(r, g, k, m) =
            {<<<<<<u, m * SubDim + j>>, <<v, m * SubDim + j>>>>, Quantizer(m, k, j)>> :
               j \in 0 .. SubDim - 1}
      BY DEF DistanceOf
    <2> HIDE DEF u, v
    <2>4. t.query = u /\ t.center = v
      BY <2>2
    <2>5. Distance(t, k, m) = DistanceOf(r, g, k, m)
      BY <2>3, <2>4 DEF Distance
    <2> QED BY <2>1, <2>5
  <1> QED BY <1>4, <1>5, <1>7 DEF RowOfTable, g, q, k, L

\* The invariant says what the rows are.
LEMMA RowsMatch == LUTInv => RowsAreDistances
  <1> SUFFICES ASSUME LUTInv,
                      NEW x \in DOMAIN fifo[s_distance_LUT], NEW m \in 0 .. M - 1,
                      m < SUB_PE_NUM \/ wraps
               PROVE  fifo[s_distance_LUT][x][m + 1]
                        = Distance(Tables[(x - 1) \div LUT_ENTRY_NUM + 1],
                                   (x - 1) % LUT_ENTRY_NUM, m)
    BY DEF RowsAreDistances
  <1>0. PICK r, w, rd, wr : At(r, w, rd, wr)
    BY DEF LUTInv
  <1> DEFINE c == s_distance_LUT
             K == ProbeNum(r) * LUT_ENTRY_NUM
             F == History(r, w)[c]
  <1>1. r \in Requests /\ request = r /\ wraps = w /\ FlowInv(History(r, w), Stream, rd, wr)
    BY <1>0 DEF At
  <1>2. /\ wr[c] <= K /\ rd[c] = 0 /\ K \in Nat
    BY <1>0, <1>1, RowsOut, Positive, ProbeFacts, Products
  <1>3. /\ IsSequence(fifo[c]) /\ wr[c] = rd[c] + Len(fifo[c]) /\ InOrder(F, fifo[c], rd[c])
    BY <1>1, Wiring DEF FlowInv
  <1>4. Len(fifo[c]) \in Nat /\ DOMAIN fifo[c] = 1 .. Len(fifo[c])
    BY <1>3, Sequences
  <1>5. fifo[c][x] = F[rd[c] + x] /\ x \in 1 .. Len(fifo[c])
    BY <1>3, <1>4 DEF InOrder
  <1> HIDE DEF c, K, F
  <1>6. x \in Nat /\ x - 1 \in Nat /\ x - 1 < K /\ rd[c] + x = x
    BY <1>2, <1>3, <1>4, <1>5 DEF c
  <1>7. F[x] = RowOf(r, w, x - 1)
    BY <1>6, Values DEF F, c
  <1> DEFINE y == x - 1
  <1>8. y \in Nat /\ y < ProbeNum(r) * LUT_ENTRY_NUM
    BY <1>6 DEF K
  <1>9. fifo[s_distance_LUT][x] = RowOf(r, w, y)
    BY <1>5, <1>6, <1>7 DEF c
  <1> HIDE DEF y
  <1>10. RowOfTable(RowOf(r, w, y), y, m)
    <2>1. r \in Requests /\ request = r /\ (m < SUB_PE_NUM \/ w)
      BY <1>1
    <2> QED BY <1>8, <2>1, RowFilled
  <1> QED BY <1>9, <1>10 DEF RowOfTable, y

-----------------------------------------------------------------------------
(* What holds of every behaviour. *)

\* The invariant: every process is where the values it has read and written
\* put it, and every stream holds the next of its values, in order.
THEOREM LUTInvariant == Spec => []LUTInv
  <1> QED BY InitInv, NextInv, PTL DEF Spec

\* The rows leave table by table, each with the distances of its query and
\* centre, in whatever order the PEs run (gather_LUT_results and
\* LUT_construction_sub_PE, LUT_construction.hpp).
THEOREM RowsAreDistancesHolds == Spec => []RowsAreDistances
  <1> QED BY LUTInvariant, RowsMatch, PTL
================================================================================
