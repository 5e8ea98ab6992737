------------------------------ MODULE Scan_proofs ------------------------------
(***************************************************************************)
(* The front end of the accelerator, for any input, stream depths, numbers *)
(* of banks, PEs and table rows, and sizes of the cells.  The input fixes  *)
(* what passes through every stream and in which order, however the        *)
(* processes interleave (History); what remains is how far each of them    *)
(* has come.  In this order:                                               *)
(*   1. the input in numbers: batches, queries, probed cells, rounds, rows;*)
(*   2. the words of the network stream;                                   *)
(*   3. the history of each stream, its reader and its writer;             *)
(*   4. where a process is, given how many values it has read and written  *)
(*      (ProcessInv), and that others' steps do not move it (Frame);       *)
(*   5. the invariant (ScanInv), and one lemma per action;                 *)
(*   6. what the results then say.                                         *)
(***************************************************************************)
EXTENDS Scan, DataflowLemmas, FiniteSetTheorems

-----------------------------------------------------------------------------
(* The input in numbers.  Queries are numbered through all batches, probed  *)
(* cells through all queries, rounds and table rows through all probed      *)
(* cells; a total counts those up to a batch, a query, a probed cell.       *)

BatchNum(r) == Len(r.batches)
Size(r, b) == IF b \in 1 .. BatchNum(r) THEN Len(r.batches[b].queries) ELSE 0
NProbe(r, b) == r.batches[b].nprobe
HeaderOf(r, b) == IF b \in 1 .. BatchNum(r) THEN Header(Size(r, b), NProbe(r, b)) ELSE TerminateHeader

\* Queries.
QueryLens(r) == [b \in 1 .. BatchNum(r) + 1 |-> Size(r, b)]
QueryTotal(r) == Total(BatchNum(r) + 1, QueryLens(r))
QueryNum(r) == QueryTotal(r)[BatchNum(r)]
Query(r) == PairsOf(BatchNum(r), QueryLens(r))
CellsOf(r, n) == r.batches[Query(r)[n][1]].queries[Query(r)[n][2]]

\* Probed cells.
ProbeLens(r) == [n \in 1 .. QueryNum(r) |-> Len(CellsOf(r, n))]
ProbeTotal(r) == Total(QueryNum(r), ProbeLens(r))
ProbeNum(r) == ProbeTotal(r)[QueryNum(r)]
Probe(r) == PairsOf(QueryNum(r), ProbeLens(r))
CellAt(r, g) == CellsOf(r, Probe(r)[g][1])[Probe(r)[g][2]]
Row(r, g) == [query |-> QueryWord(Query(r)[Probe(r)[g][1]][1], Query(r)[Probe(r)[g][1]][2]),
              center |-> CenterWord(Query(r)[Probe(r)[g][1]][1], Query(r)[Probe(r)[g][1]][2],
                                    Probe(r)[g][2])]

\* Rounds and rows.
Entries(r, g) == scanned_entries_every_cell(num_vecs[CellAt(r, g)])
EntryLens(r) == [g \in 1 .. ProbeNum(r) |-> Entries(r, g)]
EntryTotal(r) == Total(ProbeNum(r), EntryLens(r))
Round(r) == PairsOf(ProbeNum(r), EntryLens(r))
RowLens(r) == [g \in 1 .. ProbeNum(r) |-> LUT_ENTRY_NUM]
RowTotal(r) == Total(ProbeNum(r), RowLens(r))
RowNumber(r) == PairsOf(ProbeNum(r), RowLens(r))

\* The sizes of the circuit.
LEMMA Positive ==
  /\ DDR_BANK_NUM \in Nat \ {0} /\ ADC_PE_PER_CHANNEL \in Nat \ {0} /\ LUT_ENTRY_NUM \in Nat \ {0}
  /\ CELLS_PER_WORD \in Nat \ {0} /\ nlist \in Nat \ {0} /\ ADC_PE_NUM \in Nat \ {0}
  <1>1. /\ DDR_BANK_NUM \in Nat \ {0} /\ ADC_PE_PER_CHANNEL \in Nat \ {0}
        /\ LUT_ENTRY_NUM \in Nat \ {0} /\ CELLS_PER_WORD \in Nat \ {0} /\ nlist \in Nat \ {0}
    BY ScanAssumption
  <1>2. \A x, y \in Nat \ {0} : x * y \in Nat \ {0}
    OBVIOUS
  <1> QED BY <1>1, <1>2 DEF ADC_PE_NUM

\* The batches of an input: their queries, and the cells these probe.
LEMMA Batches ==
  ASSUME NEW r \in Requests
  PROVE  /\ BatchNum(r) \in Nat /\ DOMAIN r.batches = 1 .. BatchNum(r)
         /\ \A b : Size(r, b) \in Nat
         /\ \A b \in 1 .. BatchNum(r) :
              /\ NProbe(r, b) \in Nat \ {0} /\ DOMAIN r.batches[b].queries = 1 .. Size(r, b)
              /\ \A q \in 1 .. Size(r, b) : /\ r.batches[b].queries[q] \in Seq(Cell)
                                            /\ Len(r.batches[b].queries[q]) = NProbe(r, b)
  <1>1. /\ r.batches \in Seq([nprobe : Nat \ {0}, queries : Seq(Seq(Cell))])
        /\ \A b \in DOMAIN r.batches : \A q \in DOMAIN r.batches[b].queries :
             Len(r.batches[b].queries[q]) = r.batches[b].nprobe
    BY ScanAssumption
  <1>2. BatchNum(r) \in Nat /\ DOMAIN r.batches = 1 .. BatchNum(r)
    BY <1>1 DEF BatchNum
  <1>3. ASSUME NEW b \in 1 .. BatchNum(r)
        PROVE  /\ NProbe(r, b) \in Nat \ {0} /\ Size(r, b) \in Nat
               /\ DOMAIN r.batches[b].queries = 1 .. Size(r, b)
               /\ \A q \in 1 .. Size(r, b) : /\ r.batches[b].queries[q] \in Seq(Cell)
                                             /\ Len(r.batches[b].queries[q]) = NProbe(r, b)
    <2> DEFINE R == [nprobe : Nat \ {0}, queries : Seq(Seq(Cell))]
    <2>3. \A x : x \in R => x.nprobe \in Nat \ {0} /\ x.queries \in Seq(Seq(Cell))
      OBVIOUS
    <2> HIDE DEF R
    <2>1. r.batches[b] \in R
      <3>1. r.batches \in Seq(R) /\ b \in 1 .. Len(r.batches)
        BY <1>1 DEF R, BatchNum
      <3> QED BY <3>1
    <2>2. r.batches[b].nprobe \in Nat \ {0} /\ r.batches[b].queries \in Seq(Seq(Cell))
      BY <2>1, <2>3
    <2>4. Size(r, b) = Len(r.batches[b].queries) /\ NProbe(r, b) = r.batches[b].nprobe
      BY DEF Size, NProbe
    <2>5. /\ Len(r.batches[b].queries) \in Nat
          /\ DOMAIN r.batches[b].queries = 1 .. Len(r.batches[b].queries)
          /\ \A q \in 1 .. Len(r.batches[b].queries) : r.batches[b].queries[q] \in Seq(Cell)
      BY <2>2
    <2>6. \A q \in 1 .. Len(r.batches[b].queries) :
            Len(r.batches[b].queries[q]) = r.batches[b].nprobe
      BY <1>1, <1>2, <2>5
    <2> QED BY <2>2, <2>4, <2>5, <2>6, Zenon
  <1>4. \A b : b \notin 1 .. BatchNum(r) => Size(r, b) \in Nat
    BY DEF Size
  <1> QED BY <1>2, <1>3, <1>4

\* A query of a batch: its number, its cells.
LEMMA QueryFacts ==
  ASSUME NEW r \in Requests
  PROVE  /\ QueryTotal(r)[0] = 0 /\ QueryNum(r) \in Nat
         /\ \A b \in 0 .. BatchNum(r) + 1 : QueryTotal(r)[b] \in 0 .. QueryNum(r)
         /\ \A b \in 1 .. BatchNum(r) + 1 : QueryTotal(r)[b] = QueryTotal(r)[b - 1] + Size(r, b)
         /\ \A b \in 1 .. BatchNum(r) : \A q \in 1 .. Size(r, b) :
              /\ QueryTotal(r)[b - 1] + q \in 1 .. QueryNum(r)
              /\ Query(r)[QueryTotal(r)[b - 1] + q] = <<b, q>>
         /\ \A n \in 1 .. QueryNum(r) : \E b \in 1 .. BatchNum(r) : \E q \in 1 .. Size(r, b) :
              n = QueryTotal(r)[b - 1] + q
         /\ Len(Query(r)) = QueryNum(r)
  <1> DEFINE B == BatchNum(r)
             len == QueryLens(r)
             T == QueryTotal(r)
  <1>1. B \in Nat /\ B + 1 \in Nat /\ \A b : Size(r, b) \in Nat
    BY Batches
  <1>2. \A b \in 1 .. B + 1 : len[b] = Size(r, b)
    BY DEF QueryLens
  <1> DEFINE num == Query(r)
  <1>3. T = Total(B + 1, len) /\ num = PairsOf(B, len)
    BY DEF QueryTotal, Query
  <1>4. Size(r, B + 1) = 0
    BY <1>1 DEF Size
  <1>9. QueryNum(r) = T[B]
    BY DEF QueryNum
  <1>15. \A b \in 1 .. B : b \in 1 .. BatchNum(r)
    OBVIOUS
  <1>16. Size(r, B + 1) = 0 /\ B + 1 \in 1 .. B + 1 /\ (B + 1) - 1 = B /\ B \in 0 .. B + 1
    BY <1>1, <1>4
  <1> HIDE DEF B, len, T, num
  <1>5. /\ T[0] = 0 /\ \A j \in 0 .. B + 1 : T[j] \in Nat
        /\ \A i, j \in 0 .. B + 1 : i <= j => T[i] <= T[j]
        /\ \A j \in 1 .. B + 1 : T[j] = T[j - 1] + len[j]
    <2>1. Counting(T, B + 1, len, PairsOf(B + 1, len))
      BY <1>1, <1>2, <1>3, TotalFacts
    <2> QED BY <2>1 DEF Counting
  <1>6. IsTotal(T, B, len)
    BY <1>1, <1>2, <1>5 DEF IsTotal
  <1>7. /\ \A x \in 1 .. T[B] : \E j \in 1 .. B : \E k \in 1 .. len[j] : x = T[j - 1] + k
        /\ Len(num) = T[B]
        /\ \A j \in 1 .. B : \A k \in 1 .. len[j] :
             T[j - 1] + k \in 1 .. T[B] /\ num[T[j - 1] + k] = <<j, k>>
    <2>1. Counting(T, B, len, num)
      BY <1>1, <1>3, <1>6, TotalCounts
    <2> QED BY <2>1 DEF Counting
  <1>10. \A b \in 0 .. B + 1 : T[b] \in 0 .. T[B]
    <2>1. T[B + 1] = T[B]
      <3>1. T[B + 1] = T[(B + 1) - 1] + len[B + 1] /\ len[B + 1] = 0 /\ T[B] \in Nat
        BY <1>2, <1>5, <1>16
      <3> QED BY <1>16, <3>1
    <2> QED BY <1>1, <1>5, <1>16, <2>1
  <1>11. \A b \in 1 .. B : len[b] = Size(r, b) /\ b \in 1 .. B + 1
    BY <1>1, <1>2
  <1>12. /\ T[0] = 0 /\ T[B] \in Nat
         /\ \A b \in 1 .. B + 1 : T[b] = T[b - 1] + Size(r, b)
    BY <1>1, <1>2, <1>5
  <1>13. \A b \in 1 .. B : \A q \in 1 .. Size(r, b) :
           T[b - 1] + q \in 1 .. T[B] /\ num[T[b - 1] + q] = <<b, q>>
    BY <1>7, <1>11
  <1>14. \A n \in 1 .. T[B] : \E b \in 1 .. B : \E q \in 1 .. Size(r, b) : n = T[b - 1] + q
    BY <1>7, <1>11
  <1> QED BY <1>7, <1>9, <1>10, <1>12, <1>13, <1>14 DEF B, T, num

\* The cells it probes.
LEMMA CellsFacts ==
  ASSUME NEW r \in Requests, NEW n \in 1 .. QueryNum(r)
  PROVE  CellsOf(r, n) \in Seq(Cell) /\ Len(CellsOf(r, n)) \in Nat \ {0}
  <1>a. PICK b \in 1 .. BatchNum(r) : \E q \in 1 .. Size(r, b) : n = QueryTotal(r)[b - 1] + q
    BY QueryFacts
  <1>1. PICK q \in 1 .. Size(r, b) : n = QueryTotal(r)[b - 1] + q
    BY <1>a
  <1>2. Query(r)[n] = <<b, q>>
    BY <1>1, QueryFacts
  <1>3. CellsOf(r, n) = r.batches[b].queries[q]
    BY <1>2 DEF CellsOf
  <1>4. r.batches[b].queries[q] \in Seq(Cell) /\ Len(r.batches[b].queries[q]) = NProbe(r, b)
        /\ NProbe(r, b) \in Nat \ {0}
    BY Batches
  <1> QED BY <1>3, <1>4

\* A probed cell: its number, its query.
LEMMA ProbeFacts ==
  ASSUME NEW r \in Requests
  PROVE  /\ ProbeTotal(r)[0] = 0 /\ ProbeNum(r) \in Nat
         /\ \A n \in 0 .. QueryNum(r) : ProbeTotal(r)[n] \in 0 .. ProbeNum(r)
         /\ \A m, n \in 0 .. QueryNum(r) : m <= n => ProbeTotal(r)[m] <= ProbeTotal(r)[n]
         /\ \A n \in 1 .. QueryNum(r) : ProbeTotal(r)[n] = ProbeTotal(r)[n - 1] + Len(CellsOf(r, n))
         /\ \A n \in 1 .. QueryNum(r) : \A k \in 1 .. Len(CellsOf(r, n)) :
              /\ ProbeTotal(r)[n - 1] + k \in 1 .. ProbeNum(r)
              /\ Probe(r)[ProbeTotal(r)[n - 1] + k] = <<n, k>>
         /\ \A g \in 1 .. ProbeNum(r) : \E n \in 1 .. QueryNum(r) :
              \E k \in 1 .. Len(CellsOf(r, n)) : g = ProbeTotal(r)[n - 1] + k
  <1> DEFINE N == QueryNum(r)
             len == ProbeLens(r)
             T == ProbeTotal(r)
             num == Probe(r)
  <1>1. N \in Nat /\ \A n \in 1 .. N : len[n] = Len(CellsOf(r, n)) /\ len[n] \in Nat
    BY QueryFacts, CellsFacts DEF ProbeLens
  <1>2. T = Total(N, len) /\ num = PairsOf(N, len)
    BY DEF ProbeTotal, Probe
  <1>3. ProbeNum(r) = T[N]
    BY DEF ProbeNum
  <1> HIDE DEF N, len, T, num
  <1>4. /\ T[0] = 0 /\ \A j \in 0 .. N : T[j] \in Nat
        /\ \A i, j \in 0 .. N : i <= j => T[i] <= T[j]
        /\ \A j \in 1 .. N : T[j] = T[j - 1] + len[j]
        /\ \A x \in 1 .. T[N] : \E j \in 1 .. N : \E k \in 1 .. len[j] : x = T[j - 1] + k
        /\ \A j \in 1 .. N : \A k \in 1 .. len[j] :
             T[j - 1] + k \in 1 .. T[N] /\ num[T[j - 1] + k] = <<j, k>>
    <2>1. Counting(T, N, len, num)
      BY <1>1, <1>2, TotalFacts
    <2> QED BY <2>1 DEF Counting
  <1>5. \A n \in 0 .. N : T[n] \in 0 .. T[N]
    BY <1>1, <1>4
  <1>6. T[N] \in Nat /\ \A n \in 1 .. N : T[n] = T[n - 1] + Len(CellsOf(r, n))
    BY <1>1, <1>4
  <1>7. \A n \in 1 .. N : \A k \in 1 .. Len(CellsOf(r, n)) :
          T[n - 1] + k \in 1 .. T[N] /\ num[T[n - 1] + k] = <<n, k>>
    BY <1>1, <1>4
  <1>8. \A g \in 1 .. T[N] : \E n \in 1 .. N :
          \E k \in 1 .. Len(CellsOf(r, n)) : g = T[n - 1] + k
    <2> TAKE g \in 1 .. T[N]
    <2>1. PICK n \in 1 .. N : \E k \in 1 .. len[n] : g = T[n - 1] + k
      BY <1>4
    <2>2. len[n] = Len(CellsOf(r, n))
      BY <1>1
    <2> QED BY <2>1, <2>2
  <1> QED BY <1>3, <1>4, <1>5, <1>6, <1>7, <1>8 DEF N, T, num

\* A probed cell: the query it belongs to, its rounds, the rows of its table.
LEMMA ProbedFacts ==
  ASSUME NEW r \in Requests, NEW g \in 1 .. ProbeNum(r)
  PROVE  CellAt(r, g) \in Cell /\ Entries(r, g) \in Nat
  <1>a. PICK n \in 1 .. QueryNum(r) :
          \E k \in 1 .. Len(CellsOf(r, n)) : g = ProbeTotal(r)[n - 1] + k
    BY ProbeFacts
  <1>1. PICK k \in 1 .. Len(CellsOf(r, n)) : g = ProbeTotal(r)[n - 1] + k
    BY <1>a
  <1>2. Probe(r)[g] = <<n, k>>
    BY <1>1, ProbeFacts
  <1>3. CellAt(r, g) = CellsOf(r, n)[k]
    BY <1>2 DEF CellAt
  <1>4. CellAt(r, g) \in Cell
    BY <1>3, CellsFacts
  <1>5. num_vecs[CellAt(r, g)] \in Nat
    BY <1>4, ScanAssumption
  <1>6. \A m \in Nat : (m + ADC_PE_NUM - 1) \div ADC_PE_NUM \in Nat
    <2> SUFFICES ASSUME NEW m \in Nat PROVE (m + ADC_PE_NUM - 1) \div ADC_PE_NUM \in Nat
      OBVIOUS
    <2> DEFINE k2 == m + ADC_PE_NUM - 1
    <2>1. k2 \in Nat /\ ADC_PE_NUM \in Nat \ {0}
      BY Positive
    <2> HIDE DEF k2
    <2>2. k2 \div ADC_PE_NUM \in Nat
      BY <2>1, Quotient
    <2> QED BY <2>2 DEF k2
  <1>7. Entries(r, g) \in Nat
    BY <1>5, <1>6 DEF Entries, scanned_entries_every_cell, Ceil
  <1> QED BY <1>4, <1>7

\* A round: its number, its probed cell.
LEMMA RoundFacts ==
  ASSUME NEW r \in Requests
  PROVE  /\ EntryTotal(r)[0] = 0 /\ \A g \in 0 .. ProbeNum(r) : EntryTotal(r)[g] \in Nat
         /\ \A f, g \in 0 .. ProbeNum(r) : f <= g => EntryTotal(r)[f] <= EntryTotal(r)[g]
         /\ \A g \in 1 .. ProbeNum(r) : EntryTotal(r)[g] = EntryTotal(r)[g - 1] + Entries(r, g)
         /\ \A g \in 1 .. ProbeNum(r) : \A k \in 1 .. Entries(r, g) :
              Round(r)[EntryTotal(r)[g - 1] + k] = <<g, k>>
         /\ \A x \in 1 .. EntryTotal(r)[ProbeNum(r)] : \E g \in 1 .. ProbeNum(r) :
              \E k \in 1 .. Entries(r, g) : x = EntryTotal(r)[g - 1] + k
  <1> DEFINE N == ProbeNum(r)
             len == EntryLens(r)
             T == EntryTotal(r)
             num == Round(r)
  <1>1. N \in Nat /\ \A g \in 1 .. N : len[g] = Entries(r, g) /\ len[g] \in Nat
    BY ProbeFacts, ProbedFacts DEF EntryLens
  <1>2. T = Total(N, len) /\ num = PairsOf(N, len)
    BY DEF EntryTotal, Round
  <1> HIDE DEF N, len, T, num
  <1>3. /\ T[0] = 0 /\ \A j \in 0 .. N : T[j] \in Nat
        /\ \A i, j \in 0 .. N : i <= j => T[i] <= T[j]
        /\ \A j \in 1 .. N : T[j] = T[j - 1] + len[j]
        /\ \A x \in 1 .. T[N] : \E j \in 1 .. N : \E k \in 1 .. len[j] : x = T[j - 1] + k
        /\ \A j \in 1 .. N : \A k \in 1 .. len[j] : num[T[j - 1] + k] = <<j, k>>
    <2>1. Counting(T, N, len, num)
      BY <1>1, <1>2, TotalFacts
    <2> QED BY <2>1 DEF Counting
  <1>4. /\ \A g \in 1 .. N : T[g] = T[g - 1] + Entries(r, g)
        /\ \A g \in 1 .. N : \A k \in 1 .. Entries(r, g) :
             num[T[g - 1] + k] = <<g, k>>
    BY <1>1, <1>3
  <1>5. \A x \in 1 .. T[N] : \E g \in 1 .. N : \E k \in 1 .. Entries(r, g) : x = T[g - 1] + k
    <2> TAKE x \in 1 .. T[N]
    <2>1. PICK g \in 1 .. N : \E k \in 1 .. len[g] : x = T[g - 1] + k
      BY <1>3
    <2>2. len[g] = Entries(r, g)
      BY <1>1
    <2> QED BY <2>1, <2>2
  <1> QED BY <1>2, <1>3, <1>4, <1>5 DEF N, T, num

\* A row of a table: its number, its probed cell.
LEMMA RowFacts ==
  ASSUME NEW r \in Requests
  PROVE  /\ RowTotal(r)[0] = 0 /\ \A g \in 0 .. ProbeNum(r) : RowTotal(r)[g] \in Nat
         /\ \A g \in 1 .. ProbeNum(r) : RowTotal(r)[g] = RowTotal(r)[g - 1] + LUT_ENTRY_NUM
         /\ \A g \in 1 .. ProbeNum(r) : \A k \in 1 .. LUT_ENTRY_NUM :
              RowNumber(r)[RowTotal(r)[g - 1] + k] = <<g, k>>
  <1> DEFINE N == ProbeNum(r)
             len == RowLens(r)
             T == RowTotal(r)
             num == RowNumber(r)
  <1>1. N \in Nat /\ \A g \in 1 .. N : len[g] = LUT_ENTRY_NUM /\ len[g] \in Nat
    BY ProbeFacts, Positive DEF RowLens
  <1>2. T = Total(N, len) /\ num = PairsOf(N, len)
    BY DEF RowTotal, RowNumber
  <1> HIDE DEF N, len, T, num
  <1>3. /\ T[0] = 0 /\ \A j \in 0 .. N : T[j] \in Nat
        /\ \A j \in 1 .. N : T[j] = T[j - 1] + len[j]
        /\ \A j \in 1 .. N : \A k \in 1 .. len[j] : num[T[j - 1] + k] = <<j, k>>
    <2>1. Counting(T, N, len, num)
      BY <1>1, <1>2, TotalFacts
    <2> QED BY <2>1 DEF Counting
  <1>4. /\ \A g \in 1 .. N : T[g] = T[g - 1] + LUT_ENTRY_NUM
        /\ \A g \in 1 .. N : \A k \in 1 .. LUT_ENTRY_NUM :
             num[T[g - 1] + k] = <<g, k>>
    BY <1>1, <1>3
  <1> QED BY <1>2, <1>3, <1>4 DEF N, T, num

\* What a stage that has l queries of batch b left is at.
IsAtQuery(r, b, l, n) ==
  /\ n \in 0 .. QueryNum(r) - 1 /\ n + 1 \in 1 .. QueryNum(r)
  /\ Query(r)[n + 1] = <<b, Size(r, b) - l + 1>>
  /\ CellsOf(r, n + 1) = r.batches[b].queries[Size(r, b) - l + 1]
  /\ Len(CellsOf(r, n + 1)) = NProbe(r, b) /\ CellsOf(r, n + 1) \in Seq(Cell)
  /\ ProbeTotal(r)[n] \in Nat /\ ProbeTotal(r)[n + 1] = ProbeTotal(r)[n] + NProbe(r, b)
  /\ \A k \in 1 .. NProbe(r, b) :
       /\ ProbeTotal(r)[n] + k \in 1 .. ProbeNum(r)
       /\ Probe(r)[ProbeTotal(r)[n] + k] = <<n + 1, k>>

LEMMA AtQuery ==
  ASSUME NEW r \in Requests, NEW b \in 1 .. BatchNum(r), NEW l \in 1 .. Size(r, b),
         NEW n, n = QueryTotal(r)[b] - l
  PROVE  IsAtQuery(r, b, l, n)
  <1> DEFINE q == Size(r, b) - l + 1
  <1>1. q \in 1 .. Size(r, b) /\ Size(r, b) \in Nat
    BY Batches
  <1>2. QueryTotal(r)[b] = QueryTotal(r)[b - 1] + Size(r, b) /\ QueryTotal(r)[b - 1] \in Nat
    BY QueryFacts, Batches
  <1>3. n + 1 = QueryTotal(r)[b - 1] + q /\ n \in Int
    BY <1>1, <1>2
  <1> HIDE DEF q
  <1>4. n + 1 \in 1 .. QueryNum(r) /\ Query(r)[n + 1] = <<b, q>> /\ QueryNum(r) \in Nat
    BY <1>1, <1>3, QueryFacts
  <1>5. CellsOf(r, n + 1) = r.batches[b].queries[q]
    BY <1>4 DEF CellsOf
  <1>6. CellsOf(r, n + 1) \in Seq(Cell) /\ Len(CellsOf(r, n + 1)) = NProbe(r, b)
    BY <1>1, <1>5, Batches
  <1> DEFINE m == n + 1
  <1>7. m - 1 = n /\ m \in 1 .. QueryNum(r) /\ n \in 0 .. QueryNum(r) - 1 /\ n \in 0 .. QueryNum(r)
    BY <1>3, <1>4
  <1> HIDE DEF m
  <1>8. /\ ProbeTotal(r)[m] = ProbeTotal(r)[m - 1] + Len(CellsOf(r, m))
        /\ \A k \in 1 .. Len(CellsOf(r, m)) :
             /\ ProbeTotal(r)[m - 1] + k \in 1 .. ProbeNum(r)
             /\ Probe(r)[ProbeTotal(r)[m - 1] + k] = <<m, k>>
        /\ ProbeTotal(r)[n] \in Nat
    <2>1. /\ ProbeTotal(r)[m] = ProbeTotal(r)[m - 1] + Len(CellsOf(r, m))
          /\ \A k \in 1 .. Len(CellsOf(r, m)) :
               /\ ProbeTotal(r)[m - 1] + k \in 1 .. ProbeNum(r)
               /\ Probe(r)[ProbeTotal(r)[m - 1] + k] = <<m, k>>
      BY <1>7, ProbeFacts
    <2>2. ProbeTotal(r)[n] \in 0 .. ProbeNum(r) /\ ProbeNum(r) \in Nat
      BY <1>7, ProbeFacts
    <2> QED BY <2>1, <2>2
  <1>9. Len(CellsOf(r, m)) = NProbe(r, b)
    BY <1>6 DEF m
  <1>10. /\ ProbeTotal(r)[m] = ProbeTotal(r)[n] + NProbe(r, b)
         /\ \A k \in 1 .. NProbe(r, b) :
              ProbeTotal(r)[n] + k \in 1 .. ProbeNum(r) /\ Probe(r)[ProbeTotal(r)[n] + k] = <<m, k>>
    BY <1>7, <1>8, <1>9
  <1> QED BY <1>4, <1>5, <1>6, <1>7, <1>8, <1>10 DEF q, m, IsAtQuery

-----------------------------------------------------------------------------
(* The words of the network stream, by query. *)

\* A division that rounds up.
LEMMA RoundingUp ==
  ASSUME NEW n \in Nat \ {0}, NEW k \in Nat
  PROVE  /\ Ceil(k, n) \in Nat /\ (k = 0 => Ceil(k, n) = 0)
         /\ k > 0 => Ceil(k, n) = ((k - 1) \div n) + 1
         /\ \A p \in 0 .. k - 1 : p \div n \in 0 .. Ceil(k, n) - 1
  <1>1. CASE k = 0
    <2>1. 0 * n + (n - 1) = k + n - 1 /\ n - 1 \in 0 .. n - 1 /\ 0 \in Nat
      BY <1>1
    <2>2. (0 * n + (n - 1)) \div n = 0
      BY <2>1, Division
    <2> QED BY <1>1, <2>1, <2>2 DEF Ceil
  <1>2. CASE k > 0
    <2> DEFINE d == (k - 1) \div n
               m == (k - 1) % n
    <2>0. k - 1 \in Nat
      BY <1>2
    <2>1. d \in Nat /\ m \in 0 .. n - 1 /\ k - 1 = d * n + m
      BY <2>0, Quotient
    <2> HIDE DEF d, m
    <2>2. (d + 1) * n = d * n + n
      BY <2>1
    <2>3. (d + 1) * n + m = k + n - 1 /\ d + 1 \in Nat
      BY <2>1, <2>2
    <2>4. ((d + 1) * n + m) \div n = d + 1
      BY <2>1, <2>3, Division
    <2>5. Ceil(k, n) = d + 1
      BY <2>3, <2>4 DEF Ceil
    <2>6. ASSUME NEW p \in 0 .. k - 1 PROVE p \div n \in 0 .. Ceil(k, n) - 1
      <3>1. p < (d + 1) * n /\ p \in Nat
        BY <2>1, <2>2
      <3>2. p \div n \in Nat /\ p \div n < d + 1
        BY <2>3, <3>1, Quotient
      <3> QED BY <2>1, <2>5, <3>2
    <2> QED BY <1>2, <2>1, <2>5, <2>6 DEF d
  <1> QED BY <1>1, <1>2

WordNum(cells) == Ceil(Len(cells), CELLS_PER_WORD)
QueryLen(r, n) == WordNum(CellsOf(r, n)) + 1 + Len(CellsOf(r, n))
WordLens(r) == [n \in 1 .. QueryNum(r) |-> QueryLen(r, n)]
WordTotal(r) == Total(QueryNum(r), WordLens(r))

\* The words of each query, counted.
LEMMA WordFacts ==
  ASSUME NEW r \in Requests
  PROVE  /\ WordTotal(r)[0] = 0 /\ \A n \in 0 .. QueryNum(r) : WordTotal(r)[n] \in Nat
         /\ \A m, n \in 0 .. QueryNum(r) : m <= n => WordTotal(r)[m] <= WordTotal(r)[n]
         /\ \A n \in 1 .. QueryNum(r) :
              /\ WordNum(CellsOf(r, n)) \in Nat /\ QueryLen(r, n) \in Nat
              /\ WordTotal(r)[n] = WordTotal(r)[n - 1] + QueryLen(r, n)
  <1> DEFINE N == QueryNum(r)
             len == WordLens(r)
             T == WordTotal(r)
  <1>1. N \in Nat /\ T = Total(N, len)
    BY QueryFacts DEF WordTotal
  <1>2. ASSUME NEW n \in 1 .. N
        PROVE  len[n] = QueryLen(r, n) /\ QueryLen(r, n) \in Nat /\ WordNum(CellsOf(r, n)) \in Nat
    <2>1. Len(CellsOf(r, n)) \in Nat
      BY CellsFacts
    <2>2. WordNum(CellsOf(r, n)) \in Nat
      BY <2>1, Positive, RoundingUp DEF WordNum
    <2> QED BY <2>1, <2>2 DEF QueryLen, WordLens
  <1> HIDE DEF N, len, T
  <1>3. Counting(T, N, len, PairsOf(N, len))
    BY <1>1, <1>2, TotalFacts
  <1>4. /\ T[0] = 0 /\ \A n \in 0 .. N : T[n] \in Nat
        /\ \A m, n \in 0 .. N : m <= n => T[m] <= T[n]
        /\ \A n \in 1 .. N : T[n] = T[n - 1] + len[n]
    BY <1>3 DEF Counting
  <1>5. \A n \in 1 .. N : T[n] = T[n - 1] + QueryLen(r, n)
    BY <1>2, <1>4
  <1> QED BY <1>2, <1>4, <1>5 DEF N, T

\* What a word may be.
Word == [kind : {"cells"}, cells : [1 .. CELLS_PER_WORD -> Nat]]
          \cup [kind : {"query"}, batch : Nat, query : Nat]
          \cup [kind : {"center"}, batch : Nat, query : Nat, probe : Nat]
          \cup [kind : {"header"},
                header : [batch_size : Nat, nprobe : Nat, terminate : BOOLEAN]]

\* The words of a query.
LEMMA QueryWordsAre ==
  ASSUME NEW b \in Nat, NEW q \in Nat, NEW cells \in Seq(Cell)
  PROVE  /\ QueryWords(b, q, cells) \in Seq(Word)
         /\ Len(QueryWords(b, q, cells)) = WordNum(cells) + 1 + Len(cells)
         /\ \A w \in 1 .. WordNum(cells) : QueryWords(b, q, cells)[w] = CellWords(cells)[w]
         /\ QueryWords(b, q, cells)[WordNum(cells) + 1] = QueryWord(b, q)
         /\ \A k \in 1 .. Len(cells) :
              QueryWords(b, q, cells)[WordNum(cells) + 1 + k] = CenterWord(b, q, k)
  <1> DEFINE W == WordNum(cells)
             n == Len(cells)
             s == CellWords(cells)
             v == QueryWord(b, q)
             t == [k \in DOMAIN cells |-> CenterWord(b, q, k)]
  <1>8. n \in Nat /\ DOMAIN cells = 1 .. n
    OBVIOUS
  <1>1. n \in Nat /\ W \in Nat /\ DOMAIN cells = 1 .. n
    <2> HIDE DEF n
    <2>1. Ceil(n, CELLS_PER_WORD) \in Nat
      BY <1>8, Positive, RoundingUp
    <2> QED BY <1>8, <2>1 DEF WordNum, n
  <1>2. s \in Seq(Word) /\ Len(s) = W
    <2>1. s = [w \in 1 .. W |-> s[w]]
      BY <1>1 DEF CellWords, WordNum
    <2>2. ASSUME NEW w \in 1 .. W PROVE s[w] \in Word
      <3> DEFINE f == [j \in 1 .. CELLS_PER_WORD |->
                         IF (w - 1) * CELLS_PER_WORD + j <= Len(cells)
                         THEN cells[(w - 1) * CELLS_PER_WORD + j] ELSE 0]
      <3>1. s[w] = [kind |-> "cells", cells |-> f]
        BY <1>1 DEF CellWords, WordNum
      <3>2. ASSUME NEW j \in 1 .. CELLS_PER_WORD PROVE f[j] \in Nat
        <4>1. (w - 1) * CELLS_PER_WORD \in Nat
          <5>1. \A x, y \in Nat : x * y \in Nat
            OBVIOUS
          <5> QED BY <1>1, <5>1, Positive
        <4>2. CASE (w - 1) * CELLS_PER_WORD + j <= Len(cells)
          <5> DEFINE m == (w - 1) * CELLS_PER_WORD + j
          <5>1. m \in 1 .. Len(cells)
            BY <1>1, <4>1, <4>2, Positive
          <5>2. cells[m] \in Cell
            BY <5>1
          <5>3. f[j] = cells[m]
            BY <4>2
          <5> QED BY <5>2, <5>3, Positive DEF Cell
        <4>3. CASE ~ ((w - 1) * CELLS_PER_WORD + j <= Len(cells))
          BY <4>3
        <4> QED BY <4>2, <4>3
      <3> HIDE DEF f
      <3>3. f \in [1 .. CELLS_PER_WORD -> Nat]
        <4>1. f = [j \in 1 .. CELLS_PER_WORD |-> f[j]]
          BY DEF f
        <4> QED BY <3>2, <4>1
      <3> QED BY <3>1, <3>3 DEF Word
    <2> HIDE DEF s
    <2> QED BY <1>1, <2>1, <2>2, IsASeq, LenProperties
  <1>3. v \in Word
    BY DEF QueryWord, Word
  <1>4. /\ t \in Seq(Word) /\ Len(t) = n
        /\ \A k \in 1 .. n : t[k] = CenterWord(b, q, k)
    <2>1. \A k \in 1 .. n : CenterWord(b, q, k) \in Word
      BY <1>1 DEF CenterWord, Word
    <2> QED BY <1>1, <2>1
  <1>5. QueryWords(b, q, cells) = (s \o <<v>>) \o t
    BY DEF QueryWords
  <1> HIDE DEF W, n, s, v, t
  <1>6. /\ s \o <<v>> \in Seq(Word) /\ Len(s \o <<v>>) = W + 1
        /\ \A w \in 1 .. W : (s \o <<v>>)[w] = s[w]
        /\ (s \o <<v>>)[W + 1] = v
    BY <1>1, <1>2, <1>3
  <1> DEFINE u == s \o <<v>>
  <1> HIDE DEF u
  <1>7. /\ u \o t \in Seq(Word) /\ Len(u \o t) = W + 1 + n
        /\ \A k \in 1 .. W + 1 : (u \o t)[k] = u[k]
        /\ \A k \in 1 .. n : (u \o t)[W + 1 + k] = t[k]
    <2>1. u \in Seq(Word) /\ Len(u) = W + 1 /\ W \in Nat /\ n \in Nat
      BY <1>1, <1>6 DEF u
    <2>2. u \o t \in Seq(Word) /\ Len(u \o t) = W + 1 + n
      BY <1>4, <2>1
    <2>3. ASSUME NEW k \in 1 .. W + 1 PROVE (u \o t)[k] = u[k]
      BY <1>4, <2>1
    <2>4. ASSUME NEW k \in 1 .. n PROVE (u \o t)[W + 1 + k] = t[k]
      BY <1>4, <2>1
    <2> QED BY <2>2, <2>3, <2>4
  <1>9. QueryWords(b, q, cells) = u \o t
    BY <1>5 DEF u
  <1>10. /\ \A w \in 1 .. W : (u \o t)[w] = s[w]
         /\ (u \o t)[W + 1] = v
    BY <1>1, <1>6, <1>7 DEF u
  <1>11. \A k \in 1 .. n : (u \o t)[W + 1 + k] = CenterWord(b, q, k)
    BY <1>4, <1>7
  <1> DEFINE x == u \o t
  <1>12. x \in Seq(Word) /\ Len(x) = W + 1 + n
    BY <1>7
  <1> QED BY <1>9, <1>10, <1>11, <1>12 DEF W, n, s, v

HeaderWord(h) == [kind |-> "header", header |-> h]

\* The words of a batch: its header, then those of its queries.
LEMMA BatchWordsAre ==
  ASSUME NEW r \in Requests, NEW b \in 1 .. BatchNum(r)
  PROVE  /\ BatchWords(b, r.batches[b]) \in Seq(Word)
         /\ Len(BatchWords(b, r.batches[b])) =
              1 + WordTotal(r)[QueryTotal(r)[b]] - WordTotal(r)[QueryTotal(r)[b - 1]]
         /\ BatchWords(b, r.batches[b])[1] = HeaderWord(HeaderOf(r, b))
         /\ \A q \in 1 .. Size(r, b) : \A j \in 1 .. QueryLen(r, QueryTotal(r)[b - 1] + q) :
              BatchWords(b, r.batches[b])
                [1 + (WordTotal(r)[QueryTotal(r)[b - 1] + q - 1]
                        - WordTotal(r)[QueryTotal(r)[b - 1]]) + j]
                = QueryWords(b, q, CellsOf(r, QueryTotal(r)[b - 1] + q))[j]
  <1> DEFINE N == Size(r, b)
             Q == QueryTotal(r)[b - 1]
             W == WordTotal(r)
             C(q) == r.batches[b].queries[q]
             seqs == [q \in 1 .. N |-> QueryWords(b, q, C(q))]
             len == [q \in 1 .. N |-> QueryLen(r, Q + q)]
             T == [q \in 0 .. N |-> W[Q + q] - W[Q]]
             hd == HeaderWord(HeaderOf(r, b))
  <1>1. /\ b \in Nat /\ N \in Nat /\ DOMAIN r.batches[b].queries = 1 .. N
        /\ \A q \in 1 .. N : C(q) \in Seq(Cell) /\ Len(C(q)) = NProbe(r, b)
        /\ NProbe(r, b) \in Nat
    BY Batches
  <1>2. /\ Q \in Nat /\ QueryNum(r) \in Nat /\ QueryTotal(r)[b] = Q + N
        /\ QueryTotal(r)[b] \in 0 .. QueryNum(r) /\ Q \in 0 .. QueryNum(r)
    <2>1. b - 1 \in 0 .. BatchNum(r) + 1 /\ b \in 0 .. BatchNum(r) + 1 /\ b \in 1 .. BatchNum(r) + 1
      BY Batches
    <2> QED BY <2>1, QueryFacts
  <1>3. ASSUME NEW q \in 1 .. N
        PROVE  /\ Q + q \in 1 .. QueryNum(r) /\ Query(r)[Q + q] = <<b, q>>
               /\ CellsOf(r, Q + q) = C(q)
    <2>1. Q + q \in 1 .. QueryNum(r) /\ Query(r)[Q + q] = <<b, q>>
      BY QueryFacts
    <2> QED BY <2>1 DEF CellsOf
  <1>4. /\ \A n \in 0 .. QueryNum(r) : W[n] \in Nat
        /\ \A n, m \in 0 .. QueryNum(r) : n <= m => W[n] <= W[m]
        /\ \A n \in 1 .. QueryNum(r) : /\ QueryLen(r, n) \in Nat
                                       /\ W[n] = W[n - 1] + QueryLen(r, n)
    BY WordFacts
  <1> HIDE DEF N, Q, W
  <1>5. IsTotal(T, N, len)
    <2>1. T[0] = 0
      <3>1. T[0] = W[Q + 0] - W[Q] /\ Q + 0 = Q /\ W[Q] \in Nat
        BY <1>1, <1>2, <1>4
      <3> QED BY <3>1
    <2>2. ASSUME NEW q \in 1 .. N PROVE len[q] \in Nat /\ T[q] = T[q - 1] + len[q]
      <3> DEFINE n == Q + q
      <3>1. /\ n \in 1 .. QueryNum(r) /\ n - 1 = Q + (q - 1) /\ n - 1 \in 0 .. QueryNum(r)
            /\ n \in 0 .. QueryNum(r)
        BY <1>1, <1>2, <1>3
      <3>2. len[q] = QueryLen(r, n) /\ T[q] = W[n] - W[Q] /\ T[q - 1] = W[Q + (q - 1)] - W[Q]
        BY <1>1
      <3> HIDE DEF n, T, len
      <3>3. W[n] = W[n - 1] + QueryLen(r, n) /\ QueryLen(r, n) \in Nat /\ W[n - 1] \in Nat /\ W[Q] \in Nat
        BY <1>2, <1>4, <3>1
      <3> QED BY <3>1, <3>2, <3>3
    <2> HIDE DEF T, len
    <2> QED BY <2>1, <2>2 DEF IsTotal
  <1>6. ASSUME NEW q \in 1 .. N
        PROVE  seqs[q] = QueryWords(b, q, C(q)) /\ seqs[q] \in Seq(Word) /\ Len(seqs[q]) = len[q]
    <2> DEFINE c == C(q)
    <2>3. c \in Seq(Cell) /\ q \in Nat /\ b \in Nat
      BY <1>1
    <2> HIDE DEF c
    <2>4. QueryWords(b, q, c) \in Seq(Word)
          /\ Len(QueryWords(b, q, c)) = WordNum(c) + 1 + Len(c)
      BY <2>3, QueryWordsAre
    <2>1. QueryWords(b, q, C(q)) \in Seq(Word)
          /\ Len(QueryWords(b, q, C(q))) = WordNum(C(q)) + 1 + Len(C(q))
      BY <2>4 DEF c
    <2>2. len[q] = WordNum(C(q)) + 1 + Len(C(q))
      BY <1>3 DEF QueryLen
    <2> QED BY <2>1, <2>2
  <1>7. seqs \in [1 .. N -> Seq(Word)]
    <2>1. seqs = [q \in 1 .. N |-> seqs[q]]
      OBVIOUS
    <2> HIDE DEF seqs
    <2> QED BY <1>6, <2>1
  <1> DEFINE s == FlattenSeq(seqs)
  <1>8. BatchWords(b, r.batches[b]) = <<hd>> \o s
    <2>1. HeaderOf(r, b) = Header(Len(r.batches[b].queries), r.batches[b].nprobe)
      BY DEF HeaderOf, Size, NProbe
    <2> QED BY <1>1, <2>1 DEF BatchWords, HeaderWord
  <1>9. hd \in Word
    <2>1. HeaderOf(r, b) \in [batch_size : Nat, nprobe : Nat, terminate : BOOLEAN]
      BY <1>1 DEF HeaderOf, Header, N
    <2> QED BY <2>1 DEF HeaderWord, Word
  <1> HIDE DEF seqs, T, len
  <1>10. Flattened(s, Word, N, seqs, T)
    BY <1>1, <1>5, <1>6, <1>7, FlattenTotal
  <1> HIDE DEF s, hd
  <1>11. /\ s \in Seq(Word) /\ Len(s) = T[N]
         /\ \A q \in 1 .. N : \A j \in 1 .. len[q] :
              T[q - 1] + j \in 1 .. Len(s) /\ s[T[q - 1] + j] = seqs[q][j]
    BY <1>6, <1>10 DEF Flattened
  <1>12. /\ <<hd>> \o s \in Seq(Word) /\ Len(<<hd>> \o s) = 1 + Len(s)
         /\ (<<hd>> \o s)[1] = hd
         /\ \A j \in 1 .. Len(s) : (<<hd>> \o s)[1 + j] = s[j]
    BY <1>9, <1>11
  <1>13. Len(s) = W[QueryTotal(r)[b]] - W[Q]
    BY <1>1, <1>2, <1>11 DEF T
  <1>14. ASSUME NEW q \in 1 .. N, NEW j \in 1 .. QueryLen(r, Q + q)
         PROVE  (<<hd>> \o s)[1 + (W[Q + q - 1] - W[Q]) + j] = QueryWords(b, q, CellsOf(r, Q + q))[j]
    <2>1. len[q] = QueryLen(r, Q + q) /\ T[q - 1] = W[Q + (q - 1)] - W[Q]
      BY <1>1 DEF len, T
    <2>2. Q + (q - 1) = Q + q - 1
      BY <1>1, <1>2
    <2>3. /\ T[q - 1] + j \in 1 .. Len(s) /\ s[T[q - 1] + j] = seqs[q][j]
      BY <1>11, <2>1
    <2>4. 1 + (T[q - 1] + j) = 1 + (W[Q + q - 1] - W[Q]) + j
      <3>1. W[Q] \in Nat /\ W[Q + q - 1] \in Nat
        <4>1. Q + q - 1 \in 0 .. QueryNum(r)
          BY <1>1, <1>2, <1>3
        <4> QED BY <1>2, <1>4, <4>1
      <3>2. j \in Int
        BY <1>3, <1>4
      <3> QED BY <2>1, <2>2, <3>1, <3>2
    <2>5. (<<hd>> \o s)[1 + (T[q - 1] + j)] = s[T[q - 1] + j]
      BY <1>12, <2>3
    <2>6. seqs[q][j] = QueryWords(b, q, CellsOf(r, Q + q))[j]
      BY <1>3, <1>6
    <2> QED BY <2>3, <2>4, <2>5, <2>6
  <1> DEFINE x == <<hd>> \o s
  <1>15. /\ x \in Seq(Word) /\ Len(x) = 1 + (W[QueryTotal(r)[b]] - W[Q]) /\ x[1] = hd
         /\ \A q \in 1 .. N : \A j \in 1 .. QueryLen(r, Q + q) :
              x[1 + (W[Q + q - 1] - W[Q]) + j] = QueryWords(b, q, CellsOf(r, Q + q))[j]
    BY <1>12, <1>13, <1>14
  <1>16. W[QueryTotal(r)[b]] \in Nat /\ W[Q] \in Nat
    BY <1>2, <1>4
  <1>17. 1 + (W[QueryTotal(r)[b]] - W[Q]) = 1 + W[QueryTotal(r)[b]] - W[Q]
    BY <1>16
  <1>18. BatchWords(b, r.batches[b]) = x
    BY <1>8 DEF s
  <1> HIDE DEF x
  <1> QED BY <1>15, <1>17, <1>18 DEF N, Q, W, hd

\* The words of the network stream, those of query n of batch b and the headers.
WordsInOrder(r, s) ==
  /\ IsSequence(s) /\ Len(s) = BatchNum(r) + 1 + WordTotal(r)[QueryNum(r)]
  /\ \A b \in 1 .. BatchNum(r) :
       /\ s[b + WordTotal(r)[QueryTotal(r)[b - 1]]] = HeaderWord(HeaderOf(r, b))
       /\ \A q \in 1 .. Size(r, b) : \A j \in 1 .. QueryLen(r, QueryTotal(r)[b - 1] + q) :
            s[b + WordTotal(r)[QueryTotal(r)[b - 1] + q - 1] + j]
              = QueryWords(b, q, CellsOf(r, QueryTotal(r)[b - 1] + q))[j]
  /\ s[BatchNum(r) + 1 + WordTotal(r)[QueryNum(r)]] = HeaderWord(TerminateHeader)

\* The network stream is the words of the batches, in order.
LEMMA InputWords ==
  ASSUME NEW r \in Requests
  PROVE  WordsInOrder(r, Words(r))
  <1> DEFINE B == BatchNum(r)
             Q == QueryTotal(r)
             W == WordTotal(r)
             seqs == [b \in 1 .. B |-> BatchWords(b, r.batches[b])]
             len == [b \in 1 .. B |-> 1 + W[Q[b]] - W[Q[b - 1]]]
             T == [b \in 0 .. B |-> b + W[Q[b]]]
             last == HeaderWord(TerminateHeader)
             s == FlattenSeq(seqs)
  <1>1. B \in Nat /\ DOMAIN r.batches = 1 .. B
    BY Batches
  <1>2. /\ Q[0] = 0 /\ \A b \in 0 .. B : Q[b] \in 0 .. QueryNum(r)
        /\ \A b \in 1 .. B : Q[b - 1] <= Q[b]
        /\ Q[B] = QueryNum(r) /\ QueryNum(r) \in Nat
    <2>1. /\ Q[0] = 0 /\ \A b \in 0 .. B : Q[b] \in 0 .. QueryNum(r)
          /\ Q[B] = QueryNum(r) /\ QueryNum(r) \in Nat
      BY <1>1, QueryFacts DEF QueryNum
    <2>2. ASSUME NEW b \in 1 .. B PROVE Q[b - 1] <= Q[b]
      <3>1. Q[b] = Q[b - 1] + Size(r, b) /\ b - 1 \in 0 .. B
        BY <1>1, QueryFacts
      <3>2. Size(r, b) \in Nat /\ Q[b - 1] \in Nat
        BY <2>1, <3>1, Batches
      <3> QED BY <3>1, <3>2
    <2> QED BY <2>1, <2>2
  <1>3. /\ W[0] = 0 /\ \A n \in 0 .. QueryNum(r) : W[n] \in Nat
        /\ \A m, n \in 0 .. QueryNum(r) : m <= n => W[m] <= W[n]
    BY WordFacts
  <1>4. ASSUME NEW b \in 1 .. B
        PROVE  /\ seqs[b] \in Seq(Word) /\ Len(seqs[b]) = 1 + W[Q[b]] - W[Q[b - 1]]
               /\ seqs[b][1] = HeaderWord(HeaderOf(r, b))
               /\ \A q \in 1 .. Size(r, b) : \A j \in 1 .. QueryLen(r, Q[b - 1] + q) :
                    seqs[b][1 + (W[Q[b - 1] + q - 1] - W[Q[b - 1]]) + j]
                      = QueryWords(b, q, CellsOf(r, Q[b - 1] + q))[j]
    <2>1. seqs[b] = BatchWords(b, r.batches[b])
      OBVIOUS
    <2> HIDE DEF seqs
    <2> QED BY <2>1, BatchWordsAre
  <1>5. seqs \in [1 .. B -> Seq(Word)]
    <2>1. seqs = [b \in 1 .. B |-> seqs[b]]
      OBVIOUS
    <2> HIDE DEF seqs
    <2> QED BY <1>4, <2>1
  <1>6. Words(r) = s \o <<last>>
    BY <1>1 DEF Words, HeaderWord
  <1>7. last \in Word
    BY DEF TerminateHeader, HeaderWord, Word
  <1> HIDE DEF B, Q, W, seqs, last
  <1>8. \A b \in 1 .. B : /\ b - 1 \in 0 .. B /\ b \in 0 .. B
                          /\ W[Q[b]] \in Nat /\ W[Q[b - 1]] \in Nat /\ W[Q[b - 1]] <= W[Q[b]]
    BY <1>1, <1>2, <1>3
  <1>9. IsTotal(T, B, len)
    <2>1. T[0] = 0
      BY <1>1, <1>2, <1>3
    <2>2. ASSUME NEW b \in 1 .. B PROVE len[b] \in Nat /\ T[b] = T[b - 1] + len[b]
      <3>1. len[b] = 1 + W[Q[b]] - W[Q[b - 1]] /\ T[b] = b + W[Q[b]] /\ T[b - 1] = b - 1 + W[Q[b - 1]]
        BY <1>1
      <3> HIDE DEF len, T
      <3> QED BY <1>1, <1>8, <3>1
    <2> HIDE DEF T, len
    <2> QED BY <2>1, <2>2 DEF IsTotal
  <1>10. \A b \in 1 .. B : len[b] = Len(seqs[b])
    BY <1>4
  <1>11. /\ \A b \in 0 .. B : T[b] = b + W[Q[b]]
         /\ T[B] = B + W[QueryNum(r)]
    BY <1>1, <1>2
  <1> HIDE DEF T, len, s
  <1>12. Flattened(s, Word, B, seqs, T)
    BY <1>1, <1>5, <1>9, <1>10, FlattenTotal DEF s
  <1>13. /\ s \in Seq(Word) /\ Len(s) = T[B]
         /\ \A b \in 1 .. B : \A k \in 1 .. Len(seqs[b]) :
              T[b - 1] + k \in 1 .. Len(s) /\ s[T[b - 1] + k] = seqs[b][k]
    BY <1>12 DEF Flattened
  <1> DEFINE x == s \o <<last>>
  <1>14. /\ x \in Seq(Word) /\ Len(x) = T[B] + 1 /\ x[T[B] + 1] = last
         /\ \A j \in 1 .. Len(s) : x[j] = s[j]
    <2>1. Len(s) \in Nat
      BY <1>13
    <2> QED BY <1>7, <1>13, <2>1
  <1> HIDE DEF x
  <1>15. /\ IsSequence(x) /\ Len(x) = B + 1 + W[QueryNum(r)]
         /\ x[B + 1 + W[QueryNum(r)]] = last
    <2>1. W[QueryNum(r)] \in Nat
      BY <1>2, <1>3
    <2>2. T[B] + 1 = B + 1 + W[QueryNum(r)]
      BY <1>1, <1>11, <2>1
    <2> QED BY <1>14, <2>2 DEF IsSequence
  <1>16. ASSUME NEW b \in 1 .. B
         PROVE  x[b + W[Q[b - 1]]] = HeaderWord(HeaderOf(r, b))
    <2>1. T[b - 1] + 1 = b + W[Q[b - 1]] /\ 1 \in 1 .. Len(seqs[b])
      <3>1. /\ b - 1 \in 0 .. B /\ b \in 1 .. B /\ b \in Int
            /\ W[Q[b]] \in Nat /\ W[Q[b - 1]] \in Nat /\ W[Q[b - 1]] <= W[Q[b]]
        BY <1>1, <1>8
      <3>2. T[b - 1] = (b - 1) + W[Q[b - 1]]
        BY <1>11, <3>1
      <3>3. Len(seqs[b]) = 1 + W[Q[b]] - W[Q[b - 1]]
        BY <1>4
      <3> QED BY <3>1, <3>2, <3>3
    <2>2. x[T[b - 1] + 1] = seqs[b][1]
      BY <1>13, <1>14, <2>1
    <2> QED BY <1>4, <2>1, <2>2
  <1>17. ASSUME NEW b \in 1 .. B, NEW q \in 1 .. Size(r, b), NEW j \in 1 .. QueryLen(r, Q[b - 1] + q)
         PROVE  x[b + W[Q[b - 1] + q - 1] + j] = QueryWords(b, q, CellsOf(r, Q[b - 1] + q))[j]
    <2> DEFINE n == Q[b - 1] + q
               k == 1 + (W[n - 1] - W[Q[b - 1]]) + j
    <2>1. /\ Q[b - 1] \in Nat /\ n \in 1 .. QueryNum(r) /\ n <= Q[b] /\ Q[b] \in 0 .. QueryNum(r)
          /\ n - 1 = Q[b - 1] + q - 1 /\ Q[b - 1] <= n - 1 /\ Q[b - 1] \in 0 .. QueryNum(r)
      <3>1. Q[b] = Q[b - 1] + Size(r, b) /\ Size(r, b) \in Nat
        BY <1>1, QueryFacts, Batches DEF Q, B
      <3>2. /\ Q[b - 1] \in 0 .. QueryNum(r) /\ Q[b] \in 0 .. QueryNum(r)
            /\ Q[b - 1] \in Nat /\ Q[b] \in Nat /\ QueryNum(r) \in Nat
        <4>1. b - 1 \in 0 .. B /\ b \in 0 .. B
          BY <1>1
        <4>2. Q[b - 1] \in 0 .. QueryNum(r) /\ Q[b] \in 0 .. QueryNum(r) /\ QueryNum(r) \in Nat
          BY <1>2, <4>1
        <4> HIDE DEF Q
        <4> QED BY <4>2
      <3> DEFINE f == Q[b - 1]
                 g == Q[b]
                 S == Size(r, b)
      <3>3. /\ g = f + S /\ S \in Nat /\ f \in Nat /\ q \in 1 .. S
            /\ g \in 0 .. QueryNum(r) /\ QueryNum(r) \in Nat
        BY <3>1, <3>2
      <3> HIDE DEF f, g, S
      <3>4. /\ f + q <= g /\ (f + q) - 1 = f + q - 1 /\ f <= (f + q) - 1
            /\ f + q \in 1 .. QueryNum(r)
        BY <3>3
      <3> QED BY <3>2, <3>4 DEF f, g
    <2>2. W[n] = W[n - 1] + QueryLen(r, n) /\ W[n - 1] \in Nat /\ QueryLen(r, n) \in Nat
      <3> HIDE DEF n
      <3>1. n - 1 \in 0 .. QueryNum(r)
        BY <1>2, <2>1
      <3> QED BY <1>3, <2>1, <3>1, WordFacts DEF W
    <2>3. W[n] <= W[Q[b]] /\ W[Q[b - 1]] <= W[n - 1]
      <3> HIDE DEF n
      <3>1. n - 1 \in 0 .. QueryNum(r) /\ n \in 0 .. QueryNum(r)
        BY <1>2, <2>1
      <3> QED BY <1>3, <2>1, <3>1
    <2>4. j \in Nat /\ j >= 1 /\ j <= QueryLen(r, n)
      BY <2>2
    <2>8. W[Q[b]] \in Nat /\ W[n] \in Nat
      BY <1>8, <2>2
    <2>5. k \in 1 .. Len(seqs[b]) /\ T[b - 1] + k = b + W[n - 1] + j
      <3>1. Len(seqs[b]) = 1 + W[Q[b]] - W[Q[b - 1]] /\ T[b - 1] = b - 1 + W[Q[b - 1]]
        BY <1>1, <1>4, <1>8, <1>11
      <3> DEFINE w0 == W[Q[b - 1]]
                 w1 == W[Q[b]]
                 wn == W[n - 1]
                 L == QueryLen(r, n)
      <3>2. /\ w0 \in Nat /\ w1 \in Nat /\ wn \in Nat /\ L \in Nat /\ b \in Nat /\ w0 <= wn
            /\ wn + L <= w1 /\ j \in Nat /\ j >= 1 /\ j <= L
        BY <1>1, <1>8, <2>2, <2>3, <2>4, <2>8
      <3>3. k = 1 + (wn - w0) + j /\ Len(seqs[b]) = 1 + w1 - w0 /\ T[b - 1] = b - 1 + w0
        BY <3>1
      <3> HIDE DEF n, k, w0, w1, wn, L
      <3>4. k \in 1 .. Len(seqs[b]) /\ T[b - 1] + k = b + wn + j
        BY <3>2, <3>3
      <3> QED BY <3>4 DEF wn
    <2>6. x[T[b - 1] + k] = seqs[b][k]
      BY <1>13, <1>14, <2>5
    <2>7. seqs[b][k] = QueryWords(b, q, CellsOf(r, n))[j]
      BY <1>4, <2>1
    <2> QED BY <2>1, <2>5, <2>6, <2>7
  <1>18. Words(r) = x
    BY <1>6 DEF x
  <1>19. WordsInOrder(r, x)
    BY <1>15, <1>16, <1>17 DEF WordsInOrder, B, Q, W, last
  <1> QED BY <1>18, <1>19

-----------------------------------------------------------------------------
(* The values that pass through each stream, numbered. *)

QueryVector(r, n) == QueryWord(Query(r)[n][1], Query(r)[n][2])
IterNum(r, n) == EntryTotal(r)[ProbeTotal(r)[n]] - EntryTotal(r)[ProbeTotal(r)[n - 1]]

\* What load_codes knows of the probed cell g.
ReadCell(r, g) == [ID |-> CellAt(r, g), rounds |-> Entries(r, g),
                   last_valid |-> last_valid_PE_ID(num_vecs[CellAt(r, g)]),
                   addr |-> start_addr[CellAt(r, g)]]
CodeAt(r, i, x) == PQ_code(ReadCell(r, Round(r)[x][1]), Round(r)[x][2] - 1, i)
ResultOf(r, i, x) == ADC_result(CodeAt(r, i, x),
                                [k \in 1 .. LUT_ENTRY_NUM |-> Row(r, Round(r)[x][1])])

Value(r, c, x) ==
  CASE c[1] = "s_batch_header" -> HeaderOf(r, x)
    [] c[1] = "s_kernel_network_in" -> Words(r)[x]
    [] c[1] = "s_query_vectors" -> QueryVector(r, x)
    [] c[1] = "s_center_vectors" -> Row(r, x).center
    [] c[1] \in {"s_cell_ID", "s_cell_ID_get", "s_cell_ID_load"} -> CellAt(r, x)
    [] c[1] = "s_nlist_start_addr" -> meta_data_init[x - 1]
    [] c[1] = "s_nlist_num_vecs" -> meta_data_init[2 * nlist + (x - 1)]
    [] c[1] = "s_nlist_vec_ID_start_addr" -> meta_data_init[nlist + (x - 1)]
    [] c[1] \in {"s_scanned_entries", "s_entries_load", "s_entries_ADC"} -> Entries(r, x)
    [] c[1] = "s_last_valid_PE_ID" -> last_valid_PE_ID(num_vecs[CellAt(r, x)])
    [] c[1] = "s_start_addr" -> start_addr[CellAt(r, x)]
    [] c[1] = "s_control_iter_num" -> IterNum(r, x)
    [] c[1] = "s_distance_LUT" -> Row(r, RowNumber(r)[x][1])
    [] c[1] = "s_PQ_codes" -> CodeAt(r, c[2], x)
    [] c[1] = "s_PQ_result" -> ResultOf(r, c[2], x)
    [] c[1] = "s_selected" -> [query |-> Probe(r)[Round(r)[x][1]][1], result |-> ResultOf(r, c[2], x)]
History(r) == [c \in Stream |-> [x \in Nat |-> Value(r, c, x)]]

\* Who reads a stream, and who writes it.
nobody == <<"nobody", 0>>
Reader(c) ==
  CASE c[1] = "s_batch_header" -> c[2]
    [] c[1] = "s_kernel_network_in" -> network_input
    [] c[1] \in {"s_query_vectors", "s_center_vectors"} -> LUT_construction
    [] c[1] = "s_cell_ID" -> replicate_cell
    [] c[1] \in {"s_cell_ID_get", "s_nlist_start_addr", "s_nlist_num_vecs"} -> get_cell
    [] c[1] \in {"s_cell_ID_load", "s_entries_load", "s_last_valid_PE_ID", "s_start_addr"} -> load_codes
    [] c[1] = "s_scanned_entries" -> replicate_entries
    [] c[1] \in {"s_entries_ADC", "s_PQ_codes"} -> ADC(c[2])
    [] c[1] = "s_distance_LUT" -> IF c[2] = ADC_PE_NUM THEN LUT_consumer ELSE ADC(c[2])
    [] c[1] \in {"s_control_iter_num", "s_PQ_result"} -> K_selection
    [] OTHER -> nobody
Writer(c) ==
  CASE c[1] = "s_batch_header" -> IF c[2] = replicate THEN network_input ELSE replicate
    [] c[1] \in {"s_query_vectors", "s_center_vectors", "s_cell_ID"} -> network_input
    [] c[1] \in {"s_cell_ID_get", "s_cell_ID_load"} -> replicate_cell
    [] c[1] \in {"s_nlist_start_addr", "s_nlist_num_vecs", "s_nlist_vec_ID_start_addr"} -> load_meta
    [] c[1] \in {"s_scanned_entries", "s_last_valid_PE_ID", "s_start_addr", "s_control_iter_num"} -> get_cell
    [] c[1] \in {"s_entries_load", "s_entries_ADC"} -> replicate_entries
    [] c[1] = "s_PQ_codes" -> load_codes
    [] c[1] = "s_distance_LUT" -> IF c[2] = 0 THEN LUT_construction ELSE ADC(c[2] - 1)
    [] c[1] = "s_PQ_result" -> ADC(c[2])
    [] c[1] = "s_selected" -> K_selection
    [] OTHER -> nobody

\* The compute PEs are numbered from 0.
LEMMA Distinct ==
  /\ \A i \in PE : i \in Nat /\ i + 1 \in Nat /\ i # ADC_PE_NUM
  /\ ADC_PE_NUM \in Nat /\ ADC_PE_NUM # 0 /\ PE # {}
  /\ \A i \in PE : i + 1 = ADC_PE_NUM \/ i + 1 \in PE
  /\ 0 \in PE
  <1>1. ADC_PE_NUM \in Nat \ {0}
    BY Positive
  <1> QED BY <1>1 DEF PE

\* The streams of a process.
LEMMA Wiring ==
  /\ s_kernel_network_in \in Stream /\ Reader(s_kernel_network_in) = network_input
  /\ Writer(s_kernel_network_in) = nobody
  /\ s_query_vectors \in Stream /\ Reader(s_query_vectors) = LUT_construction
  /\ Writer(s_query_vectors) = network_input
  /\ s_center_vectors \in Stream /\ Reader(s_center_vectors) = LUT_construction
  /\ Writer(s_center_vectors) = network_input
  /\ s_cell_ID \in Stream /\ Reader(s_cell_ID) = replicate_cell /\ Writer(s_cell_ID) = network_input
  /\ s_cell_ID_get \in Stream /\ Reader(s_cell_ID_get) = get_cell
  /\ Writer(s_cell_ID_get) = replicate_cell
  /\ s_cell_ID_load \in Stream /\ Reader(s_cell_ID_load) = load_codes
  /\ Writer(s_cell_ID_load) = replicate_cell
  /\ s_nlist_start_addr \in Stream /\ Reader(s_nlist_start_addr) = get_cell
  /\ Writer(s_nlist_start_addr) = load_meta
  /\ s_nlist_num_vecs \in Stream /\ Reader(s_nlist_num_vecs) = get_cell
  /\ Writer(s_nlist_num_vecs) = load_meta
  /\ s_nlist_vec_ID_start_addr \in Stream /\ Writer(s_nlist_vec_ID_start_addr) = load_meta
  /\ s_scanned_entries \in Stream /\ Reader(s_scanned_entries) = replicate_entries
  /\ Writer(s_scanned_entries) = get_cell
  /\ s_entries_load \in Stream /\ Reader(s_entries_load) = load_codes
  /\ Writer(s_entries_load) = replicate_entries
  /\ s_last_valid_PE_ID \in Stream /\ Reader(s_last_valid_PE_ID) = load_codes
  /\ Writer(s_last_valid_PE_ID) = get_cell
  /\ s_start_addr \in Stream /\ Reader(s_start_addr) = load_codes /\ Writer(s_start_addr) = get_cell
  /\ s_control_iter_num \in Stream /\ Reader(s_control_iter_num) = K_selection
  /\ Writer(s_control_iter_num) = get_cell
BY DEF Stream, Reader, Writer, nobody, s_kernel_network_in, s_query_vectors, s_center_vectors,
       s_cell_ID, s_cell_ID_get, s_cell_ID_load, s_nlist_start_addr, s_nlist_num_vecs,
       s_nlist_vec_ID_start_addr, s_scanned_entries, s_entries_load, s_last_valid_PE_ID,
       s_start_addr, s_control_iter_num

\* Who reads and writes the streams of a compute PE.
LEMMA PEWiring ==
  ASSUME NEW i \in PE
  PROVE  /\ s_entries_ADC(i) \in Stream /\ Reader(s_entries_ADC(i)) = ADC(i)
         /\ Writer(s_entries_ADC(i)) = replicate_entries
         /\ s_PQ_codes(i) \in Stream /\ Reader(s_PQ_codes(i)) = ADC(i)
         /\ Writer(s_PQ_codes(i)) = load_codes
         /\ s_PQ_result(i) \in Stream /\ Reader(s_PQ_result(i)) = K_selection
         /\ Writer(s_PQ_result(i)) = ADC(i)
         /\ s_selected(i) \in Stream /\ Reader(s_selected(i)) = nobody
         /\ Writer(s_selected(i)) = K_selection
         /\ s_distance_LUT(i) \in Stream /\ Reader(s_distance_LUT(i)) = ADC(i)
         /\ s_distance_LUT(i + 1) \in Stream /\ Writer(s_distance_LUT(i + 1)) = ADC(i)
  <1>1. /\ s_entries_ADC(i) \in Stream /\ s_PQ_codes(i) \in Stream /\ s_PQ_result(i) \in Stream
        /\ s_selected(i) \in Stream /\ s_distance_LUT(i) \in Stream
        /\ s_distance_LUT(ADC_PE_NUM) \in Stream
    BY DEF Stream
  <1>2. \A j \in PE : s_distance_LUT(j) \in Stream
    BY DEF Stream
  <1>3. s_distance_LUT(i + 1) \in Stream
    BY <1>1, <1>2, Distinct
  <1>4. /\ Reader(s_entries_ADC(i)) = ADC(i) /\ Writer(s_entries_ADC(i)) = replicate_entries
        /\ Reader(s_PQ_codes(i)) = ADC(i) /\ Writer(s_PQ_codes(i)) = load_codes
        /\ Reader(s_PQ_result(i)) = K_selection /\ Writer(s_PQ_result(i)) = ADC(i)
        /\ Reader(s_selected(i)) = nobody /\ Writer(s_selected(i)) = K_selection
    BY DEF Reader, Writer, s_entries_ADC, s_PQ_codes, s_PQ_result, s_selected, ADC
  <1>5. Reader(s_distance_LUT(i)) = ADC(i)
    BY Distinct DEF Reader, s_distance_LUT
  <1>6. Writer(s_distance_LUT(i + 1)) = ADC(i)
    <2>1. i + 1 # 0 /\ (i + 1) - 1 = i
      BY Distinct
    <2> QED BY <2>1 DEF Writer, s_distance_LUT
  <1> QED BY <1>1, <1>3, <1>4, <1>5, <1>6

\* The ends of the chain the table rows pass through.
LEMMA EndWiring ==
  /\ s_distance_LUT(0) \in Stream /\ Writer(s_distance_LUT(0)) = LUT_construction
  /\ s_distance_LUT(ADC_PE_NUM) \in Stream /\ Reader(s_distance_LUT(ADC_PE_NUM)) = LUT_consumer
  <1>1. /\ \A j \in PE : s_distance_LUT(j) \in Stream
        /\ s_distance_LUT(ADC_PE_NUM) \in Stream
    BY DEF Stream
  <1>2. s_distance_LUT(0) \in Stream
    BY <1>1, Distinct
  <1>3. Writer(s_distance_LUT(0)) = LUT_construction
    BY DEF Writer, s_distance_LUT
  <1>4. Reader(s_distance_LUT(ADC_PE_NUM)) = LUT_consumer
    BY DEF Reader, s_distance_LUT
  <1> QED BY <1>1, <1>2, <1>3, <1>4

\* Who reads and writes the header streams.
LEMMA HeaderWiring ==
  /\ s_batch_header(replicate) \in Stream /\ Reader(s_batch_header(replicate)) = replicate
  /\ Writer(s_batch_header(replicate)) = network_input
  /\ \A p \in Stages : /\ s_batch_header(p) \in Stream /\ Reader(s_batch_header(p)) = p
                       /\ Writer(s_batch_header(p)) = replicate
  <1>1. \A p \in Stages \cup {replicate} : s_batch_header(p) \in Stream
    BY DEF Stream
  <1>2. \A p : Reader(s_batch_header(p)) = p
    BY DEF Reader, s_batch_header
  <1>3. Writer(s_batch_header(replicate)) = network_input
    BY DEF Writer, s_batch_header
  <1>4. \A p \in Stages : p # replicate
    BY DEF Stages, replicate, LUT_construction, replicate_cell, get_cell, replicate_entries,
           load_codes, ADC, LUT_consumer, K_selection
  <1>5. \A p \in Stages : Writer(s_batch_header(p)) = replicate
    BY <1>4 DEF Writer, s_batch_header
  <1> QED BY <1>1, <1>2, <1>3, <1>5

\* No process writes to itself.
LEMMA NoLoop == \A c \in Stream : Writer(c) # Reader(c) \/ Writer(c) = nobody
  <1>1. \A p \in Stages \cup {replicate} :
          Writer(s_batch_header(p)) # Reader(s_batch_header(p))
    <2>1. \A p \in Stages : p # replicate
      BY DEF Stages, replicate, LUT_construction, replicate_cell, get_cell, replicate_entries,
             load_codes, ADC, LUT_consumer, K_selection
    <2>2. replicate # network_input
      BY DEF replicate, network_input
    <2> QED BY <2>1, <2>2, HeaderWiring
  <1>2. \A i \in PE : /\ Writer(s_entries_ADC(i)) # Reader(s_entries_ADC(i))
                      /\ Writer(s_PQ_codes(i)) # Reader(s_PQ_codes(i))
                      /\ Writer(s_PQ_result(i)) # Reader(s_PQ_result(i))
                      /\ Writer(s_selected(i)) # Reader(s_selected(i))
    BY PEWiring DEF ADC, replicate_entries, load_codes, K_selection, nobody
  <1>3. \A i \in PE \cup {ADC_PE_NUM} : Writer(s_distance_LUT(i)) # Reader(s_distance_LUT(i))
    <2> TAKE i \in PE \cup {ADC_PE_NUM}
    <2>1. i \in Nat
      BY Distinct
    <2>2. Writer(s_distance_LUT(i)) = LUT_construction \/ Writer(s_distance_LUT(i)) = ADC(i - 1)
      BY DEF Writer, s_distance_LUT
    <2>3. Reader(s_distance_LUT(i)) = LUT_consumer \/ Reader(s_distance_LUT(i)) = ADC(i)
      BY DEF Reader, s_distance_LUT
    <2>4. ADC(i - 1) # ADC(i)
      BY <2>1 DEF ADC
    <2>5. LUT_construction # LUT_consumer /\ \A j : LUT_construction # ADC(j) /\ ADC(j) # LUT_consumer
      BY DEF LUT_construction, LUT_consumer, ADC
    <2> QED BY <2>2, <2>3, <2>4, <2>5
  <1>4. \A c \in {s_kernel_network_in, s_query_vectors, s_center_vectors, s_cell_ID,
          s_cell_ID_get, s_cell_ID_load, s_nlist_start_addr, s_nlist_num_vecs,
          s_scanned_entries, s_entries_load,
          s_last_valid_PE_ID, s_start_addr, s_control_iter_num} : Writer(c) # Reader(c)
    BY Wiring DEF nobody, network_input, LUT_construction, replicate_cell, get_cell, load_meta,
         replicate_entries, load_codes, K_selection
  <1>5. Writer(s_nlist_vec_ID_start_addr) # Reader(s_nlist_vec_ID_start_addr)
    BY DEF Writer, Reader, s_nlist_vec_ID_start_addr, load_meta, nobody
  <1> QED BY <1>1, <1>2, <1>3, <1>4, <1>5 DEF Stream

\* The values of a stream by its name.
LEMMA Values ==
  ASSUME NEW r, NEW x \in Nat
  PROVE  /\ History(r)[s_kernel_network_in][x] = Words(r)[x]
         /\ History(r)[s_query_vectors][x] = QueryVector(r, x)
         /\ History(r)[s_center_vectors][x] = Row(r, x).center
         /\ History(r)[s_cell_ID][x] = CellAt(r, x)
         /\ History(r)[s_cell_ID_get][x] = CellAt(r, x)
         /\ History(r)[s_cell_ID_load][x] = CellAt(r, x)
         /\ History(r)[s_nlist_start_addr][x] = meta_data_init[x - 1]
         /\ History(r)[s_nlist_num_vecs][x] = meta_data_init[2 * nlist + (x - 1)]
         /\ History(r)[s_nlist_vec_ID_start_addr][x] = meta_data_init[nlist + (x - 1)]
         /\ History(r)[s_scanned_entries][x] = Entries(r, x)
         /\ History(r)[s_entries_load][x] = Entries(r, x)
         /\ History(r)[s_last_valid_PE_ID][x] = last_valid_PE_ID(num_vecs[CellAt(r, x)])
         /\ History(r)[s_start_addr][x] = start_addr[CellAt(r, x)]
         /\ History(r)[s_control_iter_num][x] = IterNum(r, x)
  <1>1. \A c \in Stream : History(r)[c][x] = Value(r, c, x)
    BY DEF History
  <1>2. /\ Value(r, s_kernel_network_in, x) = Words(r)[x]
        /\ Value(r, s_query_vectors, x) = QueryVector(r, x)
        /\ Value(r, s_center_vectors, x) = Row(r, x).center
        /\ Value(r, s_cell_ID, x) = CellAt(r, x)
        /\ Value(r, s_cell_ID_get, x) = CellAt(r, x)
        /\ Value(r, s_cell_ID_load, x) = CellAt(r, x)
    BY DEF Value, s_kernel_network_in, s_query_vectors, s_center_vectors,
       s_cell_ID, s_cell_ID_get, s_cell_ID_load
  <1>3. /\ Value(r, s_nlist_start_addr, x) = meta_data_init[x - 1]
        /\ Value(r, s_nlist_num_vecs, x) = meta_data_init[2 * nlist + (x - 1)]
        /\ Value(r, s_nlist_vec_ID_start_addr, x) = meta_data_init[nlist + (x - 1)]
    BY DEF Value, s_nlist_start_addr, s_nlist_num_vecs, s_nlist_vec_ID_start_addr
  <1>4. /\ Value(r, s_scanned_entries, x) = Entries(r, x)
        /\ Value(r, s_entries_load, x) = Entries(r, x)
        /\ Value(r, s_last_valid_PE_ID, x) = last_valid_PE_ID(num_vecs[CellAt(r, x)])
        /\ Value(r, s_start_addr, x) = start_addr[CellAt(r, x)]
        /\ Value(r, s_control_iter_num, x) = IterNum(r, x)
    BY DEF Value, s_scanned_entries, s_entries_load, s_last_valid_PE_ID,
       s_start_addr, s_control_iter_num
  <1> QED BY <1>1, <1>2, <1>3, <1>4, Wiring

\* What passes through the streams of a compute PE.
LEMMA PEValues ==
  ASSUME NEW r, NEW x \in Nat, NEW i \in PE
  PROVE  /\ History(r)[s_entries_ADC(i)][x] = Entries(r, x)
         /\ History(r)[s_distance_LUT(i)][x] = Row(r, RowNumber(r)[x][1])
         /\ History(r)[s_distance_LUT(i + 1)][x] = Row(r, RowNumber(r)[x][1])
         /\ History(r)[s_PQ_codes(i)][x] = CodeAt(r, i, x)
         /\ History(r)[s_PQ_result(i)][x] = ResultOf(r, i, x)
         /\ History(r)[s_selected(i)][x] =
              [query |-> Probe(r)[Round(r)[x][1]][1], result |-> ResultOf(r, i, x)]
  <1>1. \A c \in Stream : History(r)[c][x] = Value(r, c, x)
    BY DEF History
  <1>2. /\ Value(r, s_entries_ADC(i), x) = Entries(r, x)
        /\ Value(r, s_distance_LUT(i), x) = Row(r, RowNumber(r)[x][1])
        /\ Value(r, s_distance_LUT(i + 1), x) = Row(r, RowNumber(r)[x][1])
        /\ Value(r, s_PQ_codes(i), x) = CodeAt(r, i, x)
        /\ Value(r, s_PQ_result(i), x) = ResultOf(r, i, x)
        /\ Value(r, s_selected(i), x) =
             [query |-> Probe(r)[Round(r)[x][1]][1], result |-> ResultOf(r, i, x)]
    BY DEF Value, s_entries_ADC, s_distance_LUT, s_PQ_codes, s_PQ_result, s_selected
  <1> QED BY <1>1, <1>2, PEWiring

\* What passes through the header streams, and the first rows.
LEMMA HeaderValues ==
  ASSUME NEW r, NEW x \in Nat
  PROVE  /\ \A p \in Stages \cup {replicate} : History(r)[s_batch_header(p)][x] = HeaderOf(r, x)
         /\ History(r)[s_distance_LUT(0)][x] = Row(r, RowNumber(r)[x][1])
  <1>1. \A c \in Stream : History(r)[c][x] = Value(r, c, x)
    BY DEF History
  <1>2. /\ \A p : Value(r, s_batch_header(p), x) = HeaderOf(r, x)
        /\ Value(r, s_distance_LUT(0), x) = Row(r, RowNumber(r)[x][1])
    BY DEF Value, s_batch_header, s_distance_LUT
  <1> QED BY <1>1, <1>2, HeaderWiring, EndWiring

-----------------------------------------------------------------------------
(* Where a process is.  l is its local data, lf and np its left and nprobe; *)
(* rd and wr say how many values of each stream have been read and written. *)

\* It has read h headers, has lf queries of batch h to finish and n behind it.
Serves(r, h, lf, np, n) ==
  /\ h \in 0 .. BatchNum(r) + 1 /\ lf \in 0 .. Size(r, h)
  /\ lf > 0 => np = NProbe(r, h)
  /\ n = QueryTotal(r)[h] - lf

\* It is at the k-th of the cells of query n + 1, counted from 0.
Spot(r, n, k) ==
  k = 0 \/ (n \in 0 .. QueryNum(r) - 1 /\ k \in 1 .. Len(CellsOf(r, n + 1)) - 1)
Past(r, n, k) == ProbeTotal(r)[n] + k

\* The words of a query: its cell numbers, its vector, its centre vectors.
NetworkBody(r, h, n, lf, l, in, cell, query, center) ==
  LET start == h + WordTotal(r)[n]
      cells == CellsOf(r, n + 1)
      np == Len(cells)
  IN  \/ /\ l = [phase |-> "cells", pos |-> 0, word |-> <<>>]
         /\ in = start
         /\ cell = Past(r, n, 0) /\ query = n
         /\ center = Past(r, n, 0)
      \/ \E k \in 0 .. np - 1 :
           /\ lf > 0
           /\ \/ /\ k % CELLS_PER_WORD = 0
                 /\ l = [phase |-> "cells", pos |-> k, word |-> <<>>]
                 /\ in = start + k \div CELLS_PER_WORD
              \/ /\ l = [phase |-> "cells", pos |-> k,
                         word |-> CellWords(cells)[(k \div CELLS_PER_WORD) + 1].cells]
                 /\ in = start + (k \div CELLS_PER_WORD) + 1
           /\ cell = Past(r, n, k) /\ query = n
           /\ center = Past(r, n, 0)
      \/ /\ lf > 0
         /\ l = [phase |-> "query", pos |-> 0, word |-> <<>>]
         /\ in = start + WordNum(cells)
         /\ cell = Past(r, n, np) /\ query = n
         /\ center = Past(r, n, 0)
      \/ \E k \in 0 .. np - 1 :
           /\ lf > 0
           /\ l = [phase |-> "center", pos |-> k, word |-> <<>>]
           /\ in = start + WordNum(cells) + 1 + k
           /\ cell = Past(r, n, np) /\ query = n + 1
           /\ center = Past(r, n, k)

MetaBody(l, wr) ==
  \E m \in Nat : /\ l = [pos |-> m]
                 /\ wr[s_nlist_start_addr] = m /\ wr[s_nlist_num_vecs] = m
                 /\ wr[s_nlist_vec_ID_start_addr] = m

CellBody(r, n, l, rd, wr) ==
  \E k : /\ l = [pos |-> k] /\ Spot(r, n, k)
         /\ rd[s_cell_ID] = Past(r, n, k)
         /\ wr[s_cell_ID_get] = Past(r, n, k) /\ wr[s_cell_ID_load] = Past(r, n, k)

EntriesBody(r, n, l, rd, wr) ==
  \E k : /\ l = [pos |-> k] /\ Spot(r, n, k)
         /\ rd[s_scanned_entries] = Past(r, n, k)
         /\ wr[s_entries_load] = Past(r, n, k)
         /\ \A i \in PE : wr[s_entries_ADC(i)] = Past(r, n, k)

\* The first m cells are in the tables of get_cell.
Tables(addr, vecs, m) ==
  /\ IsSequence(addr) /\ IsSequence(vecs) /\ Len(addr) = m /\ Len(vecs) = m
  /\ \A j \in 1 .. m : addr[j] = start_addr[j - 1] /\ vecs[j] = num_vecs[j - 1]

GetCellBody(r, n, lf, l, rd, wr) ==
  \E addr, vecs, k : \E m \in 0 .. nlist :
    /\ l = [addr |-> addr, vecs |-> vecs, probe |-> k,
            iter_num |-> EntryTotal(r)[Past(r, n, k)] - EntryTotal(r)[Past(r, n, 0)]]
    /\ Tables(addr, vecs, m) /\ (lf > 0 => m = nlist)
    /\ rd[s_nlist_start_addr] = m /\ rd[s_nlist_num_vecs] = m
    /\ k = 0 \/ (lf > 0 /\ k \in 1 .. Len(CellsOf(r, n + 1)))
    /\ rd[s_cell_ID_get] = Past(r, n, k) /\ wr[s_scanned_entries] = Past(r, n, k)
    /\ wr[s_last_valid_PE_ID] = Past(r, n, k) /\ wr[s_start_addr] = Past(r, n, k)
    /\ wr[s_control_iter_num] = n

\* Values that load_codes has read of its four inputs.
Loads(rd, m) == /\ rd[s_cell_ID_load] = m /\ rd[s_entries_load] = m
                /\ rd[s_last_valid_PE_ID] = m /\ rd[s_start_addr] = m

LoadBody(r, n, lf, l, rd, wr) ==
  \E k : /\ Spot(r, n, k)
         /\ \/ /\ \E c : l = [probe |-> k, round |-> 0, cell |-> c] /\ c.rounds = 0
               /\ Loads(rd, Past(r, n, k))
               /\ \A i \in PE : wr[s_PQ_codes(i)] = EntryTotal(r)[Past(r, n, k)]
            \/ \E x \in 0 .. Entries(r, Past(r, n, k) + 1) - 1 :
                 /\ lf > 0
                 /\ l = [probe |-> k, round |-> x, cell |-> ReadCell(r, Past(r, n, k) + 1)]
                 /\ Loads(rd, Past(r, n, k) + 1)
                 /\ \A i \in PE : wr[s_PQ_codes(i)] = EntryTotal(r)[Past(r, n, k)] + x

LUTAt(r, n, lf, l, query, center, rows, k, q, c, x) ==
  LET g == Past(r, n, k)
      row == [query |-> q, center |-> c]
  IN  /\ Spot(r, n, k) /\ x \in 0 .. LUT_ENTRY_NUM - 1
      /\ rows = RowTotal(r)[g] + x
      /\ \/ /\ k = 0 /\ x = 0
            /\ l = [phase |-> "query", source |-> row, probe |-> k, row |-> x]
            /\ query = n /\ center = g
         \/ /\ lf > 0 /\ x = 0 /\ q = QueryVector(r, n + 1)
            /\ l = [phase |-> "center", source |-> row, probe |-> k, row |-> x]
            /\ query = n + 1 /\ center = g
         \/ /\ lf > 0 /\ row = Row(r, g + 1) /\ q = QueryVector(r, n + 1)
            /\ l = [phase |-> "rows", source |-> row, probe |-> k, row |-> x]
            /\ query = n + 1 /\ center = g + 1

LUTBody(r, n, lf, l, query, center, rows) ==
  \E k, q, c, x : LUTAt(r, n, lf, l, query, center, rows, k, q, c, x)

\* The first m rows of a table are those of probed cell g.
Filled(r, table, m, g) ==
  /\ DOMAIN table = 1 .. LUT_ENTRY_NUM
  /\ \A j \in 1 .. m : table[j] = Row(r, g)

ADCLocal(k, ph, e, x, t) ==
  [probe |-> k, phase |-> ph, entries |-> e, pos |-> x, LUT |-> [s \in {0, 1} |-> t[s]]]

\* PE i with one table: it loads the table of a cell, then scans its codes.
SingleAt(r, n, lf, l, entries, rows, codes, k, t, x) ==
    LET g == Past(r, n, k)
        e == Entries(r, g + 1)
    IN  /\ Spot(r, n, k) /\ x \in Nat
        /\ \A s \in {0, 1} : DOMAIN t[s] = 1 .. LUT_ENTRY_NUM
        /\ \/ /\ l = ADCLocal(k, "entries", 0, 0, t)
              /\ entries = g /\ rows = RowTotal(r)[g]
              /\ codes = EntryTotal(r)[g]
           \/ /\ lf > 0 /\ x < LUT_ENTRY_NUM
              /\ l = ADCLocal(k, "LUT", e, x, t) /\ Filled(r, t[0], x, g + 1)
              /\ entries = g + 1 /\ rows = RowTotal(r)[g] + x
              /\ codes = EntryTotal(r)[g]
           \/ /\ lf > 0 /\ x < e
              /\ l = ADCLocal(k, "scan", e, x, t) /\ Filled(r, t[0], LUT_ENTRY_NUM, g + 1)
              /\ entries = g + 1 /\ rows = RowTotal(r)[g + 1]
              /\ codes = EntryTotal(r)[g] + x

SingleBody(r, n, lf, l, entries, rows, codes) ==
  \E k, t, x : SingleAt(r, n, lf, l, entries, rows, codes, k, t, x)

\* PE i with two: while it loads the table of a cell it scans the cell before.
DoubleAt(r, n, lf, l, entries, rows, codes, k, t, x) ==
    LET g == Past(r, n, k)
        d == IF k = 0 THEN g ELSE g - 1
        e == IF k = 0 THEN 0 ELSE Entries(r, g)
        np == Len(CellsOf(r, n + 1))
    IN  /\ k = 0 \/ (lf > 0 /\ k \in 1 .. np)
        /\ x \in Nat
        /\ \A s \in {0, 1} : DOMAIN t[s] = 1 .. LUT_ENTRY_NUM
        /\ k > 0 => Filled(r, t[scanned_buffer(k)], LUT_ENTRY_NUM, g)
        /\ \/ /\ l = ADCLocal(k, "entries", 0, 0, t)
              /\ entries = d /\ rows = RowTotal(r)[g]
              /\ codes = EntryTotal(r)[d]
           \/ \E y, z \in Nat :
                /\ lf > 0 /\ (x < LUT_ENTRY_NUM \/ x < e)
                /\ l = ADCLocal(k, "both", e, x, t)
                /\ y = IF k = np THEN 0 ELSE IF x < LUT_ENTRY_NUM THEN x ELSE LUT_ENTRY_NUM
                /\ z = IF x < e THEN x ELSE e
                /\ k < np => Filled(r, t[loaded_buffer(k)], y, g + 1)
                /\ entries = g
                /\ rows = RowTotal(r)[g] + y
                /\ codes = EntryTotal(r)[d] + z

DoubleBody(r, n, lf, l, entries, rows, codes) ==
  \E k, t, x : DoubleAt(r, n, lf, l, entries, rows, codes, k, t, x)

ADCBody(r, i, n, lf, l, rd, wr) ==
  /\ wr[s_distance_LUT(i + 1)] = rd[s_distance_LUT(i)]
  /\ wr[s_PQ_result(i)] = rd[s_PQ_codes(i)]
  /\ IF r.double_buffer
     THEN DoubleBody(r, n, lf, l, rd[s_entries_ADC(i)], rd[s_distance_LUT(i)], rd[s_PQ_codes(i)])
     ELSE SingleBody(r, n, lf, l, rd[s_entries_ADC(i)], rd[s_distance_LUT(i)], rd[s_PQ_codes(i)])

\* The results of query n + 1 that are still to be taken of each PE.
SelectBody(r, n, lf, l, rd, wr) ==
  \E todo :
    /\ l = [query |-> n + 1, todo |-> todo] /\ DOMAIN todo = PE
    /\ \A i \in PE : wr[s_selected(i)] = rd[s_PQ_result(i)] /\ rd[s_selected(i)] = 0
    /\ \/ /\ rd[s_control_iter_num] = n
          /\ \A i \in PE : todo[i] = 0 /\ rd[s_PQ_result(i)] = EntryTotal(r)[Past(r, n, 0)]
       \/ /\ lf > 0 /\ rd[s_control_iter_num] = n + 1
          /\ \A i \in PE : /\ todo[i] \in 0 .. IterNum(r, n + 1)
                           /\ rd[s_PQ_result(i)] + todo[i] = EntryTotal(r)[Past(r, n + 1, 0)]
          /\ \E i \in PE : todo[i] # 0

StageBody(r, p, n, lf, l, rd, wr) ==
  /\ p = replicate_cell => CellBody(r, n, l, rd, wr)
  /\ p = get_cell => GetCellBody(r, n, lf, l, rd, wr)
  /\ p = replicate_entries => EntriesBody(r, n, l, rd, wr)
  /\ p = load_codes => LoadBody(r, n, lf, l, rd, wr)
  /\ p = LUT_construction =>
       LUTBody(r, n, lf, l, rd[s_query_vectors], rd[s_center_vectors], wr[s_distance_LUT(0)])
  /\ \A i \in PE : p = ADC(i) => ADCBody(r, i, n, lf, l, rd, wr)
  /\ p = K_selection => SelectBody(r, n, lf, l, rd, wr)

StageInv(r, p, lf, np, l, rd, wr) ==
  \E n : Serves(r, rd[s_batch_header(p)], lf, np, n) /\ StageBody(r, p, n, lf, l, rd, wr)

ProcessInv(r, p, lf, np, l, rd, wr) ==
  /\ p = network_input =>
       /\ wr[s_kernel_network_in] = BatchNum(r) + 1 + WordTotal(r)[QueryNum(r)]
       /\ \E n : /\ Serves(r, wr[s_batch_header(replicate)], lf, np, n)
                 /\ NetworkBody(r, wr[s_batch_header(replicate)], n, lf, l, rd[s_kernel_network_in],
                                wr[s_cell_ID], wr[s_query_vectors], wr[s_center_vectors])
  /\ p = replicate =>
       \A q \in Stages : wr[s_batch_header(q)] = rd[s_batch_header(replicate)]
  /\ p = load_meta => MetaBody(l, wr)
  /\ p \in Stages => StageInv(r, p, lf, np, l, rd, wr)

\* What process p sees stays as it is.
Untouched(p, rd, wr, rd2, wr2) ==
  \A c \in Stream : /\ Reader(c) \in {p, nobody} => rd2[c] = rd[c]
                    /\ Writer(c) \in {p, nobody} => wr2[c] = wr[c]

\* So do the streams of process p, the header streams aside.
SameData(p, rd, wr, rd2, wr2) ==
  \A c \in Stream : c[1] # "s_batch_header" =>
    /\ Reader(c) \in {p, nobody} => rd2[c] = rd[c]
    /\ Writer(c) \in {p, nobody} => wr2[c] = wr[c]

\* The streams that carry data.
LEMMA NotHeader ==
  /\ \A c \in {s_query_vectors, s_center_vectors, s_cell_ID,
          s_cell_ID_get, s_cell_ID_load, s_nlist_start_addr, s_nlist_num_vecs,
          s_scanned_entries, s_entries_load,
          s_last_valid_PE_ID, s_start_addr, s_control_iter_num} : c[1] # "s_batch_header"
  /\ \A i : /\ s_entries_ADC(i)[1] # "s_batch_header" /\ s_distance_LUT(i)[1] # "s_batch_header"
            /\ s_PQ_codes(i)[1] # "s_batch_header" /\ s_PQ_result(i)[1] # "s_batch_header"
            /\ s_selected(i)[1] # "s_batch_header"
BY DEF s_query_vectors, s_center_vectors, s_cell_ID, s_cell_ID_get, s_cell_ID_load,
       s_nlist_start_addr, s_nlist_num_vecs, s_scanned_entries, s_entries_load,
       s_last_valid_PE_ID, s_start_addr, s_control_iter_num, s_entries_ADC, s_distance_LUT,
       s_PQ_codes, s_PQ_result, s_selected

\* The place of a process depends on its own streams alone.
LEMMA BodyFrame ==
  ASSUME NEW r, NEW p, NEW n, NEW lf, NEW l, NEW rd, NEW wr, NEW rd2, NEW wr2,
         SameData(p, rd, wr, rd2, wr2), StageBody(r, p, n, lf, l, rd, wr)
  PROVE  StageBody(r, p, n, lf, l, rd2, wr2)
  <1>3. ASSUME p = replicate_cell PROVE CellBody(r, n, l, rd2, wr2)
    <2>1. /\ rd2[s_cell_ID] = rd[s_cell_ID] /\ wr2[s_cell_ID_get] = wr[s_cell_ID_get]
          /\ wr2[s_cell_ID_load] = wr[s_cell_ID_load]
      BY <1>3, Wiring, NotHeader DEF SameData
    <2>2. CellBody(r, n, l, rd, wr)
      BY <1>3 DEF StageBody
    <2> QED BY <2>1, <2>2, Zenon DEF CellBody
  <1>4. ASSUME p = get_cell PROVE GetCellBody(r, n, lf, l, rd2, wr2)
    <2>1. /\ rd2[s_cell_ID_get] = rd[s_cell_ID_get]
          /\ rd2[s_nlist_start_addr] = rd[s_nlist_start_addr]
          /\ rd2[s_nlist_num_vecs] = rd[s_nlist_num_vecs]
          /\ wr2[s_scanned_entries] = wr[s_scanned_entries]
          /\ wr2[s_last_valid_PE_ID] = wr[s_last_valid_PE_ID]
          /\ wr2[s_start_addr] = wr[s_start_addr]
          /\ wr2[s_control_iter_num] = wr[s_control_iter_num]
      BY <1>4, Wiring, NotHeader DEF SameData
    <2>2. GetCellBody(r, n, lf, l, rd, wr)
      BY <1>4 DEF StageBody
    <2> QED BY <2>1, <2>2, Zenon DEF GetCellBody
  <1>5. ASSUME p = replicate_entries PROVE EntriesBody(r, n, l, rd2, wr2)
    <2>1. /\ rd2[s_scanned_entries] = rd[s_scanned_entries]
          /\ wr2[s_entries_load] = wr[s_entries_load]
          /\ \A i \in PE : wr2[s_entries_ADC(i)] = wr[s_entries_ADC(i)]
      BY <1>5, Wiring, PEWiring, NotHeader DEF SameData
    <2>2. EntriesBody(r, n, l, rd, wr)
      BY <1>5 DEF StageBody
    <2> QED BY <2>1, <2>2 DEF EntriesBody
  <1>6. ASSUME p = load_codes PROVE LoadBody(r, n, lf, l, rd2, wr2)
    <2>1. /\ rd2[s_cell_ID_load] = rd[s_cell_ID_load] /\ rd2[s_entries_load] = rd[s_entries_load]
          /\ rd2[s_last_valid_PE_ID] = rd[s_last_valid_PE_ID]
          /\ rd2[s_start_addr] = rd[s_start_addr]
      BY <1>6, Wiring, NotHeader DEF SameData
    <2>2. \A i \in PE : wr2[s_PQ_codes(i)] = wr[s_PQ_codes(i)]
      BY <1>6, PEWiring, NotHeader DEF SameData
    <2>3. \A m : /\ (\A i \in PE : wr2[s_PQ_codes(i)] = m) <=> (\A i \in PE : wr[s_PQ_codes(i)] = m)
                 /\ Loads(rd2, m) <=> Loads(rd, m)
      BY <2>1, <2>2 DEF Loads
    <2>4. LoadBody(r, n, lf, l, rd, wr)
      BY <1>6 DEF StageBody
    <2> QED BY <2>3, <2>4, Zenon DEF LoadBody
  <1>7. ASSUME p = LUT_construction 
        PROVE  LUTBody(r, n, lf, l, rd2[s_query_vectors], rd2[s_center_vectors],
                       wr2[s_distance_LUT(0)])
    <2>1. /\ rd2[s_query_vectors] = rd[s_query_vectors]
          /\ rd2[s_center_vectors] = rd[s_center_vectors]
          /\ wr2[s_distance_LUT(0)] = wr[s_distance_LUT(0)]
      BY <1>7, Wiring, EndWiring, NotHeader DEF SameData
    <2>2. LUTBody(r, n, lf, l, rd[s_query_vectors], rd[s_center_vectors], wr[s_distance_LUT(0)])
      BY <1>7 DEF StageBody
    <2> QED BY <2>1, <2>2
  <1>8. ASSUME NEW i \in PE, p = ADC(i) PROVE ADCBody(r, i, n, lf, l, rd2, wr2)
    <2>1. /\ rd2[s_entries_ADC(i)] = rd[s_entries_ADC(i)]
          /\ rd2[s_distance_LUT(i)] = rd[s_distance_LUT(i)]
          /\ rd2[s_PQ_codes(i)] = rd[s_PQ_codes(i)]
          /\ wr2[s_distance_LUT(i + 1)] = wr[s_distance_LUT(i + 1)]
          /\ wr2[s_PQ_result(i)] = wr[s_PQ_result(i)]
      BY <1>8, PEWiring, NotHeader DEF SameData
    <2>2. ADCBody(r, i, n, lf, l, rd, wr)
      BY <1>8 DEF StageBody
    <2> QED BY <2>1, <2>2 DEF ADCBody
  <1>9. ASSUME p = K_selection PROVE SelectBody(r, n, lf, l, rd2, wr2)
    <2>1. /\ rd2[s_control_iter_num] = rd[s_control_iter_num]
          /\ \A i \in PE : /\ rd2[s_PQ_result(i)] = rd[s_PQ_result(i)]
                           /\ rd2[s_selected(i)] = rd[s_selected(i)]
                           /\ wr2[s_selected(i)] = wr[s_selected(i)]
      BY <1>9, Wiring, PEWiring, NotHeader DEF SameData
    <2>2. PICK todo :
            /\ l = [query |-> n + 1, todo |-> todo] /\ DOMAIN todo = PE
            /\ \A i \in PE : wr[s_selected(i)] = rd[s_PQ_result(i)] /\ rd[s_selected(i)] = 0
            /\ \/ /\ rd[s_control_iter_num] = n
                  /\ \A i \in PE : todo[i] = 0 /\ rd[s_PQ_result(i)] = EntryTotal(r)[Past(r, n, 0)]
               \/ /\ lf > 0 /\ rd[s_control_iter_num] = n + 1
                  /\ \A i \in PE : /\ todo[i] \in 0 .. IterNum(r, n + 1)
                                   /\ rd[s_PQ_result(i)] + todo[i] = EntryTotal(r)[Past(r, n + 1, 0)]
                  /\ \E i \in PE : todo[i] # 0
      BY <1>9, Zenon DEF StageBody, SelectBody
    <2>3. \A i \in PE : wr2[s_selected(i)] = rd2[s_PQ_result(i)] /\ rd2[s_selected(i)] = 0
      BY <2>1, <2>2
    <2>4. \/ /\ rd2[s_control_iter_num] = n
             /\ \A i \in PE : todo[i] = 0 /\ rd2[s_PQ_result(i)] = EntryTotal(r)[Past(r, n, 0)]
          \/ /\ lf > 0 /\ rd2[s_control_iter_num] = n + 1
             /\ \A i \in PE : /\ todo[i] \in 0 .. IterNum(r, n + 1)
                              /\ rd2[s_PQ_result(i)] + todo[i] = EntryTotal(r)[Past(r, n + 1, 0)]
             /\ \E i \in PE : todo[i] # 0
      BY <2>1, <2>2
    <2> QED BY <2>2, <2>3, <2>4, Zenon DEF SelectBody
  <1> QED BY <1>3, <1>4, <1>5, <1>6, <1>7, <1>8, <1>9, Zenon DEF StageBody

\* A process that has not moved is where it was.
LEMMA Frame ==
  ASSUME NEW r, NEW p, NEW rd, NEW wr, NEW rd2, NEW wr2, Untouched(p, rd, wr, rd2, wr2),
         NEW lf, NEW np, NEW l, ProcessInv(r, p, lf, np, l, rd, wr)
  PROVE  ProcessInv(r, p, lf, np, l, rd2, wr2)
  <1>1. ASSUME p = network_input
        PROVE  /\ wr2[s_kernel_network_in] = BatchNum(r) + 1 + WordTotal(r)[QueryNum(r)]
               /\ \E n :
                    /\ Serves(r, wr2[s_batch_header(replicate)], lf, np, n)
                    /\ NetworkBody(r, wr2[s_batch_header(replicate)], n, lf, l,
                                   rd2[s_kernel_network_in], wr2[s_cell_ID],
                                   wr2[s_query_vectors], wr2[s_center_vectors])
    <2>1. /\ wr2[s_batch_header(replicate)] = wr[s_batch_header(replicate)]
          /\ rd2[s_kernel_network_in] = rd[s_kernel_network_in]
          /\ wr2[s_kernel_network_in] = wr[s_kernel_network_in]
          /\ wr2[s_query_vectors] = wr[s_query_vectors] /\ wr2[s_cell_ID] = wr[s_cell_ID]
          /\ wr2[s_center_vectors] = wr[s_center_vectors]
      BY <1>1, Wiring, HeaderWiring DEF Untouched
    <2> QED BY <1>1, <2>1 DEF ProcessInv
  <1>2. ASSUME p = replicate
        PROVE  \A q \in Stages : wr2[s_batch_header(q)] = rd2[s_batch_header(replicate)]
    <2>1. /\ rd2[s_batch_header(replicate)] = rd[s_batch_header(replicate)]
          /\ \A q \in Stages : wr2[s_batch_header(q)] = wr[s_batch_header(q)]
      BY <1>2, HeaderWiring DEF Untouched
    <2> QED BY <1>2, <2>1 DEF ProcessInv
  <1>3. ASSUME p = load_meta PROVE MetaBody(l, wr2)
    <2>1. /\ wr2[s_nlist_start_addr] = wr[s_nlist_start_addr]
          /\ wr2[s_nlist_num_vecs] = wr[s_nlist_num_vecs]
          /\ wr2[s_nlist_vec_ID_start_addr] = wr[s_nlist_vec_ID_start_addr]
      BY <1>3, Wiring DEF Untouched
    <2> QED BY <1>3, <2>1 DEF ProcessInv, MetaBody
  <1>4. ASSUME p \in Stages PROVE StageInv(r, p, lf, np, l, rd2, wr2)
    <2>1. rd2[s_batch_header(p)] = rd[s_batch_header(p)]
      BY <1>4, HeaderWiring DEF Untouched
    <2>2. PICK n : Serves(r, rd[s_batch_header(p)], lf, np, n) /\ StageBody(r, p, n, lf, l, rd, wr)
      BY <1>4 DEF ProcessInv, StageInv
    <2>3. SameData(p, rd, wr, rd2, wr2)
      BY DEF Untouched, SameData
    <2>4. StageBody(r, p, n, lf, l, rd2, wr2)
      BY <2>2, <2>3, BodyFrame
    <2> QED BY <2>1, <2>2, <2>4 DEF StageInv
  <1> QED BY <1>1, <1>2, <1>3, <1>4, Zenon DEF ProcessInv

-----------------------------------------------------------------------------
(* The invariant. *)

At(r, rd, wr) ==
  /\ r \in Requests /\ request = r
  /\ FlowInv(History(r), Stream, rd, wr)
  /\ DOMAIN at = Process /\ DOMAIN left = Process /\ DOMAIN nprobe = Process
  /\ \A p \in Process : ProcessInv(r, p, left[p], nprobe[p], at[p], rd, wr)

ScanInv == \E r, rd, wr : At(r, rd, wr)

\* Process p moves, the others do not.
Moves(p) ==
  /\ request' = request
  /\ DOMAIN at' = Process /\ DOMAIN left' = Process /\ DOMAIN nprobe' = Process
  /\ \A q \in Process \ {p} : at'[q] = at[q] /\ left'[q] = left[q] /\ nprobe'[q] = nprobe[q]

\* Process p reads its streams and writes to them what comes next: it is enough
\* to know where it is afterwards.
LEMMA Step ==
  ASSUME NEW r, NEW rd, NEW wr, At(r, rd, wr), NEW p \in Process, Moves(p),
         NEW takes \in SUBSET Stream, NEW puts, DOMAIN puts \in SUBSET Stream,
         Transfer(takes, puts),
         \A c \in takes : Reader(c) = p, \A c \in DOMAIN puts : Writer(c) = p,
         \A c \in DOMAIN puts : puts[c] = History(r)[c][wr[c] + 1],
         ProcessInv(r, p, left'[p], nprobe'[p], at'[p],
                    Counted(Stream, rd, takes), Counted(Stream, wr, DOMAIN puts))
  PROVE  ScanInv'
  <1> DEFINE R == Counted(Stream, rd, takes)
             W == Counted(Stream, wr, DOMAIN puts)
  <1>1. PICK t, u, R2, W2 : t = takes /\ u = puts /\ R2 = R /\ W2 = W
    OBVIOUS
  <1>2. takes \cap DOMAIN puts = {}
    BY NoLoop DEF nobody, Process, Stages, network_input, replicate, load_meta, LUT_construction,
       replicate_cell, get_cell, replicate_entries, load_codes, ADC, LUT_consumer, K_selection
  <1>3. FlowInv(History(r), Stream, rd, wr)
    BY DEF At
  <1>4. /\ t \in SUBSET Stream /\ DOMAIN u \in SUBSET Stream /\ Transfer(t, u)
        /\ t \cap DOMAIN u = {}
        /\ \A c \in DOMAIN u : u[c] = History(r)[c][wr[c] + 1]
    BY <1>1, <1>2
  <1>5. FlowInv(History(r), Stream, Counted(Stream, rd, t), Counted(Stream, wr, DOMAIN u))'
    BY <1>3, <1>4, FlowStep
  <1>6. R2 = Counted(Stream, rd, t) /\ W2 = Counted(Stream, wr, DOMAIN u)
    BY <1>1
  <1>7. FlowInv(History(r), Stream, R2, W2)'
    BY <1>5, <1>6
  <1>8. ASSUME NEW q \in Process
        PROVE  ProcessInv(r, q, left'[q], nprobe'[q], at'[q], R2, W2)
    <2>1. CASE q = p
      BY <1>1, <2>1
    <2>2. CASE q # p
      <3>1. Untouched(q, rd, wr, R2, W2)
        <4>1. ASSUME NEW c \in Stream
              PROVE  /\ Reader(c) \in {q, nobody} => R2[c] = rd[c]
                     /\ Writer(c) \in {q, nobody} => W2[c] = wr[c]
          <5>1. p # nobody
            BY DEF nobody, Process, Stages, network_input, replicate, load_meta, LUT_construction,
               replicate_cell, get_cell, replicate_entries, load_codes, ADC, LUT_consumer, K_selection
          <5>2. /\ Reader(c) \in {q, nobody} => c \notin takes
                /\ Writer(c) \in {q, nobody} => c \notin DOMAIN puts
            BY <2>2, <5>1
          <5> QED BY <1>1, <5>2 DEF Counted
        <4> QED BY <4>1 DEF Untouched
      <3>2. ProcessInv(r, q, left[q], nprobe[q], at[q], R2, W2)
        BY <3>1, Frame DEF At
      <3>3. left'[q] = left[q] /\ nprobe'[q] = nprobe[q] /\ at'[q] = at[q]
        BY <2>2 DEF Moves
      <3> QED BY <3>2, <3>3
    <2> QED BY <2>1, <2>2
  <1>9. At(r, R2, W2)'
    <2>1. r \in Requests /\ request' = r
      BY DEF At, Moves
    <2>2. DOMAIN at' = Process /\ DOMAIN left' = Process /\ DOMAIN nprobe' = Process
      BY DEF Moves
    <2> QED BY <1>7, <1>8, <2>1, <2>2 DEF At
  <1> QED BY <1>9 DEF ScanInv

\* What a process reads.
LEMMA Reading ==
  ASSUME NEW r, NEW rd, NEW wr, At(r, rd, wr), NEW c \in Stream
  PROVE  /\ rd[c] \in Nat /\ wr[c] \in Nat /\ rd[c] <= wr[c]
         /\ fifo[c] # <<>> => Head(fifo[c]) = History(r)[c][rd[c] + 1] /\ rd[c] < wr[c]
  <1>1. /\ rd[c] \in Nat /\ wr[c] \in Nat /\ IsSequence(fifo[c]) /\ wr[c] = rd[c] + Len(fifo[c])
        /\ InOrder(History(r)[c], fifo[c], rd[c])
    BY DEF At, FlowInv
  <1>2. Len(fifo[c]) \in Nat /\ (fifo[c] = <<>> <=> Len(fifo[c]) = 0)
    BY <1>1, Sequences
  <1>3. fifo[c] # <<>> => Head(fifo[c]) = History(r)[c][rd[c] + 1]
    BY <1>1, TailInOrder
  <1> QED BY <1>1, <1>2, <1>3

-----------------------------------------------------------------------------
(* The queries a process serves. *)

Served(r, h, lf, np, n) ==
  /\ n \in 0 .. QueryNum(r) /\ lf \in Nat /\ ProbeTotal(r)[n] \in 0 .. ProbeNum(r)
  /\ ProbeNum(r) \in Nat /\ QueryNum(r) \in Nat
  /\ h \in 0 .. BatchNum(r) + 1
  /\ lf > 0 => /\ h \in 1 .. BatchNum(r) /\ lf \in 1 .. Size(r, h)
               /\ n \in 0 .. QueryNum(r) - 1 /\ n + 1 \in 1 .. QueryNum(r)
               /\ np = Len(CellsOf(r, n + 1)) /\ np \in Nat \ {0}
               /\ CellsOf(r, n + 1) \in Seq(Cell)
               /\ Query(r)[n + 1] = <<h, Size(r, h) - lf + 1>>
               /\ ProbeTotal(r)[n + 1] = ProbeTotal(r)[n] + np
               /\ Serves(r, h, lf - 1, np, n + 1)
               /\ \A k \in 1 .. np : /\ ProbeTotal(r)[n] + k \in 1 .. ProbeNum(r)
                                     /\ Probe(r)[ProbeTotal(r)[n] + k] = <<n + 1, k>>
                                     /\ CellAt(r, ProbeTotal(r)[n] + k) = CellsOf(r, n + 1)[k]

\* It has a query to work on: it knows the number of its cells.
LEMMA Serving ==
  ASSUME NEW r \in Requests, NEW h, NEW lf, NEW np, NEW n, Serves(r, h, lf, np, n)
  PROVE  Served(r, h, lf, np, n)
  <1> DEFINE N == QueryNum(r)
             B == BatchNum(r)
             S == Size(r, h)
             Q == QueryTotal(r)
  <1>1. /\ h \in 0 .. B + 1 /\ lf \in 0 .. S /\ n = Q[h] - lf /\ (lf > 0 => np = NProbe(r, h))
        /\ B \in Nat /\ S \in Nat
    BY Batches DEF Serves
  <1>2. /\ N \in Nat /\ Q[h] \in 0 .. N /\ ProbeNum(r) \in Nat
        /\ \A m \in 0 .. N : ProbeTotal(r)[m] \in 0 .. ProbeNum(r)
        /\ Q[0] = 0 /\ (h \in 1 .. B + 1 => Q[h] = Q[h - 1] + S)
        /\ (h \in 1 .. B + 1 => Q[h - 1] \in 0 .. N)
    <2>1. h \in 1 .. B + 1 => h - 1 \in 0 .. B + 1
      BY <1>1
    <2> QED BY <1>1, <2>1, QueryFacts, ProbeFacts
  <1>3. h \notin 1 .. B => S = 0
    BY DEF Size
  <1> HIDE DEF N, B, S, Q
  <1>4. h \in 0 .. B + 1 /\ (h = 0 \/ h \in 1 .. B + 1)
    BY <1>1
  <1>5. n \in 0 .. N
    <2>1. CASE h = 0
      <3>1. h \notin 1 .. B
        BY <1>1, <2>1
      <3> QED BY <1>1, <1>2, <1>3, <2>1, <3>1
    <2>2. CASE h \in 1 .. B + 1
      BY <1>1, <1>2, <2>2
    <2> QED BY <1>4, <2>1, <2>2
  <1>6. ASSUME lf > 0
        PROVE  /\ h \in 1 .. B /\ lf \in 1 .. S
               /\ n \in 0 .. N - 1 /\ n + 1 \in 1 .. N
               /\ np = Len(CellsOf(r, n + 1)) /\ np \in Nat \ {0}
               /\ CellsOf(r, n + 1) \in Seq(Cell)
               /\ Query(r)[n + 1] = <<h, S - lf + 1>>
               /\ ProbeTotal(r)[n + 1] = ProbeTotal(r)[n] + np
               /\ Serves(r, h, lf - 1, np, n + 1)
               /\ \A k \in 1 .. np : /\ ProbeTotal(r)[n] + k \in 1 .. ProbeNum(r)
                                     /\ Probe(r)[ProbeTotal(r)[n] + k] = <<n + 1, k>>
                                     /\ CellAt(r, ProbeTotal(r)[n] + k) = CellsOf(r, n + 1)[k]
    <2>1. lf \in 1 .. S
      BY <1>1, <1>6
    <2>2. h \in 1 .. B
      <3> SUFFICES ASSUME h \notin 1 .. B PROVE FALSE
        OBVIOUS
      <3>1. S = 0
        BY <1>3
      <3> QED BY <2>1, <3>1
    <2>3. NProbe(r, h) \in Nat \ {0} /\ np = NProbe(r, h)
      BY <1>1, <1>6, <2>2, Batches DEF B
    <2>4. /\ n \in 0 .. N - 1 /\ n + 1 \in 1 .. N
          /\ Query(r)[n + 1] = <<h, S - lf + 1>>
          /\ Len(CellsOf(r, n + 1)) = np /\ CellsOf(r, n + 1) \in Seq(Cell)
          /\ ProbeTotal(r)[n + 1] = ProbeTotal(r)[n] + np
          /\ \A k \in 1 .. np : /\ ProbeTotal(r)[n] + k \in 1 .. ProbeNum(r)
                                /\ Probe(r)[ProbeTotal(r)[n] + k] = <<n + 1, k>>
      <3> DEFINE m == NProbe(r, h)
      <3>1. h \in 1 .. BatchNum(r) /\ lf \in 1 .. Size(r, h) /\ n = QueryTotal(r)[h] - lf
        BY <1>1, <2>1, <2>2 DEF B, S, Q
      <3>2. IsAtQuery(r, h, lf, n)
        BY <3>1, AtQuery
      <3>3. m = np
        BY <2>3
      <3> HIDE DEF m
      <3>4. /\ n \in 0 .. QueryNum(r) - 1 /\ n + 1 \in 1 .. QueryNum(r)
            /\ Query(r)[n + 1] = <<h, Size(r, h) - lf + 1>>
            /\ Len(CellsOf(r, n + 1)) = m /\ CellsOf(r, n + 1) \in Seq(Cell)
            /\ ProbeTotal(r)[n + 1] = ProbeTotal(r)[n] + m
            /\ \A k \in 1 .. m : /\ ProbeTotal(r)[n] + k \in 1 .. ProbeNum(r)
                                 /\ Probe(r)[ProbeTotal(r)[n] + k] = <<n + 1, k>>
        BY <3>2, Zenon DEF IsAtQuery, m
      <3> QED BY <3>3, <3>4, Zenon DEF N, S
    <2>5. Serves(r, h, lf - 1, np, n + 1)
      <3>1. lf - 1 \in 0 .. S /\ n + 1 = Q[h] - (lf - 1)
        BY <1>1, <1>2, <2>1
      <3>2. h \in 0 .. B + 1 /\ np = NProbe(r, h)
        BY <1>1, <2>3
      <3>3. h \in 0 .. BatchNum(r) + 1 /\ lf - 1 \in 0 .. Size(r, h)
            /\ n + 1 = QueryTotal(r)[h] - (lf - 1)
        BY <3>1, <3>2 DEF B, S, Q
      <3> QED BY <3>2, <3>3 DEF Serves
    <2>6. \A k \in 1 .. np : CellAt(r, ProbeTotal(r)[n] + k) = CellsOf(r, n + 1)[k]
      <3> TAKE k \in 1 .. np
      <3> DEFINE g == ProbeTotal(r)[n] + k
      <3>1. Probe(r)[g] = <<n + 1, k>>
        BY <2>4
      <3> HIDE DEF g
      <3>2. CellAt(r, g) = CellsOf(r, n + 1)[k]
        BY <3>1 DEF CellAt
      <3> QED BY <3>2 DEF g
    <2>7. \A k \in 1 .. np : /\ ProbeTotal(r)[n] + k \in 1 .. ProbeNum(r)
                              /\ Probe(r)[ProbeTotal(r)[n] + k] = <<n + 1, k>>
                              /\ CellAt(r, ProbeTotal(r)[n] + k) = CellsOf(r, n + 1)[k]
      BY <2>4, <2>6
    <2>8. np \in Nat \ {0}
      BY <2>3
    <2>9. np = Len(CellsOf(r, n + 1))
      BY <2>4
    <2> QED BY <2>1, <2>2, <2>4, <2>5, <2>7, <2>8, <2>9, Zenon
  <1>7. lf \in Nat /\ ProbeTotal(r)[n] \in 0 .. ProbeNum(r)
    BY <1>1, <1>2, <1>5
  <1> QED BY <1>1, <1>2, <1>5, <1>6, <1>7, Zenon DEF N, B, S, Served

\* The next cell of the query, or the first of the next query.
LEMMA NextCell ==
  ASSUME NEW r \in Requests, NEW h, NEW lf, NEW np, NEW n, Serves(r, h, lf, np, n), lf > 0,
         NEW k, Spot(r, n, k)
  PROVE  /\ k \in 0 .. np - 1 /\ np \in Nat \ {0} /\ np = Len(CellsOf(r, n + 1))
         /\ Past(r, n, k) \in Nat /\ Past(r, n, k) + 1 \in 1 .. ProbeNum(r)
         /\ Probe(r)[Past(r, n, k) + 1] = <<n + 1, k + 1>>
         /\ CellAt(r, Past(r, n, k) + 1) = CellsOf(r, n + 1)[k + 1]
         /\ \E m : /\ Serves(r, h, IF k + 1 = np THEN lf - 1 ELSE lf, np, m)
                   /\ Spot(r, m, (k + 1) % np) /\ Past(r, m, (k + 1) % np) = Past(r, n, k) + 1
                   /\ k + 1 = np => m = n + 1 /\ (k + 1) % np = 0
                   /\ k + 1 # np => m = n /\ (k + 1) % np = k + 1
  <1> DEFINE P == ProbeTotal(r)
             PN == ProbeNum(r)
  <1>1. /\ np = Len(CellsOf(r, n + 1)) /\ np \in Nat \ {0} /\ n \in 0 .. QueryNum(r) - 1
        /\ P[n + 1] = P[n] + np /\ P[n] \in Nat /\ PN \in Nat
    <2>1. Served(r, h, lf, np, n)
      BY Serving
    <2> QED BY <2>1 DEF Served
  <1>2. \A j \in 1 .. np : /\ P[n] + j \in 1 .. PN /\ Probe(r)[P[n] + j] = <<n + 1, j>>
                           /\ CellAt(r, P[n] + j) = CellsOf(r, n + 1)[j]
    <2>1. Served(r, h, lf, np, n)
      BY Serving
    <2> QED BY <2>1 DEF Served
  <1>3. k \in 0 .. np - 1
    BY <1>1 DEF Spot
  <1> HIDE DEF P, PN
  <1>4. k + 1 \in 1 .. np /\ P[n] + (k + 1) = P[n] + k + 1 /\ P[n] + k \in Nat
    BY <1>1, <1>3
  <1>5. /\ P[n] + k + 1 \in 1 .. PN /\ Probe(r)[P[n] + k + 1] = <<n + 1, k + 1>>
        /\ CellAt(r, P[n] + k + 1) = CellsOf(r, n + 1)[k + 1]
    BY <1>2, <1>4
  <1>6. k + 1 = np => (k + 1) % np = 0 /\ P[n + 1] + 0 = P[n] + k + 1
    <2>1. np % np = 0
      <3>1. np = 1 * np + 0 /\ 0 \in 0 .. np - 1 /\ 1 \in Nat
        BY <1>1
      <3>2. (1 * np + 0) % np = 0
        BY <1>1, <3>1, Division
      <3> QED BY <3>1, <3>2
    <2> QED BY <1>1, <1>3, <2>1
  <1>7. k + 1 # np => (k + 1) % np = k + 1 /\ P[n] + (k + 1) = P[n] + k + 1 /\ Spot(r, n, k + 1)
    <2> SUFFICES ASSUME k + 1 # np
                 PROVE  (k + 1) % np = k + 1 /\ P[n] + (k + 1) = P[n] + k + 1 /\ Spot(r, n, k + 1)
      OBVIOUS
    <2>1. k + 1 \in 0 .. np - 1 /\ k + 1 \in 1 .. np - 1 /\ 0 * np + (k + 1) = k + 1 /\ 0 \in Nat
      BY <1>1, <1>3
    <2>2. (0 * np + (k + 1)) % np = k + 1
      BY <1>1, <2>1, Division
    <2> QED BY <1>1, <1>4, <2>1, <2>2 DEF Spot
  <1>8. Serves(r, h, lf - 1, np, n + 1)
    <2>1. Served(r, h, lf, np, n)
      BY Serving
    <2> QED BY <2>1 DEF Served
  <1>9. ASSUME k + 1 = np
        PROVE  \E m : /\ Serves(r, h, IF k + 1 = np THEN lf - 1 ELSE lf, np, m)
                      /\ Spot(r, m, (k + 1) % np) /\ P[m] + ((k + 1) % np) = P[n] + k + 1
                      /\ k + 1 = np => m = n + 1 /\ (k + 1) % np = 0
                      /\ k + 1 # np => m = n /\ (k + 1) % np = k + 1
    BY <1>6, <1>8, <1>9 DEF Spot
  <1>10. ASSUME k + 1 # np
         PROVE  \E m : /\ Serves(r, h, IF k + 1 = np THEN lf - 1 ELSE lf, np, m)
                       /\ Spot(r, m, (k + 1) % np) /\ P[m] + ((k + 1) % np) = P[n] + k + 1
                       /\ k + 1 = np => m = n + 1 /\ (k + 1) % np = 0
                       /\ k + 1 # np => m = n /\ (k + 1) % np = k + 1
    BY <1>7, <1>10
  <1>11. \E m : /\ Serves(r, h, IF k + 1 = np THEN lf - 1 ELSE lf, np, m)
                /\ Spot(r, m, (k + 1) % np) /\ P[m] + ((k + 1) % np) = P[n] + k + 1
                /\ k + 1 = np => m = n + 1 /\ (k + 1) % np = 0
                /\ k + 1 # np => m = n /\ (k + 1) % np = k + 1
    BY <1>9, <1>10
  <1> QED BY <1>1, <1>3, <1>4, <1>5, <1>11 DEF Past, P, PN

\* A process has read or written its next values.
LEMMA FinishMoves ==
  ASSUME NEW r, NEW rd, NEW wr, At(r, rd, wr), NEW p \in Process, NEW local, NEW last,
         at' = [at EXCEPT ![p] = local], Finish(p, last), request' = request
  PROVE  /\ Moves(p) /\ at'[p] = local /\ nprobe'[p] = nprobe[p]
         /\ left'[p] = IF last THEN left[p] - 1 ELSE left[p]
  <1>1. DOMAIN at = Process /\ DOMAIN left = Process /\ DOMAIN nprobe = Process
    BY DEF At
  <1>2. nprobe' = nprobe /\ left' = IF last THEN [left EXCEPT ![p] = @ - 1] ELSE left
    BY DEF Finish, QueryDone, Continues
  <1>3. /\ DOMAIN at' = Process /\ DOMAIN left' = Process /\ DOMAIN nprobe' = Process
        /\ at'[p] = local /\ left'[p] = IF last THEN left[p] - 1 ELSE left[p]
        /\ \A q \in Process \ {p} : at'[q] = at[q] /\ left'[q] = left[q] /\ nprobe'[q] = nprobe[q]
    BY <1>1, <1>2
  <1> QED BY <1>2, <1>3 DEF Moves

\* What the place of each process says.
LEMMA Bodies ==
  ASSUME NEW r, NEW n, NEW lf, NEW l, NEW rd, NEW wr
  PROVE  /\ StageBody(r, replicate_cell, n, lf, l, rd, wr) <=> CellBody(r, n, l, rd, wr)
         /\ StageBody(r, get_cell, n, lf, l, rd, wr) <=> GetCellBody(r, n, lf, l, rd, wr)
         /\ StageBody(r, replicate_entries, n, lf, l, rd, wr) <=> EntriesBody(r, n, l, rd, wr)
         /\ StageBody(r, load_codes, n, lf, l, rd, wr) <=> LoadBody(r, n, lf, l, rd, wr)
         /\ StageBody(r, LUT_construction, n, lf, l, rd, wr) <=>
              LUTBody(r, n, lf, l, rd[s_query_vectors], rd[s_center_vectors], wr[s_distance_LUT(0)])
         /\ \A i \in PE : StageBody(r, ADC(i), n, lf, l, rd, wr) <=> ADCBody(r, i, n, lf, l, rd, wr)
         /\ StageBody(r, K_selection, n, lf, l, rd, wr) <=> SelectBody(r, n, lf, l, rd, wr)
         /\ StageBody(r, LUT_consumer, n, lf, l, rd, wr)
  <1>1. /\ \A i, j \in PE : ADC(i) = ADC(j) => i = j
        /\ \A i \in PE : ADC(i) \notin {replicate_cell, get_cell, replicate_entries, load_codes,
                                        LUT_construction, K_selection, LUT_consumer}
    BY DEF ADC, LUT_construction, replicate_cell, get_cell, replicate_entries, load_codes,
           LUT_consumer, K_selection
  <1>2. /\ replicate_cell \notin {get_cell, replicate_entries, load_codes,
                                  LUT_construction, K_selection, LUT_consumer}
        /\ get_cell \notin {replicate_entries, load_codes, LUT_construction, K_selection, LUT_consumer}
        /\ replicate_entries \notin {load_codes, LUT_construction, K_selection, LUT_consumer}
        /\ load_codes \notin {LUT_construction, K_selection, LUT_consumer}
        /\ LUT_construction \notin {K_selection, LUT_consumer}
        /\ K_selection # LUT_consumer
    BY DEF LUT_construction, replicate_cell, get_cell, replicate_entries, load_codes,
           LUT_consumer, K_selection
  <1> QED BY <1>1, <1>2, Zenon DEF StageBody

\* The stages are processes, and none of the other three.
LEMMA StagesAre ==
  /\ Stages \subseteq Process
  /\ \A p \in Stages : p \notin {network_input, replicate, load_meta}
  /\ {replicate_cell, get_cell, replicate_entries, load_codes, LUT_construction, LUT_consumer,
      K_selection} \subseteq Stages
  /\ \A i \in PE : ADC(i) \in Stages
  /\ {network_input, replicate, load_meta} \subseteq Process
  /\ network_input \notin {replicate, load_meta} /\ replicate # load_meta
BY DEF Process, Stages, network_input, replicate, load_meta, LUT_construction,
       replicate_cell, get_cell, replicate_entries, load_codes, ADC, LUT_consumer, K_selection

\* A stage moves within its batch.
LEMMA StageStep ==
  ASSUME NEW r, NEW rd, NEW wr, At(r, rd, wr), NEW p \in Stages, Moves(p),
         NEW takes \in SUBSET Stream, NEW puts, DOMAIN puts \in SUBSET Stream,
         Transfer(takes, puts),
         \A c \in takes : Reader(c) = p /\ c[1] # "s_batch_header",
         \A c \in DOMAIN puts : Writer(c) = p,
         \A c \in DOMAIN puts : puts[c] = History(r)[c][wr[c] + 1],
         nprobe'[p] = nprobe[p],
         NEW n, Serves(r, rd[s_batch_header(p)], left'[p], nprobe[p], n),
         StageBody(r, p, n, left'[p], at'[p],
                   Counted(Stream, rd, takes), Counted(Stream, wr, DOMAIN puts))
  PROVE  ScanInv'
  <1> DEFINE R == Counted(Stream, rd, takes)
             W == Counted(Stream, wr, DOMAIN puts)
  <1>1. R[s_batch_header(p)] = rd[s_batch_header(p)]
    <2>1. s_batch_header(p) \in Stream /\ s_batch_header(p)[1] = "s_batch_header"
      BY HeaderWiring DEF s_batch_header
    <2> QED BY <2>1 DEF Counted
  <1> HIDE DEF R, W
  <1>2. StageInv(r, p, left'[p], nprobe'[p], at'[p], R, W)
    BY <1>1 DEF StageInv, R, W
  <1>3. ProcessInv(r, p, left'[p], nprobe'[p], at'[p], R, W)
    BY <1>2, StagesAre DEF ProcessInv
  <1>4. p \in Process
    BY StagesAre
  <1> QED BY <1>3, <1>4, Step DEF R, W

\* Where a stage is before it moves.
LEMMA StageAt ==
  ASSUME NEW r, NEW rd, NEW wr, At(r, rd, wr), NEW p \in Stages
  PROVE  /\ r \in Requests /\ request = r /\ p \in Process
         /\ \E n : /\ Serves(r, rd[s_batch_header(p)], left[p], nprobe[p], n)
                   /\ StageBody(r, p, n, left[p], at[p], rd, wr)
BY StagesAre DEF At, ProcessInv, StageInv

-----------------------------------------------------------------------------
(* The replicators. *)

\* replicate_s_cell_ID keeps the invariant.
LEMMA CellStep ==
  ASSUME NEW r, NEW rd, NEW wr, At(r, rd, wr), replicate_s_cell_ID
  PROVE  ScanInv'
  <1> DEFINE p == replicate_cell
             h == rd[s_batch_header(p)]
             takes == {s_cell_ID}
             puts == ToAll({s_cell_ID_get, s_cell_ID_load}, Head(fifo[s_cell_ID]))
             R == Counted(Stream, rd, takes)
             W == Counted(Stream, wr, DOMAIN puts)
             last == at[p].pos + 1 = nprobe[p]
             local == [at[p] EXCEPT !.pos = (@ + 1) % nprobe[p]]
  <1>1. p \in Stages
    BY StagesAre
  <1>2. PICK n : r \in Requests /\ Serves(r, h, left[p], nprobe[p], n) /\ CellBody(r, n, at[p], rd, wr)
    BY <1>1, StageAt, Bodies
  <1>3. PICK k : /\ at[p] = [pos |-> k] /\ Spot(r, n, k)
                 /\ rd[s_cell_ID] = Past(r, n, k)
                 /\ wr[s_cell_ID_get] = Past(r, n, k) /\ wr[s_cell_ID_load] = Past(r, n, k)
    BY <1>2 DEF CellBody
  <1>4. /\ left[p] > 0 /\ fifo[s_cell_ID] # <<>> /\ Transfer(takes, puts)
        /\ at' = [at EXCEPT ![p] = local] /\ Finish(p, last) /\ request' = request
    BY DEF replicate_s_cell_ID
  <1>5. /\ takes \in SUBSET Stream /\ DOMAIN puts = {s_cell_ID_get, s_cell_ID_load}
        /\ DOMAIN puts \in SUBSET Stream /\ \A c \in takes : Reader(c) = p /\ c[1] # "s_batch_header"
        /\ \A c \in DOMAIN puts : Writer(c) = p /\ puts[c] = Head(fifo[s_cell_ID])
    BY Wiring DEF ToAll, s_cell_ID
  <1>6. Past(r, n, k) \in Nat
    BY <1>2, <1>3, <1>4, NextCell
  <1>7. PICK m : /\ Serves(r, h, IF k + 1 = nprobe[p] THEN left[p] - 1 ELSE left[p], nprobe[p], m)
                 /\ Spot(r, m, (k + 1) % nprobe[p])
                 /\ Past(r, m, (k + 1) % nprobe[p]) = Past(r, n, k) + 1
    BY <1>2, <1>3, <1>4, NextCell
  <1>8. \A c \in DOMAIN puts : puts[c] = History(r)[c][wr[c] + 1]
    <2>1. Head(fifo[s_cell_ID]) = History(r)[s_cell_ID][rd[s_cell_ID] + 1]
      BY <1>4, Reading, Wiring
    <2> DEFINE x == Past(r, n, k) + 1
    <2>2. x \in Nat /\ x = rd[s_cell_ID] + 1 /\ \A c \in DOMAIN puts : wr[c] + 1 = x
      BY <1>3, <1>5, <1>6
    <2> HIDE DEF x, puts
    <2>3. /\ History(r)[s_cell_ID][x] = CellAt(r, x) /\ History(r)[s_cell_ID_get][x] = CellAt(r, x)
          /\ History(r)[s_cell_ID_load][x] = CellAt(r, x)
      BY <2>2, Values
    <2> QED BY <1>5, <2>1, <2>2, <2>3
  <1>9. /\ Moves(p) /\ at'[p] = local /\ nprobe'[p] = nprobe[p]
        /\ left'[p] = IF last THEN left[p] - 1 ELSE left[p]
    BY <1>1, <1>4, FinishMoves, StagesAre
  <1>10. /\ R[s_cell_ID] = Past(r, n, k) + 1
         /\ W[s_cell_ID_get] = Past(r, n, k) + 1 /\ W[s_cell_ID_load] = Past(r, n, k) + 1
    BY <1>3, <1>5, Wiring DEF Counted
  <1>11. local = [pos |-> (k + 1) % nprobe[p]] /\ (last <=> k + 1 = nprobe[p])
    BY <1>3
  <1> HIDE DEF p, h, takes, puts, R, W, last, local
  <1>12. Serves(r, h, left'[p], nprobe[p], m)
    BY <1>7, <1>9, <1>11
  <1>13. CellBody(r, m, at'[p], R, W)
    BY <1>7, <1>9, <1>10, <1>11 DEF CellBody
  <1>14. StageBody(r, p, m, left'[p], at'[p], R, W)
    BY <1>13, Bodies DEF p
  <1> QED BY <1>1, <1>4, <1>5, <1>8, <1>9, <1>12, <1>14, StageStep DEF h, R, W

\* replicate_s_scanned_entries_every_cell keeps the invariant.
LEMMA EntriesStep ==
  ASSUME NEW r, NEW rd, NEW wr, At(r, rd, wr), replicate_s_scanned_entries_every_cell
  PROVE  ScanInv'
  <1> DEFINE p == replicate_entries
             h == rd[s_batch_header(p)]
             v == Head(fifo[s_scanned_entries])
             takes == {s_scanned_entries}
             C == {s_entries_load} \cup {s_entries_ADC(i) : i \in PE}
             puts == ToAll(C, v)
             R == Counted(Stream, rd, takes)
             W == Counted(Stream, wr, DOMAIN puts)
             last == at[p].pos + 1 = nprobe[p]
             local == [at[p] EXCEPT !.pos = (@ + 1) % nprobe[p]]
  <1>1. p \in Stages
    BY StagesAre
  <1>2. PICK n : r \in Requests /\ Serves(r, h, left[p], nprobe[p], n) /\ EntriesBody(r, n, at[p], rd, wr)
    BY <1>1, StageAt, Bodies
  <1>3. PICK k : /\ at[p] = [pos |-> k] /\ Spot(r, n, k)
                 /\ rd[s_scanned_entries] = Past(r, n, k)
                 /\ wr[s_entries_load] = Past(r, n, k)
                 /\ \A i \in PE : wr[s_entries_ADC(i)] = Past(r, n, k)
    BY <1>2 DEF EntriesBody
  <1>4. /\ left[p] > 0 /\ fifo[s_scanned_entries] # <<>> /\ Transfer(takes, puts)
        /\ at' = [at EXCEPT ![p] = local] /\ Finish(p, last) /\ request' = request
    BY DEF replicate_s_scanned_entries_every_cell
  <1>5. /\ takes \in SUBSET Stream /\ DOMAIN puts = C
        /\ DOMAIN puts \in SUBSET Stream /\ \A c \in takes : Reader(c) = p /\ c[1] # "s_batch_header"
        /\ \A c \in DOMAIN puts : Writer(c) = p /\ puts[c] = v
    BY Wiring, PEWiring DEF ToAll, s_scanned_entries
  <1>6. Past(r, n, k) \in Nat
    BY <1>2, <1>3, <1>4, NextCell
  <1>7. PICK m : /\ Serves(r, h, IF k + 1 = nprobe[p] THEN left[p] - 1 ELSE left[p], nprobe[p], m)
                 /\ Spot(r, m, (k + 1) % nprobe[p])
                 /\ Past(r, m, (k + 1) % nprobe[p]) = Past(r, n, k) + 1
    BY <1>2, <1>3, <1>4, NextCell
  <1>8. \A c \in DOMAIN puts : puts[c] = History(r)[c][wr[c] + 1]
    <2>1. v = History(r)[s_scanned_entries][rd[s_scanned_entries] + 1]
      BY <1>4, Reading, Wiring
    <2> DEFINE x == Past(r, n, k) + 1
    <2> HIDE DEF puts, v
    <2>5. \A c \in DOMAIN puts : wr[c] = Past(r, n, k)
      BY <1>3, <1>5
    <2>2. x \in Nat /\ x = rd[s_scanned_entries] + 1 /\ \A c \in DOMAIN puts : wr[c] + 1 = x
      BY <1>3, <1>6, <2>5
    <2> HIDE DEF x
    <2>3. /\ History(r)[s_scanned_entries][x] = Entries(r, x)
          /\ History(r)[s_entries_load][x] = Entries(r, x)
      BY <2>2, Values
    <2>4. \A i \in PE : History(r)[s_entries_ADC(i)][x] = Entries(r, x)
      BY <2>2, PEValues
    <2> QED BY <1>5, <2>1, <2>2, <2>3, <2>4
  <1>9. /\ Moves(p) /\ at'[p] = local /\ nprobe'[p] = nprobe[p]
        /\ left'[p] = IF last THEN left[p] - 1 ELSE left[p]
    BY <1>1, <1>4, FinishMoves, StagesAre
  <1>10. /\ R[s_scanned_entries] = Past(r, n, k) + 1 /\ W[s_entries_load] = Past(r, n, k) + 1
         /\ \A i \in PE : W[s_entries_ADC(i)] = Past(r, n, k) + 1
    BY <1>3, <1>5, Wiring, PEWiring DEF Counted
  <1>11. local = [pos |-> (k + 1) % nprobe[p]] /\ (last <=> k + 1 = nprobe[p])
    BY <1>3
  <1> HIDE DEF p, h, takes, puts, R, W, last, local
  <1>12. Serves(r, h, left'[p], nprobe[p], m)
    BY <1>7, <1>9, <1>11
  <1>13. EntriesBody(r, m, at'[p], R, W)
    BY <1>7, <1>9, <1>10, <1>11 DEF EntriesBody
  <1>14. StageBody(r, p, m, left'[p], at'[p], R, W)
    BY <1>13, Bodies DEF p
  <1> QED BY <1>1, <1>4, <1>5, <1>8, <1>9, <1>12, <1>14, StageStep DEF h, R, W

\* The rows that leave the last PE are thrown away.
LEMMA ConsumerStep ==
  ASSUME NEW r, NEW rd, NEW wr, At(r, rd, wr), dummy_distance_LUT_consumer
  PROVE  ScanInv'
  <1> DEFINE p == LUT_consumer
             h == rd[s_batch_header(p)]
             takes == {s_distance_LUT(ADC_PE_NUM)}
             puts == Nothing
             x == at[p].pos
             last == x + 1 = nprobe[p] * LUT_ENTRY_NUM
             local == [at[p] EXCEPT !.pos = (x + 1) % (nprobe[p] * LUT_ENTRY_NUM)]
  <1>1. p \in Stages
    BY StagesAre
  <1>2. PICK n : r \in Requests /\ Serves(r, h, left[p], nprobe[p], n)
    BY <1>1, StageAt
  <1>4. /\ left[p] > 0 /\ Transfer(takes, puts)
        /\ at' = [at EXCEPT ![p] = local] /\ Finish(p, last) /\ request' = request
    BY DEF dummy_distance_LUT_consumer
  <1>5. /\ takes \in SUBSET Stream /\ DOMAIN puts = {}
        /\ DOMAIN puts \in SUBSET Stream /\ \A c \in takes : Reader(c) = p /\ c[1] # "s_batch_header"
        /\ \A c \in DOMAIN puts : Writer(c) = p /\ puts[c] = History(r)[c][wr[c] + 1]
    BY EndWiring DEF ToAll, Nothing, s_distance_LUT
  <1>6. /\ Moves(p) /\ at'[p] = local /\ nprobe'[p] = nprobe[p]
        /\ left'[p] = IF last THEN left[p] - 1 ELSE left[p]
    BY <1>1, <1>4, FinishMoves, StagesAre
  <1> HIDE DEF p, h, takes, puts, last, local
  <1>7. \E m : Serves(r, h, left'[p], nprobe[p], m)
    <2>1. Served(r, h, left[p], nprobe[p], n)
      BY <1>2, Serving
    <2>2. Serves(r, h, left[p] - 1, nprobe[p], n + 1)
      BY <1>4, <2>1 DEF Served
    <2> QED BY <1>2, <1>6, <2>2
  <1>8. PICK m : Serves(r, h, left'[p], nprobe[p], m)
    BY <1>7
  <1>9. \A f, g : StageBody(r, p, m, left'[p], at'[p], f, g)
    BY Bodies DEF p
  <1> QED BY <1>1, <1>4, <1>5, <1>6, <1>8, <1>9, StageStep DEF h

\* The tables of the cells are read from memory.
LEMMA MetaStep ==
  ASSUME NEW r, NEW rd, NEW wr, At(r, rd, wr), load_meta_data
  PROVE  ScanInv'
  <1> DEFINE p == load_meta
             i == at[p].pos
             takes == {}
             puts == To(s_nlist_start_addr, meta_data_init[i])
                       ++ To(s_nlist_vec_ID_start_addr, meta_data_init[nlist + i])
                       ++ To(s_nlist_num_vecs, meta_data_init[2 * nlist + i])
             R == Counted(Stream, rd, takes)
             W == Counted(Stream, wr, DOMAIN puts)
             local == [at[p] EXCEPT !.pos = i + 1]
  <1>1. p \in Process /\ p \notin Stages /\ p # network_input /\ p # replicate
    BY StagesAre
  <1>2. MetaBody(at[p], wr)
    BY <1>1 DEF At, ProcessInv
  <1>3. PICK m \in Nat : /\ at[p] = [pos |-> m]
                         /\ wr[s_nlist_start_addr] = m /\ wr[s_nlist_num_vecs] = m
                         /\ wr[s_nlist_vec_ID_start_addr] = m
    BY <1>2 DEF MetaBody
  <1>4. /\ Transfer(takes, puts) /\ at' = [at EXCEPT ![p] = local] /\ left' = left /\ nprobe' = nprobe
        /\ request' = request
    BY DEF load_meta_data
  <1>5. /\ DOMAIN puts = {s_nlist_start_addr, s_nlist_vec_ID_start_addr, s_nlist_num_vecs}
        /\ puts[s_nlist_start_addr] = meta_data_init[i]
        /\ puts[s_nlist_vec_ID_start_addr] = meta_data_init[nlist + i]
        /\ puts[s_nlist_num_vecs] = meta_data_init[2 * nlist + i]
    BY DEF To, ToAll, ++, s_nlist_start_addr, s_nlist_vec_ID_start_addr, s_nlist_num_vecs
  <1>6. /\ takes \in SUBSET Stream /\ DOMAIN puts \in SUBSET Stream
        /\ \A c \in takes : Reader(c) = p
        /\ \A c \in DOMAIN puts : Writer(c) = p /\ wr[c] = m
    BY <1>3, <1>5, Wiring
  <1>7. \A c \in DOMAIN puts : puts[c] = History(r)[c][wr[c] + 1]
    <2> DEFINE x == m + 1
    <2>1. x \in Nat /\ x - 1 = i
      BY <1>3
    <2> HIDE DEF x, puts
    <2>2. /\ History(r)[s_nlist_start_addr][x] = meta_data_init[x - 1]
          /\ History(r)[s_nlist_num_vecs][x] = meta_data_init[2 * nlist + (x - 1)]
          /\ History(r)[s_nlist_vec_ID_start_addr][x] = meta_data_init[nlist + (x - 1)]
      BY <2>1, Values
    <2>3. \A c \in DOMAIN puts : wr[c] + 1 = x
      BY <1>6 DEF x
    <2> QED BY <1>5, <2>1, <2>2, <2>3
  <1>8. Moves(p) /\ at'[p] = local
    BY <1>1, <1>4 DEF At, Moves
  <1>9. local = [pos |-> m + 1]
    BY <1>3
  <1>10. W[s_nlist_start_addr] = m + 1 /\ W[s_nlist_num_vecs] = m + 1 /\ W[s_nlist_vec_ID_start_addr] = m + 1
    BY <1>5, <1>6, Wiring DEF Counted
  <1> HIDE DEF takes, puts, R, W, local
  <1>11. MetaBody(at'[p], W)
    BY <1>8, <1>9, <1>10 DEF MetaBody
  <1>12. ProcessInv(r, p, left'[p], nprobe'[p], at'[p], R, W)
    BY <1>1, <1>11 DEF ProcessInv
  <1> QED BY <1>1, <1>4, <1>6, <1>7, <1>8, <1>12, Step DEF R, W

-----------------------------------------------------------------------------
(* The headers. *)

\* A process that has finished a batch may wait for any number of queries.
LEMMA Idle ==
  ASSUME NEW r, NEW p, NEW n, NEW l, NEW rd, NEW wr, StageBody(r, p, n, 0, l, rd, wr),
         p = get_cell => Len(l.addr) = nlist, NEW lf
  PROVE  StageBody(r, p, n, lf, l, rd, wr)
  <1>0. ~ (0 > 0)
    OBVIOUS
  <1>1. ASSUME p = replicate_cell PROVE CellBody(r, n, l, rd, wr)
    BY <1>1 DEF StageBody
  <1>2. ASSUME p = get_cell PROVE GetCellBody(r, n, lf, l, rd, wr)
    <2>1. GetCellBody(r, n, 0, l, rd, wr)
      BY <1>2 DEF StageBody
    <2>2. PICK addr, vecs, k : \E m \in 0 .. nlist :
            /\ l = [addr |-> addr, vecs |-> vecs, probe |-> k,
                    iter_num |-> EntryTotal(r)[Past(r, n, k)] - EntryTotal(r)[Past(r, n, 0)]]
            /\ Tables(addr, vecs, m)
            /\ rd[s_nlist_start_addr] = m /\ rd[s_nlist_num_vecs] = m
            /\ k = 0
            /\ rd[s_cell_ID_get] = Past(r, n, k) /\ wr[s_scanned_entries] = Past(r, n, k)
            /\ wr[s_last_valid_PE_ID] = Past(r, n, k) /\ wr[s_start_addr] = Past(r, n, k)
            /\ wr[s_control_iter_num] = n
      BY <1>0, <2>1, Zenon DEF GetCellBody
    <2>3. PICK m \in 0 .. nlist :
            /\ l = [addr |-> addr, vecs |-> vecs, probe |-> k,
                    iter_num |-> EntryTotal(r)[Past(r, n, k)] - EntryTotal(r)[Past(r, n, 0)]]
            /\ Tables(addr, vecs, m)
            /\ rd[s_nlist_start_addr] = m /\ rd[s_nlist_num_vecs] = m
            /\ k = 0
            /\ rd[s_cell_ID_get] = Past(r, n, k) /\ wr[s_scanned_entries] = Past(r, n, k)
            /\ wr[s_last_valid_PE_ID] = Past(r, n, k) /\ wr[s_start_addr] = Past(r, n, k)
            /\ wr[s_control_iter_num] = n
      BY <2>2
    <2>4. m = nlist
      BY <1>2, <2>3 DEF Tables
    <2> QED BY <2>3, <2>4, Zenon DEF GetCellBody
  <1>3. ASSUME p = replicate_entries PROVE EntriesBody(r, n, l, rd, wr)
    BY <1>3 DEF StageBody
  <1>4. ASSUME p = load_codes PROVE LoadBody(r, n, lf, l, rd, wr)
    <2>1. LoadBody(r, n, 0, l, rd, wr)
      BY <1>4 DEF StageBody
    <2> QED BY <1>0, <2>1, Zenon DEF LoadBody
  <1>5. ASSUME p = LUT_construction
        PROVE  LUTBody(r, n, lf, l, rd[s_query_vectors], rd[s_center_vectors], wr[s_distance_LUT(0)])
    <2> DEFINE a == rd[s_query_vectors]
               b == rd[s_center_vectors]
               c == wr[s_distance_LUT(0)]
    <2>1. LUTBody(r, n, 0, l, a, b, c)
      BY <1>5 DEF StageBody
    <2> HIDE DEF a, b, c
    <2>2. LUTBody(r, n, lf, l, a, b, c)
      <3>1. PICK k, q, cv, x : LUTAt(r, n, 0, l, a, b, c, k, q, cv, x)
        BY <2>1 DEF LUTBody
      <3>2. LUTAt(r, n, lf, l, a, b, c, k, q, cv, x)
        BY <1>0, <3>1 DEF LUTAt
      <3> QED BY <3>2 DEF LUTBody
    <2> QED BY <2>2 DEF a, b, c
  <1>6. ASSUME NEW i \in PE, p = ADC(i) PROVE ADCBody(r, i, n, lf, l, rd, wr)
    <2> DEFINE a == rd[s_entries_ADC(i)]
               b == rd[s_distance_LUT(i)]
               c == rd[s_PQ_codes(i)]
    <2>1. ADCBody(r, i, n, 0, l, rd, wr)
      BY <1>6 DEF StageBody
    <2>2. SingleBody(r, n, 0, l, a, b, c) => SingleBody(r, n, lf, l, a, b, c)
      <3> HIDE DEF a, b, c
      <3> QED BY <1>0, Zenon DEF SingleBody, SingleAt
    <2>3. DoubleBody(r, n, 0, l, a, b, c) => DoubleBody(r, n, lf, l, a, b, c)
      <3> HIDE DEF a, b, c
      <3> SUFFICES ASSUME DoubleBody(r, n, 0, l, a, b, c) PROVE DoubleBody(r, n, lf, l, a, b, c)
        OBVIOUS
      <3>1. PICK k, t, x : DoubleAt(r, n, 0, l, a, b, c, k, t, x)
        BY Zenon DEF DoubleBody
      <3>2. DoubleAt(r, n, lf, l, a, b, c, k, t, x)
        BY <1>0, <3>1, Zenon DEF DoubleAt
      <3> QED BY <3>2, Zenon DEF DoubleBody
    <2> QED BY <2>1, <2>2, <2>3, Zenon DEF ADCBody
  <1>7. ASSUME p = K_selection PROVE SelectBody(r, n, lf, l, rd, wr)
    <2>1. SelectBody(r, n, 0, l, rd, wr)
      BY <1>7 DEF StageBody
    <2> QED BY <1>0, <2>1, Zenon DEF SelectBody
  <1> QED BY <1>1, <1>2, <1>3, <1>4, <1>5, <1>6, <1>7, Zenon DEF StageBody

\* The header after h: what it says of the queries.
LEMMA NextHeader ==
  ASSUME NEW r \in Requests, NEW h \in 0 .. BatchNum(r), NEW np, NEW n, Serves(r, h, 0, np, n)
  PROVE  /\ HeaderOf(r, h + 1).terminate \in BOOLEAN
         /\ HeaderOf(r, h + 1).terminate => Serves(r, h + 1, 0, np, n)
         /\ ~ HeaderOf(r, h + 1).terminate =>
              Serves(r, h + 1, HeaderOf(r, h + 1).batch_size, HeaderOf(r, h + 1).nprobe, n)
         /\ HeaderOf(r, h + 1).terminate => HeaderOf(r, h + 1).batch_size = 0
  <1> DEFINE b == h + 1
             S == Size(r, b)
  <1>1. /\ b \in 0 .. BatchNum(r) + 1 /\ b \in 1 .. BatchNum(r) + 1 /\ b - 1 = h /\ S \in Nat
        /\ BatchNum(r) \in Nat
    BY Batches
  <1>2. n = QueryTotal(r)[h] - 0 /\ QueryTotal(r)[h] \in Nat /\ QueryTotal(r)[b] = QueryTotal(r)[h] + S
    <2>1. h \in 0 .. BatchNum(r) + 1
      BY <1>1
    <2>2. QueryTotal(r)[h] \in 0 .. QueryNum(r) /\ QueryNum(r) \in Nat
      BY <2>1, QueryFacts
    <2> HIDE DEF b
    <2>3. QueryTotal(r)[b] = QueryTotal(r)[b - 1] + Size(r, b)
      BY <1>1, QueryFacts
    <2> QED BY <1>1, <2>2, <2>3 DEF Serves
  <1>3. b \notin 1 .. BatchNum(r) => S = 0
    BY DEF Size
  <1> HIDE DEF b, S
  <1>4. S \in 0 .. S /\ n = QueryTotal(r)[b] - S
    BY <1>1, <1>2
  <1>5. CASE b \in 1 .. BatchNum(r)
    <2>1. HeaderOf(r, b) = [batch_size |-> S, nprobe |-> NProbe(r, b), terminate |-> FALSE]
      BY <1>5 DEF HeaderOf, Header, S
    <2>2. Serves(r, b, S, NProbe(r, b), n)
      BY <1>1, <1>4, Zenon DEF Serves, S
    <2>3. /\ HeaderOf(r, b).terminate = FALSE /\ HeaderOf(r, b).batch_size = S
          /\ HeaderOf(r, b).nprobe = NProbe(r, b)
      BY <2>1
    <2> QED BY <2>2, <2>3, Zenon DEF b
  <1>6. CASE b \notin 1 .. BatchNum(r)
    <2>1. HeaderOf(r, b) = [batch_size |-> 0, nprobe |-> 0, terminate |-> TRUE]
      BY <1>6 DEF HeaderOf, TerminateHeader
    <2>2. Serves(r, b, 0, np, n)
      <3>1. S = 0 /\ n = QueryTotal(r)[b] - 0 /\ 0 \in 0 .. S /\ ~ (0 > 0)
        BY <1>3, <1>4, <1>6
      <3> QED BY <1>1, <3>1, Zenon DEF Serves, S
    <2>3. HeaderOf(r, b).terminate = TRUE /\ HeaderOf(r, b).batch_size = 0
      BY <2>1
    <2> QED BY <2>2, <2>3, Zenon DEF b
  <1> QED BY <1>5, <1>6

\* No process reads more headers than there are.
LEMMA HeadersRead ==
  ASSUME NEW r, NEW rd, NEW wr, At(r, rd, wr)
  PROVE  /\ BatchNum(r) \in Nat
         /\ \A p \in Stages : /\ wr[s_batch_header(p)] = rd[s_batch_header(replicate)]
                              /\ rd[s_batch_header(p)] \in 0 .. BatchNum(r) + 1
                              /\ rd[s_batch_header(p)] <= rd[s_batch_header(replicate)]
         /\ rd[s_batch_header(replicate)] \in 0 .. BatchNum(r) + 1
         /\ wr[s_batch_header(replicate)] \in 0 .. BatchNum(r) + 1
  <1>1. /\ wr[s_batch_header(replicate)] \in 0 .. BatchNum(r) + 1
        /\ \A p \in Stages : wr[s_batch_header(p)] = rd[s_batch_header(replicate)]
    <2>1. /\ ProcessInv(r, network_input, left[network_input], nprobe[network_input], at[network_input], rd, wr)
          /\ ProcessInv(r, replicate, left[replicate], nprobe[replicate], at[replicate], rd, wr)
      BY StagesAre DEF At
    <2> QED BY <2>1 DEF ProcessInv, Serves
  <1>2. /\ rd[s_batch_header(replicate)] \in Nat
        /\ rd[s_batch_header(replicate)] <= wr[s_batch_header(replicate)]
    BY HeaderWiring, Reading
  <1>3. \A p \in Stages : /\ rd[s_batch_header(p)] \in Nat
                          /\ rd[s_batch_header(p)] <= wr[s_batch_header(p)]
    BY HeaderWiring, Reading
  <1>4. BatchNum(r) \in Nat
    BY Batches DEF At
  <1> QED BY <1>1, <1>2, <1>3, <1>4

\* read_header keeps the invariant: the batch has the queries it says.
LEMMA HeaderStep ==
  ASSUME NEW r, NEW rd, NEW wr, At(r, rd, wr), NEW p \in Stages, Loaded(p), read_header(p),
         UNCHANGED <<at, request>>
  PROVE  ScanInv'
  <1> DEFINE c0 == s_batch_header(p)
             h == rd[c0]
             takes == {c0}
             puts == Nothing
             R == Counted(Stream, rd, takes)
             W == Counted(Stream, wr, DOMAIN puts)
             hd == Head(fifo[c0])
  <1>1. p \in Process /\ p \notin {network_input, replicate, load_meta}
    BY StagesAre
  <1>2. PICK n : r \in Requests /\ Serves(r, h, left[p], nprobe[p], n)
                 /\ StageBody(r, p, n, left[p], at[p], rd, wr)
    BY StageAt
  <1>3. /\ left[p] = 0 /\ Transfer(takes, puts) /\ at' = at /\ request' = request
        /\ hd.terminate => left' = left /\ nprobe' = nprobe
        /\ ~ hd.terminate => left' = [left EXCEPT ![p] = hd.batch_size]
                             /\ nprobe' = [nprobe EXCEPT ![p] = hd.nprobe]
    BY DEF read_header
  <1>4. /\ takes \in SUBSET Stream /\ DOMAIN puts = {}
        /\ DOMAIN puts \in SUBSET Stream /\ \A c \in takes : Reader(c) = p /\ c[1] = "s_batch_header"
        /\ \A c \in DOMAIN puts : Writer(c) = p /\ puts[c] = History(r)[c][wr[c] + 1]
    BY HeaderWiring DEF ToAll, Nothing, s_batch_header
  <1>5. fifo[c0] # <<>> /\ c0 \in Stream
    BY <1>3, <1>4 DEF Transfer
  <1>6. hd = HeaderOf(r, h + 1) /\ h \in 0 .. BatchNum(r)
    <2>1. /\ rd[c0] < wr[c0] /\ rd[c0] \in Nat
          /\ Head(fifo[c0]) = History(r)[c0][rd[c0] + 1]
      BY <1>5, Reading
    <2>2. wr[c0] <= BatchNum(r) + 1 /\ BatchNum(r) \in Nat /\ wr[c0] \in Nat
      BY HeadersRead
    <2>3. h + 1 \in Nat
      BY <2>1
    <2> DEFINE x == h + 1
    <2> HIDE DEF x
    <2>4. History(r)[c0][x] = HeaderOf(r, x)
      BY <2>3, HeaderValues DEF x
    <2> QED BY <2>1, <2>2, <2>4 DEF x
  <1>7. Serves(r, h, 0, nprobe[p], n) /\ StageBody(r, p, n, 0, at[p], rd, wr)
    BY <1>2, <1>3
  <1>8. /\ Moves(p) /\ at'[p] = at[p]
        /\ hd.terminate => left'[p] = 0 /\ nprobe'[p] = nprobe[p]
        /\ ~ hd.terminate => left'[p] = hd.batch_size /\ nprobe'[p] = hd.nprobe
    <2>1. DOMAIN at = Process /\ DOMAIN left = Process /\ DOMAIN nprobe = Process
      BY DEF At
    <2>2. CASE hd.terminate
      BY <1>3, <2>1, <2>2 DEF Moves
    <2>3. CASE ~ hd.terminate
      <3> HIDE DEF hd
      <3> QED BY <1>1, <1>3, <2>1, <2>3 DEF Moves
    <2> QED BY <2>2, <2>3
  <1> HIDE DEF hd, takes, puts, c0, h
  <1>9. Serves(r, h + 1, left'[p], nprobe'[p], n)
    <2>1. /\ HeaderOf(r, h + 1).terminate \in BOOLEAN
          /\ HeaderOf(r, h + 1).terminate => Serves(r, h + 1, 0, nprobe[p], n)
          /\ ~ HeaderOf(r, h + 1).terminate =>
               Serves(r, h + 1, HeaderOf(r, h + 1).batch_size, HeaderOf(r, h + 1).nprobe, n)
      BY <1>2, <1>6, <1>7, NextHeader
    <2> QED BY <1>6, <1>8, <2>1
  <1>10. StageBody(r, p, n, left'[p], at'[p], R, W)
    <2>1. SameData(p, rd, wr, R, W)
      BY <1>4 DEF SameData, Counted
    <2>2. p = get_cell => Len(at[p].addr) = nlist
      BY DEF Loaded
    <2> DEFINE l == at[p]
               lf == left'[p]
    <2>3. PICK l2, lf2 : l2 = l /\ lf2 = lf
      OBVIOUS
    <2>4. StageBody(r, p, n, 0, l2, rd, wr) /\ (p = get_cell => Len(l2.addr) = nlist)
      BY <1>7, <2>2, <2>3
    <2> HIDE DEF R, W
    <2>5. StageBody(r, p, n, lf2, l2, rd, wr)
      BY <2>4, Idle
    <2>6. StageBody(r, p, n, lf2, l2, R, W)
      BY <2>1, <2>5, BodyFrame
    <2> QED BY <1>8, <2>3, <2>6
  <1>11. R[c0] = h + 1
    BY <1>5 DEF Counted, takes, h
  <1> HIDE DEF R, W
  <1>12. StageInv(r, p, left'[p], nprobe'[p], at'[p], R, W)
    BY <1>9, <1>10, <1>11 DEF StageInv, c0
  <1>13. ProcessInv(r, p, left'[p], nprobe'[p], at'[p], R, W)
    BY <1>1, <1>12 DEF ProcessInv
  <1> QED BY <1>1, <1>3, <1>4, <1>8, <1>13, Step DEF R, W

\* replicate_s_batch_header keeps the invariant.
LEMMA ReplicateStep ==
  ASSUME NEW r, NEW rd, NEW wr, At(r, rd, wr), replicate_s_batch_header(replicate, Stages),
         UNCHANGED <<at, request>>
  PROVE  ScanInv'
  <1> DEFINE p == replicate
             c0 == s_batch_header(p)
             takes == {c0}
             hd == Head(fifo[c0])
             puts == ToAll({s_batch_header(q) : q \in Stages}, hd)
             R == Counted(Stream, rd, takes)
             W == Counted(Stream, wr, DOMAIN puts)
  <1>1. p \in Process /\ p \notin Stages /\ p # network_input /\ p # load_meta
    BY StagesAre
  <1>3. /\ Transfer(takes, puts) /\ at' = at /\ request' = request /\ left' = left /\ nprobe' = nprobe
        /\ fifo[c0] # <<>>
    BY DEF replicate_s_batch_header
  <1>4. /\ takes \in SUBSET Stream /\ DOMAIN puts = {s_batch_header(q) : q \in Stages}
        /\ DOMAIN puts \in SUBSET Stream /\ \A c \in takes : Reader(c) = p
        /\ \A c \in DOMAIN puts : Writer(c) = p /\ puts[c] = hd
        /\ c0 \in Stream
    BY HeaderWiring DEF ToAll
  <1>5. \A q \in Stages : wr[s_batch_header(q)] = rd[c0]
    BY HeadersRead
  <1>6. /\ rd[c0] \in Nat /\ hd = History(r)[c0][rd[c0] + 1]
    BY <1>3, <1>4, Reading
  <1>7. \A c \in DOMAIN puts : puts[c] = History(r)[c][wr[c] + 1]
    <2> DEFINE x == rd[c0] + 1
    <2>1. x \in Nat
      BY <1>6
    <2> HIDE DEF x, hd
    <2>2. /\ \A q \in Stages : History(r)[s_batch_header(q)][x] = HeaderOf(r, x)
          /\ History(r)[c0][x] = HeaderOf(r, x)
      BY <2>1, HeaderValues
    <2>3. \A q \in Stages : wr[s_batch_header(q)] + 1 = x
      BY <1>5 DEF x
    <2>4. hd = HeaderOf(r, x)
      BY <1>6, <2>2 DEF x
    <2> HIDE DEF puts
    <2> QED BY <1>4, <2>2, <2>3, <2>4
  <1>8. Moves(p)
    BY <1>3 DEF Moves, At
  <1>9. R[c0] = rd[c0] + 1 /\ \A q \in Stages : W[s_batch_header(q)] = wr[s_batch_header(q)] + 1
    <2> HIDE DEF puts
    <2> QED BY <1>4, HeaderWiring DEF Counted
  <1> HIDE DEF takes, puts, R, W, hd
  <1>10. \A q \in Stages : W[s_batch_header(q)] = R[s_batch_header(replicate)]
    BY <1>5, <1>9
  <1>11. ProcessInv(r, p, left'[p], nprobe'[p], at'[p], R, W)
    BY <1>1, <1>10 DEF ProcessInv
  <1> QED BY <1>1, <1>3, <1>4, <1>7, <1>8, <1>11, Step DEF R, W

-----------------------------------------------------------------------------
(* The network process. *)

\* The words of query n + 1 in the network stream.
QueryInput(r, h, n) ==
  LET cells == CellsOf(r, n + 1)
      W == WordNum(cells)
      start == h + WordTotal(r)[n]
  IN  /\ start \in Nat /\ W \in Nat /\ WordTotal(r)[n] \in Nat
      /\ WordTotal(r)[n + 1] = WordTotal(r)[n] + W + 1 + Len(cells)
      /\ \A w \in 1 .. W : Words(r)[start + w] = CellWords(cells)[w]
      /\ Words(r)[start + W + 1] = QueryVector(r, n + 1)
      /\ \A k \in 1 .. Len(cells) :
           Words(r)[start + W + 1 + k] = Row(r, ProbeTotal(r)[n] + k).center

\* The words of the query the network process is at.
LEMMA QueryInputs ==
  ASSUME NEW r \in Requests, NEW h, NEW lf, NEW np, NEW n, Serves(r, h, lf, np, n), lf > 0
  PROVE  QueryInput(r, h, n)
  <1> DEFINE m == n + 1
             cells == CellsOf(r, m)
             q == Size(r, h) - lf + 1
             W == WordNum(cells)
             start == h + WordTotal(r)[n]
             s == Words(r)
             L == Len(cells)
  <1>1. /\ n \in 0 .. QueryNum(r) - 1 /\ m \in 1 .. QueryNum(r) /\ m - 1 = n
        /\ h \in 1 .. BatchNum(r) /\ lf \in 1 .. Size(r, h)
        /\ Query(r)[m] = <<h, q>> /\ cells \in Seq(Cell) /\ L \in Nat \ {0} /\ QueryNum(r) \in Nat
        /\ n \in 0 .. QueryNum(r)
        /\ \A k \in 1 .. L : Probe(r)[ProbeTotal(r)[n] + k] = <<m, k>>
    <2>1. Served(r, h, lf, np, n)
      BY Serving
    <2> QED BY <2>1 DEF Served
  <1>2. /\ QueryTotal(r)[h - 1] \in Nat /\ q \in 1 .. Size(r, h) /\ q \in Nat /\ h \in Nat
        /\ QueryTotal(r)[h - 1] + q = m
    <2>1. n = QueryTotal(r)[h] - lf /\ Size(r, h) \in Nat /\ BatchNum(r) \in Nat
      BY Batches DEF Serves
    <2>2. QueryTotal(r)[h] = QueryTotal(r)[h - 1] + Size(r, h) /\ QueryTotal(r)[h - 1] \in Nat
      <3>1. h \in 1 .. BatchNum(r) + 1 /\ h - 1 \in 0 .. BatchNum(r) + 1
        BY <1>1, <2>1
      <3> QED BY <3>1, QueryFacts
    <2> DEFINE t == QueryTotal(r)[h - 1]
               u == QueryTotal(r)[h]
               S == Size(r, h)
    <2>3. n = u - lf /\ S \in Nat /\ u = t + S /\ t \in Nat /\ lf \in 1 .. S /\ h \in 1 .. BatchNum(r)
          /\ BatchNum(r) \in Nat
      BY <1>1, <2>1, <2>2
    <2> HIDE DEF t, u, S
    <2>4. S - lf + 1 \in 1 .. S /\ S - lf + 1 \in Nat /\ h \in Nat /\ t + (S - lf + 1) = n + 1
      BY <2>3
    <2> QED BY <2>3, <2>4 DEF t, S
  <1>3. /\ WordTotal(r)[n] \in Nat /\ W \in Nat /\ QueryLen(r, m) = W + 1 + L
        /\ WordTotal(r)[m] = WordTotal(r)[n] + QueryLen(r, m)
    <2> HIDE DEF m
    <2>1. WordTotal(r)[n] \in Nat
      BY <1>1, WordFacts
    <2>2. W \in Nat /\ WordTotal(r)[m] = WordTotal(r)[m - 1] + QueryLen(r, m)
      BY <1>1, WordFacts
    <2> QED BY <1>1, <2>1, <2>2 DEF QueryLen
  <1>4. \A j \in 1 .. QueryLen(r, m) : s[start + j] = QueryWords(h, q, cells)[j]
    <2>1. WordsInOrder(r, s)
      BY InputWords
    <2> HIDE DEF s, q, start, cells
    <2>2. \A j \in 1 .. QueryLen(r, QueryTotal(r)[h - 1] + q) :
            s[h + WordTotal(r)[QueryTotal(r)[h - 1] + q - 1] + j]
              = QueryWords(h, q, CellsOf(r, QueryTotal(r)[h - 1] + q))[j]
      BY <1>1, <1>2, <2>1 DEF WordsInOrder
    <2>3. QueryTotal(r)[h - 1] + q - 1 = n
      <3> DEFINE t == QueryTotal(r)[h - 1]
      <3>1. t \in Nat /\ q \in Nat /\ n \in Int /\ t + q = n + 1
        BY <1>1, <1>2
      <3> HIDE DEF t
      <3>2. t + q - 1 = n
        BY <3>1
      <3> QED BY <3>2 DEF t
    <2>4. \A j \in 1 .. QueryLen(r, m) : s[h + WordTotal(r)[n] + j] = QueryWords(h, q, CellsOf(r, m))[j]
      BY <1>2, <2>2, <2>3
    <2> QED BY <2>4 DEF start, cells
  <1>5. /\ \A w \in 1 .. W : QueryWords(h, q, cells)[w] = CellWords(cells)[w]
        /\ QueryWords(h, q, cells)[W + 1] = QueryWord(h, q)
        /\ \A k \in 1 .. L : QueryWords(h, q, cells)[W + 1 + k] = CenterWord(h, q, k)
    <2> HIDE DEF q, cells
    <2>1. h \in Nat /\ q \in Nat /\ cells \in Seq(Cell) /\ W = WordNum(cells) /\ L = Len(cells)
      BY <1>1, <1>2
    <2>2. /\ \A w \in 1 .. WordNum(cells) : QueryWords(h, q, cells)[w] = CellWords(cells)[w]
          /\ QueryWords(h, q, cells)[WordNum(cells) + 1] = QueryWord(h, q)
          /\ \A k \in 1 .. Len(cells) :
               QueryWords(h, q, cells)[WordNum(cells) + 1 + k] = CenterWord(h, q, k)
      BY <2>1, QueryWordsAre
    <2> QED BY <2>1, <2>2
  <1>6. QueryVector(r, m) = QueryWord(h, q)
    BY <1>1 DEF QueryVector
  <1>7. ASSUME NEW k \in 1 .. L
        PROVE  Row(r, ProbeTotal(r)[n] + k).center = CenterWord(h, q, k)
    <2> DEFINE g == ProbeTotal(r)[n] + k
    <2>1. Probe(r)[g] = <<m, k>>
      BY <1>1
    <2> HIDE DEF g
    <2>2. Row(r, g).center = CenterWord(Query(r)[m][1], Query(r)[m][2], k)
      BY <2>1 DEF Row
    <2> QED BY <1>1, <2>2 DEF g
  <1> DEFINE T == WordTotal(r)
             P == ProbeTotal(r)
             QL == QueryLen(r, m)
  <1>8. h \in Nat /\ L \in Nat /\ start = h + T[n]
    BY <1>1, <1>2
  <1> HIDE DEF cells, q, W, s, L, m, T, P, QL, start
  <1>9. start \in Nat /\ T[m] = T[n] + W + 1 + L
    BY <1>3, <1>8 DEF T
  <1>10. \A w \in 1 .. W : s[start + w] = CellWords(cells)[w]
    <2> TAKE w \in 1 .. W
    <2>1. w \in 1 .. QueryLen(r, m)
      BY <1>3, <1>8
    <2> QED BY <1>4, <1>5, <2>1
  <1>11. s[start + W + 1] = QueryVector(r, m)
    <2>1. W + 1 \in 1 .. QueryLen(r, m) /\ start + (W + 1) = start + W + 1
      BY <1>3, <1>8, <1>9
    <2> QED BY <1>4, <1>5, <1>6, <2>1
  <1>12. \A k \in 1 .. L : s[start + W + 1 + k] = Row(r, P[n] + k).center
    <2> TAKE k \in 1 .. L
    <2>1. W + 1 + k \in 1 .. QueryLen(r, m) /\ start + (W + 1 + k) = start + W + 1 + k
      BY <1>3, <1>8, <1>9
    <2>2. s[start + (W + 1 + k)] = CenterWord(h, q, k)
      BY <1>4, <1>5, <2>1
    <2> QED BY <1>7, <2>1, <2>2 DEF P
  <1>13. /\ start \in Nat /\ W \in Nat /\ T[n] \in Nat
         /\ T[m] = T[n] + W + 1 + L
         /\ \A w \in 1 .. W : s[start + w] = CellWords(cells)[w]
         /\ s[start + W + 1] = QueryVector(r, m)
         /\ \A k \in 1 .. L : s[start + W + 1 + k] = Row(r, P[n] + k).center
    BY <1>3, <1>9, <1>10, <1>11, <1>12 DEF T
  <1> QED BY <1>13 DEF QueryInput, s, start, W, cells, m, L, T, P

\* The k-th cell of a query, counted from 0, in the words of cell numbers.
LEMMA CellWord ==
  ASSUME NEW cells \in Seq(Cell), NEW k \in 0 .. Len(cells) - 1
  PROVE  /\ (k \div CELLS_PER_WORD) + 1 \in 1 .. WordNum(cells)
         /\ CellWords(cells)[(k \div CELLS_PER_WORD) + 1].cells[(k % CELLS_PER_WORD) + 1] = cells[k + 1]
         /\ CellWords(cells)[(k \div CELLS_PER_WORD) + 1].cells # <<>>
         /\ k + 1 = Len(cells) => WordNum(cells) = (k \div CELLS_PER_WORD) + 1
         /\ k \div CELLS_PER_WORD \in Nat
  <1> DEFINE d == k \div CELLS_PER_WORD
             m == k % CELLS_PER_WORD
             w == d + 1
             W == WordNum(cells)
             L == Len(cells)
  <1>1. CELLS_PER_WORD \in Nat \ {0} /\ L \in Nat /\ k \in Nat /\ k + 1 <= L /\ k \in 0 .. L - 1
    BY Positive
  <1>2. d \in Nat /\ m \in 0 .. CELLS_PER_WORD - 1 /\ k = d * CELLS_PER_WORD + m
    BY <1>1, Quotient
  <1> HIDE DEF L
  <1>3. /\ W \in Nat /\ (L > 0 => W = ((L - 1) \div CELLS_PER_WORD) + 1)
        /\ \A p \in 0 .. L - 1 : p \div CELLS_PER_WORD \in 0 .. W - 1
    BY <1>1, RoundingUp DEF WordNum, L
  <1>4. d \in 0 .. W - 1
    BY <1>1, <1>3
  <1>5. k + 1 = L => W = d + 1
    <2>1. k + 1 = L => L - 1 = k /\ L > 0
      BY <1>1
    <2> QED BY <1>3, <2>1
  <1>6. w \in 1 .. W
    BY <1>3, <1>4
  <1> DEFINE f(v) == [j \in 1 .. CELLS_PER_WORD |->
                        IF (v - 1) * CELLS_PER_WORD + j <= Len(cells)
                        THEN cells[(v - 1) * CELLS_PER_WORD + j] ELSE 0]
  <1>7. CellWords(cells) = [v \in 1 .. W |-> [kind |-> "cells", cells |-> f(v)]]
    BY DEF CellWords, WordNum
  <1>8. CellWords(cells)[w].cells = f(w)
    <2> HIDE DEF W, w, f
    <2> QED BY <1>6, <1>7
  <1>9. f(w)[m + 1] = cells[k + 1]
    <2>1. m + 1 \in 1 .. CELLS_PER_WORD
      BY <1>1, <1>2
    <2>2. (w - 1) * CELLS_PER_WORD + (m + 1) = k + 1
      <3>1. w - 1 = d
        BY <1>2
      <3>2. \A x \in Nat : x * CELLS_PER_WORD \in Nat
        BY <1>1
      <3> HIDE DEF d, m, w
      <3> QED BY <1>1, <1>2, <3>1, <3>2
    <2> HIDE DEF w, m
    <2> QED BY <1>1, <2>1, <2>2 DEF L
  <1>10. f(w) # <<>>
    <2>1. DOMAIN f(w) = 1 .. CELLS_PER_WORD /\ 1 \in 1 .. CELLS_PER_WORD
      BY <1>1
    <2>2. DOMAIN <<>> = {}
      OBVIOUS
    <2> HIDE DEF f
    <2> QED BY <2>1, <2>2
  <1> QED BY <1>2, <1>5, <1>6, <1>8, <1>9, <1>10 DEF L

\* The network process has moved.
LEMMA NetworkStep ==
  ASSUME NEW r, NEW rd, NEW wr, At(r, rd, wr), Moves(network_input),
         NEW takes \in SUBSET {s_kernel_network_in}, NEW puts, DOMAIN puts \in SUBSET Stream,
         Transfer(takes, puts),
         \A c \in DOMAIN puts : Writer(c) = network_input,
         \A c \in DOMAIN puts : puts[c] = History(r)[c][wr[c] + 1],
         NEW h, h = Counted(Stream, wr, DOMAIN puts)[s_batch_header(replicate)],
         NEW n, Serves(r, h, left'[network_input], nprobe'[network_input], n),
         NetworkBody(r, h, n, left'[network_input], at'[network_input],
                     Counted(Stream, rd, takes)[s_kernel_network_in],
                     Counted(Stream, wr, DOMAIN puts)[s_cell_ID],
                     Counted(Stream, wr, DOMAIN puts)[s_query_vectors],
                     Counted(Stream, wr, DOMAIN puts)[s_center_vectors])
  PROVE  ScanInv'
  <1> DEFINE p == network_input
             R == Counted(Stream, rd, takes)
             W == Counted(Stream, wr, DOMAIN puts)
  <1>1. p \in Process /\ p \notin Stages /\ p # replicate /\ p # load_meta
    BY StagesAre
  <1>2. wr[s_kernel_network_in] = BatchNum(r) + 1 + WordTotal(r)[QueryNum(r)]
    BY <1>1 DEF At, ProcessInv
  <1>3. s_kernel_network_in \in Stream /\ Writer(s_kernel_network_in) # network_input
    BY Wiring DEF nobody, network_input
  <1>4. W[s_kernel_network_in] = wr[s_kernel_network_in]
    BY <1>3 DEF Counted
  <1>5. takes \in SUBSET Stream /\ \A c \in takes : Reader(c) = p
    BY Wiring
  <1> HIDE DEF R, W
  <1>6. /\ W[s_kernel_network_in] = BatchNum(r) + 1 + WordTotal(r)[QueryNum(r)]
        /\ \E m : /\ Serves(r, W[s_batch_header(replicate)], left'[p], nprobe'[p], m)
                  /\ NetworkBody(r, W[s_batch_header(replicate)], m, left'[p], at'[p],
                                 R[s_kernel_network_in],
                                 W[s_cell_ID], W[s_query_vectors], W[s_center_vectors])
    BY <1>2, <1>4 DEF R, W
  <1>7. ProcessInv(r, p, left'[p], nprobe'[p], at'[p], R, W)
    BY <1>1, <1>6 DEF ProcessInv
  <1> QED BY <1>1, <1>5, <1>7, Step DEF R, W

\* Where the network process is before it moves.
LEMMA NetworkAt ==
  ASSUME NEW r, NEW rd, NEW wr, At(r, rd, wr)
  PROVE  /\ r \in Requests /\ network_input \in Process
         /\ wr[s_kernel_network_in] = BatchNum(r) + 1 + WordTotal(r)[QueryNum(r)]
         /\ \E n : /\ Serves(r, wr[s_batch_header(replicate)], left[network_input],
                             nprobe[network_input], n)
                   /\ NetworkBody(r, wr[s_batch_header(replicate)], n, left[network_input],
                                  at[network_input], rd[s_kernel_network_in],
                                  wr[s_cell_ID], wr[s_query_vectors], wr[s_center_vectors])
  <1>1. ProcessInv(r, network_input, left[network_input], nprobe[network_input],
                   at[network_input], rd, wr)
    BY StagesAre DEF At
  <1> QED BY <1>1, StagesAre DEF At, ProcessInv

\* The header word that comes after the words of h batches.
LEMMA HeaderWords ==
  ASSUME NEW r \in Requests, NEW h \in 0 .. BatchNum(r), NEW np, NEW n, Serves(r, h, 0, np, n)
  PROVE  Words(r)[h + WordTotal(r)[n] + 1] = HeaderWord(HeaderOf(r, h + 1))
  <1> DEFINE B == BatchNum(r)
             b == h + 1
             s == Words(r)
             w == WordTotal(r)[n]
  <1>1. B \in Nat /\ h \in Nat /\ b - 1 = h /\ (b \in 1 .. B \/ h = B)
    BY Batches
  <1>2. n = QueryTotal(r)[h] /\ n \in 0 .. QueryNum(r)
    <2>1. h \in 0 .. BatchNum(r) + 1
      BY <1>1
    <2>2. QueryTotal(r)[h] \in 0 .. QueryNum(r) /\ QueryNum(r) \in Nat
      BY <2>1, QueryFacts
    <2> QED BY <2>2 DEF Serves
  <1>3. w \in Nat
    BY <1>2, WordFacts
  <1>4. WordsInOrder(r, s)
    BY InputWords
  <1> HIDE DEF s
  <1>5. CASE b \in 1 .. B
    <2> HIDE DEF b
    <2>1. s[b + WordTotal(r)[QueryTotal(r)[b - 1]]] = HeaderWord(HeaderOf(r, b))
      BY <1>4, <1>5 DEF WordsInOrder
    <2>2. s[b + w] = HeaderWord(HeaderOf(r, b))
      BY <1>1, <1>2, <2>1
    <2>3. b + w = h + w + 1
      BY <1>1, <1>3 DEF b
    <2> QED BY <2>2, <2>3 DEF s, b
  <1>6. CASE h = B
    <2>1. HeaderOf(r, h + 1) = TerminateHeader
      <3>1. h + 1 \notin 1 .. BatchNum(r)
        BY <1>1, <1>6
      <3> QED BY <3>1 DEF HeaderOf
    <2>2. n = QueryNum(r)
      BY <1>2, <1>6 DEF QueryNum
    <2>3. s[B + 1 + WordTotal(r)[QueryNum(r)]] = HeaderWord(TerminateHeader)
      BY <1>4 DEF WordsInOrder
    <2>4. B + 1 + w = h + w + 1
      BY <1>1, <1>3, <1>6
    <2>5. s[B + 1 + w] = HeaderWord(TerminateHeader)
      BY <2>2, <2>3
    <2> QED BY <2>1, <2>4, <2>5 DEF s
  <1> QED BY <1>1, <1>5, <1>6

\* net_header keeps the invariant.
LEMMA NetHeaderStep ==
  ASSUME NEW r, NEW rd, NEW wr, At(r, rd, wr), net_header
  PROVE  ScanInv'
  <1> DEFINE p == network_input
             c0 == s_kernel_network_in
             c1 == s_batch_header(replicate)
             h == wr[c1]
             hd == Input.header
             takes == {c0}
             puts == To(c1, hd)
             R == Counted(Stream, rd, takes)
             W == Counted(Stream, wr, DOMAIN puts)
  <1>2. PICK n : /\ Serves(r, h, left[p], nprobe[p], n)
                 /\ NetworkBody(r, h, n, left[p], at[p], rd[c0],
                                wr[s_cell_ID], wr[s_query_vectors], wr[s_center_vectors])
    BY NetworkAt
  <1>3. /\ left[p] = 0 /\ Transfer(takes, puts) /\ at' = at /\ request' = request
        /\ left' = [left EXCEPT ![p] = hd.batch_size]
        /\ nprobe' = [nprobe EXCEPT ![p] = hd.nprobe] /\ fifo[c0] # <<>>
    BY DEF net_header
  <1>4. /\ c0 \in Stream /\ takes \in SUBSET {s_kernel_network_in} /\ DOMAIN puts = {c1} /\ puts[c1] = hd
        /\ DOMAIN puts \in SUBSET Stream /\ Writer(c1) = p /\ c1 \in Stream /\ c1[1] = "s_batch_header"
    BY Wiring, HeaderWiring DEF ToAll, To, s_batch_header
  <1>5. /\ at[p] = [phase |-> "cells", pos |-> 0, word |-> <<>>]
        /\ rd[c0] = h + WordTotal(r)[n] /\ wr[s_cell_ID] = Past(r, n, 0)
        /\ wr[s_query_vectors] = n /\ wr[s_center_vectors] = Past(r, n, 0)
    BY <1>2, <1>3 DEF NetworkBody
  <1>6. /\ rd[c0] \in Nat /\ rd[c0] < wr[c0] /\ Input = Words(r)[rd[c0] + 1]
        /\ wr[c0] = BatchNum(r) + 1 + WordTotal(r)[QueryNum(r)]
    <2>1. /\ rd[c0] \in Nat /\ rd[c0] < wr[c0] /\ Head(fifo[c0]) = History(r)[c0][rd[c0] + 1]
      BY <1>3, <1>4, Reading
    <2>2. wr[c0] = BatchNum(r) + 1 + WordTotal(r)[QueryNum(r)]
      BY NetworkAt
    <2> DEFINE x == rd[c0] + 1
    <2>3. x \in Nat
      BY <2>1
    <2> HIDE DEF x
    <2>4. History(r)[c0][x] = Words(r)[x]
      BY <2>3, Values
    <2> QED BY <2>1, <2>2, <2>4 DEF x, Input
  <1>7. r \in Requests /\ Serves(r, h, 0, nprobe[p], n)
    BY <1>2, <1>3, NetworkAt
  <1>8. h \in 0 .. BatchNum(r)
    <2>1. h \in 0 .. BatchNum(r) + 1 /\ BatchNum(r) \in Nat
      BY HeadersRead
    <2>2. ASSUME h = BatchNum(r) + 1 PROVE FALSE
      <3>1. n = QueryTotal(r)[BatchNum(r) + 1] - 0
        BY <1>7, <2>2 DEF Serves
      <3>2. /\ QueryTotal(r)[BatchNum(r) + 1] = QueryTotal(r)[BatchNum(r)] + Size(r, BatchNum(r) + 1)
            /\ QueryNum(r) \in Nat
        <4> DEFINE b == BatchNum(r) + 1
        <4>1. b \in 1 .. BatchNum(r) + 1 /\ b - 1 = BatchNum(r)
          BY <2>1
        <4> HIDE DEF b
        <4>2. QueryTotal(r)[b] = QueryTotal(r)[b - 1] + Size(r, b) /\ QueryNum(r) \in Nat
          BY <1>7, <4>1, QueryFacts
        <4> QED BY <4>1, <4>2 DEF b
      <3>3. Size(r, BatchNum(r) + 1) = 0
        BY <2>1 DEF Size
      <3>4. n = QueryNum(r)
        BY <3>1, <3>2, <3>3 DEF QueryNum
      <3>5. WordTotal(r)[QueryNum(r)] \in Nat
        BY <1>7, <3>2, WordFacts
      <3> QED BY <1>5, <1>6, <2>1, <2>2, <3>4, <3>5
    <2> QED BY <2>1, <2>2
  <1>9. hd = HeaderOf(r, h + 1)
    <2>1. Words(r)[h + WordTotal(r)[n] + 1] = HeaderWord(HeaderOf(r, h + 1))
      BY <1>7, <1>8, HeaderWords
    <2>2. Input = HeaderWord(HeaderOf(r, h + 1))
      BY <1>5, <1>6, <2>1
    <2> QED BY <2>2 DEF HeaderWord
  <1>10. \A c \in DOMAIN puts : Writer(c) = p /\ puts[c] = History(r)[c][wr[c] + 1]
    <2> DEFINE x == h + 1
    <2>1. x \in Nat
      BY <1>8
    <2> HIDE DEF x
    <2>2. History(r)[c1][x] = HeaderOf(r, x)
      BY <2>1, HeaderValues
    <2> HIDE DEF puts, hd
    <2> QED BY <1>4, <1>9, <2>2 DEF x
  <1>11. /\ Moves(p) /\ at'[p] = at[p] /\ left'[p] = hd.batch_size /\ nprobe'[p] = hd.nprobe
    <2>1. DOMAIN at = Process /\ DOMAIN left = Process /\ DOMAIN nprobe = Process /\ p \in Process
      BY NetworkAt DEF At
    <2> HIDE DEF hd
    <2> QED BY <1>3, <2>1 DEF Moves
  <1>12. /\ W[c1] = h + 1 /\ R[c0] = rd[c0] + 1
         /\ W[s_cell_ID] = wr[s_cell_ID] /\ W[s_query_vectors] = wr[s_query_vectors]
         /\ W[s_center_vectors] = wr[s_center_vectors]
    <2>1. s_cell_ID # c1 /\ s_query_vectors # c1 /\ s_center_vectors # c1
      BY <1>4, NotHeader
    <2> HIDE DEF puts
    <2> QED BY <1>4, <2>1, Wiring DEF Counted
  <1>14. Serves(r, h + 1, left'[p], nprobe'[p], n)
    <2> DEFINE np == nprobe'[p]
    <2>1. PICK k : k = np
      OBVIOUS
    <2>2. Serves(r, h, 0, k, n)
      BY <1>7 DEF Serves
    <2>3. /\ HeaderOf(r, h + 1).terminate \in BOOLEAN
          /\ HeaderOf(r, h + 1).terminate => Serves(r, h + 1, 0, k, n)
          /\ ~ HeaderOf(r, h + 1).terminate =>
               Serves(r, h + 1, HeaderOf(r, h + 1).batch_size, HeaderOf(r, h + 1).nprobe, n)
          /\ HeaderOf(r, h + 1).terminate => HeaderOf(r, h + 1).batch_size = 0
      BY <1>7, <1>8, <2>2, NextHeader
    <2> HIDE DEF hd, h
    <2> QED BY <1>9, <1>11, <2>1, <2>3
  <1> HIDE DEF p, c0, c1, h, hd, takes, puts, R, W
  <1>15. rd[c0] + 1 = (h + 1) + WordTotal(r)[n]
    <2>1. h \in Int /\ WordTotal(r)[n] \in Nat
      <3>1. Served(r, h, 0, nprobe[p], n)
        BY <1>7, Serving
      <3>2. n \in 0 .. QueryNum(r)
        BY <3>1 DEF Served
      <3> QED BY <1>7, <1>8, <3>2, WordFacts
    <2> QED BY <1>5, <2>1
  <1>16. NetworkBody(r, h + 1, n, left'[p], at'[p], R[c0],
                     W[s_cell_ID], W[s_query_vectors], W[s_center_vectors])
    BY <1>5, <1>11, <1>12, <1>15, Zenon DEF NetworkBody
  <1> QED BY <1>3, <1>4, <1>10, <1>11, <1>12, <1>14, <1>16, NetworkStep DEF p, c0, c1, R, W

\* The network process has a query to work on.
NetServed(r, h, lf, np, n) ==
  /\ np = Len(CellsOf(r, n + 1)) /\ np \in Nat \ {0} /\ CellsOf(r, n + 1) \in Seq(Cell)
  /\ h \in Nat /\ n \in Nat /\ ProbeTotal(r)[n] \in Nat /\ WordTotal(r)[n] \in Nat
  /\ WordNum(CellsOf(r, n + 1)) \in Nat
  /\ ProbeTotal(r)[n + 1] = ProbeTotal(r)[n] + np
  /\ WordTotal(r)[n + 1] = WordTotal(r)[n] + WordNum(CellsOf(r, n + 1)) + 1 + np
  /\ Serves(r, h, lf - 1, np, n + 1)
  /\ \A k \in 1 .. np : CellAt(r, ProbeTotal(r)[n] + k) = CellsOf(r, n + 1)[k]

\* The query the network process is at, in numbers.
LEMMA NetworkServes ==
  ASSUME NEW r \in Requests, NEW h, NEW lf, NEW np, NEW n, Serves(r, h, lf, np, n), lf > 0
  PROVE  NetServed(r, h, lf, np, n)
  <1>1. Served(r, h, lf, np, n)
    BY Serving
  <1>2. /\ np = Len(CellsOf(r, n + 1)) /\ np \in Nat \ {0} /\ CellsOf(r, n + 1) \in Seq(Cell)
        /\ h \in Nat /\ n \in Nat /\ ProbeTotal(r)[n] \in Nat
        /\ ProbeTotal(r)[n + 1] = ProbeTotal(r)[n] + np
        /\ Serves(r, h, lf - 1, np, n + 1)
        /\ \A k \in 1 .. np : CellAt(r, ProbeTotal(r)[n] + k) = CellsOf(r, n + 1)[k]
    BY <1>1 DEF Served
  <1>3. QueryInput(r, h, n)
    BY QueryInputs
  <1>4. /\ WordTotal(r)[n] \in Nat /\ WordNum(CellsOf(r, n + 1)) \in Nat
        /\ WordTotal(r)[n + 1] = WordTotal(r)[n] + WordNum(CellsOf(r, n + 1)) + 1 + Len(CellsOf(r, n + 1))
    BY <1>3 DEF QueryInput
  <1>5. WordTotal(r)[n + 1] = WordTotal(r)[n] + WordNum(CellsOf(r, n + 1)) + 1 + np
    BY <1>2, <1>4
  <1> QED BY <1>2, <1>4, <1>5, Zenon DEF NetServed

\* What the network process reads.
LEMMA NetworkReads ==
  ASSUME NEW r, NEW rd, NEW wr, At(r, rd, wr), fifo[s_kernel_network_in] # <<>>
  PROVE  /\ rd[s_kernel_network_in] \in Nat
         /\ Input = Words(r)[rd[s_kernel_network_in] + 1]
  <1> DEFINE c0 == s_kernel_network_in
             x == rd[c0] + 1
  <1>1. rd[c0] \in Nat /\ Head(fifo[c0]) = History(r)[c0][rd[c0] + 1]
    BY Wiring, Reading
  <1>2. x \in Nat
    BY <1>1
  <1> HIDE DEF x
  <1>3. History(r)[c0][x] = Words(r)[x]
    BY <1>2, Values
  <1> QED BY <1>1, <1>3 DEF x, Input

\* The streams the network process does not write to.
LEMMA NetworkStreams ==
  /\ s_batch_header(replicate) \in Stream /\ s_kernel_network_in \in Stream
  /\ s_cell_ID \in Stream /\ s_query_vectors \in Stream /\ s_center_vectors \in Stream
  /\ Writer(s_cell_ID) = network_input /\ Writer(s_query_vectors) = network_input
  /\ Writer(s_center_vectors) = network_input
  /\ s_cell_ID # s_query_vectors /\ s_cell_ID # s_center_vectors
  /\ s_query_vectors # s_center_vectors
  /\ \A c \in {s_cell_ID, s_query_vectors, s_center_vectors} : s_batch_header(replicate) # c
BY Wiring, HeaderWiring DEF s_batch_header, s_cell_ID, s_query_vectors, s_center_vectors

\* net_cell_word keeps the invariant.
LEMMA NetCellWordStep ==
  ASSUME NEW r, NEW rd, NEW wr, At(r, rd, wr), net_cell_word
  PROVE  ScanInv'
  <1> DEFINE p == network_input
             c0 == s_kernel_network_in
             c1 == s_batch_header(replicate)
             h == wr[c1]
             lf == left[p]
             l == at[p]
             takes == {c0}
             puts == Nothing
             R == Counted(Stream, rd, takes)
             W == Counted(Stream, wr, DOMAIN puts)
             local == [l EXCEPT !.word = Input.cells]
  <1>1. PICK n : /\ Serves(r, h, lf, nprobe[p], n)
                 /\ NetworkBody(r, h, n, lf, l, rd[c0],
                                wr[s_cell_ID], wr[s_query_vectors], wr[s_center_vectors])
    BY NetworkAt
  <1>2. /\ lf > 0 /\ l.phase = "cells" /\ l.word = <<>>
        /\ Transfer(takes, puts) /\ at' = [at EXCEPT ![p] = local] /\ request' = request
        /\ Finish(p, FALSE)
    BY DEF net_cell_word, SetAt, Finish
  <1>3. /\ takes \in SUBSET {s_kernel_network_in} /\ DOMAIN puts = {}
        /\ DOMAIN puts \in SUBSET Stream /\ fifo[c0] # <<>>
        /\ \A c \in DOMAIN puts : Writer(c) = p /\ puts[c] = History(r)[c][wr[c] + 1]
    BY <1>2 DEF ToAll, Nothing, Transfer
  <1>4. r \in Requests /\ p \in Process
    BY NetworkAt
  <1> DEFINE cells == CellsOf(r, n + 1)
             np == Len(cells)
             start == h + WordTotal(r)[n]
  <1>5. /\ np = nprobe[p] /\ np \in Nat \ {0} /\ cells \in Seq(Cell) /\ start \in Nat
    <2>1. Serves(r, h, lf, nprobe[p], n) /\ lf > 0 /\ r \in Requests
      BY <1>1, <1>2, <1>4
    <2> DEFINE v == nprobe[p]
    <2> HIDE DEF h, lf, v
    <2>2. NetServed(r, h, lf, v, n)
      <3>1. Serves(r, h, lf, v, n)
        BY <2>1 DEF v
      <3> QED BY <2>1, <3>1, NetworkServes
    <2> QED BY <2>2 DEF v, NetServed
  <1>6. Moves(p) /\ at'[p] = local /\ nprobe'[p] = nprobe[p] /\ left'[p] = lf
    BY <1>2, <1>4, FinishMoves
  <1>7. /\ R[c0] = rd[c0] + 1 /\ W[c1] = h /\ W[s_cell_ID] = wr[s_cell_ID]
        /\ W[s_query_vectors] = wr[s_query_vectors] /\ W[s_center_vectors] = wr[s_center_vectors]
    BY <1>3, NetworkStreams DEF Counted
  <1>8. rd[c0] \in Nat /\ Input = Words(r)[rd[c0] + 1]
    BY <1>3, NetworkReads
  <1> HIDE DEF lf, l, h, c0, c1, R, W, puts, takes, local
  <1>9. PICK k \in 0 .. np - 1 :
          /\ l = [phase |-> "cells", pos |-> k, word |-> <<>>]
          /\ rd[c0] = start + k \div CELLS_PER_WORD
          /\ wr[s_cell_ID] = Past(r, n, k) /\ wr[s_query_vectors] = n
          /\ wr[s_center_vectors] = Past(r, n, 0)
    <2>1. CASE /\ l = [phase |-> "cells", pos |-> 0, word |-> <<>>]
               /\ rd[c0] = start /\ wr[s_cell_ID] = Past(r, n, 0) /\ wr[s_query_vectors] = n
               /\ wr[s_center_vectors] = Past(r, n, 0)
      <3>1. 0 \in 0 .. np - 1 /\ start + 0 \div CELLS_PER_WORD = start
        <4>1. 0 \div CELLS_PER_WORD = 0
          <5>1. 0 * CELLS_PER_WORD + 0 = 0 /\ 0 \in 0 .. CELLS_PER_WORD - 1 /\ 0 \in Nat
                /\ CELLS_PER_WORD \in Nat \ {0}
            BY Positive
          <5>2. (0 * CELLS_PER_WORD + 0) \div CELLS_PER_WORD = 0
            BY <5>1, Division
          <5> QED BY <5>1, <5>2
        <4> HIDE DEF start, np
        <4> QED BY <1>5, <4>1
      <3> HIDE DEF start, np
      <3> QED BY <2>1, <3>1, Zenon
    <2>2. ASSUME NEW k \in 0 .. np - 1,
                 \/ /\ l = [phase |-> "cells", pos |-> k, word |-> <<>>]
                    /\ rd[c0] = start + k \div CELLS_PER_WORD
                 \/ /\ l = [phase |-> "cells", pos |-> k,
                            word |-> CellWords(cells)[(k \div CELLS_PER_WORD) + 1].cells]
                    /\ rd[c0] = start + (k \div CELLS_PER_WORD) + 1,
                 wr[s_cell_ID] = Past(r, n, k), wr[s_query_vectors] = n,
                 wr[s_center_vectors] = Past(r, n, 0)
          PROVE  /\ l = [phase |-> "cells", pos |-> k, word |-> <<>>]
                 /\ rd[c0] = start + k \div CELLS_PER_WORD
                 /\ wr[s_cell_ID] = Past(r, n, k) /\ wr[s_query_vectors] = n
                 /\ wr[s_center_vectors] = Past(r, n, 0)
      <3>1. CellWords(cells)[(k \div CELLS_PER_WORD) + 1].cells # <<>>
        <4> HIDE DEF cells
        <4> QED BY <1>5, CellWord
      <3> DEFINE w == CellWords(cells)[(k \div CELLS_PER_WORD) + 1].cells
      <3> HIDE DEF w
      <3>2. l = [phase |-> "cells", pos |-> k, word |-> w] => l.word = w
        OBVIOUS
      <3>3. l # [phase |-> "cells", pos |-> k, word |-> w]
        BY <1>2, <3>1, <3>2 DEF w
      <3> QED BY <2>2, <3>3 DEF w
    <2>3. \A k, w, ph : l = [phase |-> ph, pos |-> k, word |-> w] => l.phase = ph
      OBVIOUS
    <2>4. /\ l # [phase |-> "query", pos |-> 0, word |-> <<>>]
          /\ \A k : l # [phase |-> "center", pos |-> k, word |-> <<>>]
      BY <1>2, <2>3
    <2> QED BY <1>1, <2>1, <2>2, <2>4, Zenon DEF NetworkBody
  <1> DEFINE d == k \div CELLS_PER_WORD
  <1>10. d + 1 \in 1 .. WordNum(cells) /\ d \in Nat
    <2> HIDE DEF cells
    <2> QED BY <1>5, CellWord
  <1>11. Input = CellWords(cells)[d + 1]
    <2>1. QueryInput(r, h, n)
      BY <1>1, <1>2, <1>4, QueryInputs
    <2>2. Words(r)[start + (d + 1)] = CellWords(cells)[d + 1]
      BY <1>10, <2>1 DEF QueryInput
    <2> HIDE DEF d, start, cells, np
    <2>3. rd[c0] + 1 = start + (d + 1)
      BY <1>5, <1>9, <1>10 DEF d
    <2> QED BY <1>8, <2>2, <2>3
  <1>12. local = [phase |-> "cells", pos |-> k, word |-> CellWords(cells)[d + 1].cells]
    <2> HIDE DEF d, cells
    <2> QED BY <1>9, <1>11 DEF local
  <1>13. R[c0] = start + d + 1
    <2> HIDE DEF start, np
    <2> QED BY <1>5, <1>7, <1>9, <1>10
  <1>14. NetworkBody(r, h, n, lf, local, R[c0],
                     W[s_cell_ID], W[s_query_vectors], W[s_center_vectors])
    BY <1>2, <1>7, <1>9, <1>12, <1>13, Zenon DEF NetworkBody
  <1> QED BY <1>1, <1>2, <1>3, <1>6, <1>7, <1>14, NetworkStep DEF p, c0, c1, R, W, lf, h, takes

\* net_cell keeps the invariant: the padding is left out.
LEMMA NetCellStep ==
  ASSUME NEW r, NEW rd, NEW wr, At(r, rd, wr), net_cell
  PROVE  ScanInv'
  <1> DEFINE p == network_input
             c0 == s_kernel_network_in
             c1 == s_batch_header(replicate)
             h == wr[c1]
             lf == left[p]
             l == at[p]
             v == l.word[(l.pos % CELLS_PER_WORD) + 1]
             next == l.pos + 1
             last == next = nprobe[p]
             takes == {}
             puts == To(s_cell_ID, v)
             R == Counted(Stream, rd, takes)
             W == Counted(Stream, wr, DOMAIN puts)
             local == [phase |-> IF last THEN "query" ELSE "cells",
                       pos |-> IF last THEN 0 ELSE next,
                       word |-> IF last \/ next % CELLS_PER_WORD = 0 THEN <<>> ELSE l.word]
  <1>1. PICK n : /\ Serves(r, h, lf, nprobe[p], n)
                 /\ NetworkBody(r, h, n, lf, l, rd[c0],
                                wr[s_cell_ID], wr[s_query_vectors], wr[s_center_vectors])
    BY NetworkAt
  <1>2. /\ l.phase = "cells" /\ l.word # <<>>
        /\ Transfer(takes, puts) /\ at' = [at EXCEPT ![p] = local] /\ request' = request
        /\ Finish(p, FALSE)
    BY DEF net_cell, SetAt, Finish
  <1>3. /\ takes \in SUBSET {s_kernel_network_in} /\ DOMAIN puts = {s_cell_ID} /\ puts[s_cell_ID] = v
        /\ DOMAIN puts \in SUBSET Stream
        /\ \A c \in DOMAIN puts : Writer(c) = p
    BY NetworkStreams DEF ToAll, To
  <1>4. r \in Requests /\ p \in Process
    BY NetworkAt
  <1> DEFINE cells == CellsOf(r, n + 1)
             np == Len(cells)
             start == h + WordTotal(r)[n]
             u == nprobe[p]
             P == ProbeTotal(r)
  <1>6. Moves(p) /\ at'[p] = local /\ nprobe'[p] = nprobe[p] /\ left'[p] = lf
    <2>1. at' = [at EXCEPT ![p] = local] /\ request' = request /\ Finish(p, FALSE) /\ p \in Process
      BY <1>2, <1>4
    <2> HIDE DEF local, p
    <2> QED BY <2>1, FinishMoves
  <1>7. /\ R[c0] = rd[c0] /\ W[c1] = h /\ W[s_cell_ID] = wr[s_cell_ID] + 1
        /\ W[s_query_vectors] = wr[s_query_vectors] /\ W[s_center_vectors] = wr[s_center_vectors]
    <2> HIDE DEF puts
    <2> QED BY <1>3, NetworkStreams DEF Counted
  <1> HIDE DEF lf, l, h, c0, c1, R, W, puts, takes, local, last, next, v
  <1>9. PICK k \in 0 .. np - 1 :
          /\ lf > 0
          /\ l = [phase |-> "cells", pos |-> k,
                  word |-> CellWords(cells)[(k \div CELLS_PER_WORD) + 1].cells]
          /\ rd[c0] = start + (k \div CELLS_PER_WORD) + 1
          /\ wr[s_cell_ID] = Past(r, n, k) /\ wr[s_query_vectors] = n
          /\ wr[s_center_vectors] = Past(r, n, 0)
    <2>1. \A k, w, ph : l = [phase |-> ph, pos |-> k, word |-> w] => l.phase = ph /\ l.word = w
      OBVIOUS
    <2>2. /\ l # [phase |-> "query", pos |-> 0, word |-> <<>>]
          /\ \A k : l # [phase |-> "center", pos |-> k, word |-> <<>>]
          /\ \A k : l # [phase |-> "cells", pos |-> k, word |-> <<>>]
      BY <1>2, <2>1
    <2> QED BY <1>1, <2>2, Zenon DEF NetworkBody
  <1>10. NetServed(r, h, lf, u, n)
    <2>1. Serves(r, h, lf, u, n)
      BY <1>1
    <2> HIDE DEF u
    <2> QED BY <1>4, <1>9, <2>1, NetworkServes
  <1>11. /\ np = u /\ np \in Nat \ {0} /\ cells \in Seq(Cell) /\ start \in Nat /\ P[n] \in Nat
         /\ WordNum(cells) \in Nat
         /\ \A j \in 1 .. np : CellAt(r, P[n] + j) = cells[j]
         /\ k \in 0 .. np - 1
    <2>1. /\ u = Len(CellsOf(r, n + 1)) /\ u \in Nat \ {0} /\ CellsOf(r, n + 1) \in Seq(Cell)
          /\ h \in Nat /\ P[n] \in Nat /\ WordTotal(r)[n] \in Nat
          /\ WordNum(CellsOf(r, n + 1)) \in Nat
          /\ \A j \in 1 .. u : CellAt(r, P[n] + j) = CellsOf(r, n + 1)[j]
      BY <1>10, Zenon DEF NetServed
    <2>2. np = u /\ cells = CellsOf(r, n + 1)
      BY <2>1
    <2>3. start \in Nat /\ k \in 0 .. np - 1
      BY <2>1
    <2> HIDE DEF np, cells, start, u, P
    <2> QED BY <2>1, <2>2, <2>3, Zenon
  <1> DEFINE d == k \div CELLS_PER_WORD
  <1>12. /\ CellWords(cells)[d + 1].cells[(k % CELLS_PER_WORD) + 1] = cells[k + 1]
         /\ k + 1 = np => WordNum(cells) = d + 1
         /\ d \in Nat
         /\ CellWords(cells)[d + 1].cells # <<>>
    <2> HIDE DEF cells
    <2> QED BY <1>11, CellWord
  <1> HIDE DEF cells, np, start, P, u, d
  <1>13. k \in Nat /\ k + 1 \in 1 .. np /\ P[n] + (k + 1) = P[n] + k + 1
    <2>1. P[n] \in Nat /\ np \in Nat \ {0} /\ k \in 0 .. np - 1
      BY <1>11
    <2> QED BY <2>1
  <1>14. v = cells[k + 1]
    <2>1. l.word = CellWords(cells)[d + 1].cells /\ l.pos = k
      BY <1>9 DEF d
    <2> QED BY <1>12, <2>1 DEF v
  <1>15. \A c \in DOMAIN puts : puts[c] = History(r)[c][wr[c] + 1]
    <2> DEFINE x == P[n] + k + 1
    <2>1. x \in Nat /\ x = wr[s_cell_ID] + 1 /\ x = P[n] + (k + 1)
      BY <1>9, <1>11, <1>13 DEF Past, P
    <2>2. CellAt(r, x) = cells[k + 1]
      BY <1>11, <1>13, <2>1
    <2> HIDE DEF x
    <2>3. History(r)[s_cell_ID][x] = CellAt(r, x)
      BY <2>1, Values
    <2> QED BY <1>3, <1>14, <2>1, <2>2, <2>3
  <1>16. W[s_cell_ID] = Past(r, n, k + 1)
    BY <1>7, <1>9, <1>13 DEF Past, P
  <1>17. l.pos = k /\ l.word = CellWords(cells)[d + 1].cells /\ next = k + 1 /\ (last <=> k + 1 = np)
    BY <1>9, <1>11 DEF next, last, d, u
  <1>18. CASE k + 1 = np
    <2>1. local = [phase |-> "query", pos |-> 0, word |-> <<>>]
      BY <1>17, <1>18 DEF local
    <2>2. R[c0] = start + WordNum(cells)
      BY <1>7, <1>9, <1>11, <1>12, <1>18 DEF d
    <2>3. W[s_cell_ID] = Past(r, n, np)
      BY <1>16, <1>18
    <2>4. NetworkBody(r, h, n, lf, local, R[c0],
                      W[s_cell_ID], W[s_query_vectors], W[s_center_vectors])
      BY <1>7, <1>9, <2>1, <2>2, <2>3, Zenon DEF NetworkBody, np, start, cells
    <2> QED BY <1>1, <1>2, <1>3, <1>6, <1>7, <1>15, <2>4, NetworkStep DEF p, c0, c1, R, W, lf, h, takes
  <1>19. CASE k + 1 # np
    <2> DEFINE m == k + 1
    <2>1. m \in 0 .. np - 1
      BY <1>11, <1>19
    <2>2. /\ m % CELLS_PER_WORD = 0 => m \div CELLS_PER_WORD = d + 1
          /\ m % CELLS_PER_WORD # 0 => m \div CELLS_PER_WORD = d
      BY <1>13, Positive, NextQuotient DEF d
    <2>3. local = [phase |-> "cells", pos |-> m,
                   word |-> IF m % CELLS_PER_WORD = 0 THEN <<>> ELSE CellWords(cells)[d + 1].cells]
      BY <1>17, <1>19 DEF local
    <2>4. R[c0] = start + (d + 1) /\ start + (d + 1) = start + d + 1
      BY <1>7, <1>9, <1>11, <1>12 DEF d
    <2> HIDE DEF m
    <2>5. NetworkBody(r, h, n, lf, local, R[c0],
                      W[s_cell_ID], W[s_query_vectors], W[s_center_vectors])
      <3>1. W[s_cell_ID] = Past(r, n, m)
        BY <1>16 DEF m
      <3>2. CASE m % CELLS_PER_WORD = 0
        <4>1. /\ local = [phase |-> "cells", pos |-> m, word |-> <<>>]
              /\ R[c0] = start + m \div CELLS_PER_WORD
          BY <2>2, <2>3, <2>4, <3>2
        <4> QED BY <1>7, <1>9, <2>1, <3>1, <3>2, <4>1, Zenon DEF NetworkBody, np, start, cells
      <3>3. CASE m % CELLS_PER_WORD # 0
        <4>1. /\ local = [phase |-> "cells", pos |-> m,
                          word |-> CellWords(cells)[(m \div CELLS_PER_WORD) + 1].cells]
              /\ R[c0] = start + (m \div CELLS_PER_WORD) + 1
          BY <2>2, <2>3, <2>4, <3>3
        <4> QED BY <1>7, <1>9, <2>1, <3>1, <4>1, Zenon DEF NetworkBody, np, start, cells
      <3> QED BY <3>2, <3>3
    <2> QED BY <1>1, <1>2, <1>3, <1>6, <1>7, <1>15, <2>5, NetworkStep DEF p, c0, c1, R, W, lf, h, takes
  <1> QED BY <1>18, <1>19

\* net_query keeps the invariant.
LEMMA NetQueryStep ==
  ASSUME NEW r, NEW rd, NEW wr, At(r, rd, wr), net_query
  PROVE  ScanInv'
  <1> DEFINE p == network_input
             c0 == s_kernel_network_in
             c1 == s_batch_header(replicate)
             h == wr[c1]
             lf == left[p]
             l == at[p]
             takes == {c0}
             puts == To(s_query_vectors, Input)
             R == Counted(Stream, rd, takes)
             W == Counted(Stream, wr, DOMAIN puts)
             local == [l EXCEPT !.phase = "center"]
  <1>1. PICK n : /\ Serves(r, h, lf, nprobe[p], n)
                 /\ NetworkBody(r, h, n, lf, l, rd[c0],
                                wr[s_cell_ID], wr[s_query_vectors], wr[s_center_vectors])
    BY NetworkAt
  <1>2. /\ l.phase = "query" /\ fifo[c0] # <<>>
        /\ Transfer(takes, puts) /\ at' = [at EXCEPT ![p] = local] /\ request' = request
        /\ Finish(p, FALSE)
    BY DEF net_query, Finish
  <1>3. /\ takes \in SUBSET {s_kernel_network_in}
        /\ DOMAIN puts = {s_query_vectors} /\ puts[s_query_vectors] = Input
        /\ DOMAIN puts \in SUBSET Stream
        /\ \A c \in DOMAIN puts : Writer(c) = p
    BY NetworkStreams DEF ToAll, To
  <1>4. r \in Requests /\ p \in Process
    BY NetworkAt
  <1> DEFINE cells == CellsOf(r, n + 1)
             np == Len(cells)
             start == h + WordTotal(r)[n]
             u == nprobe[p]
  <1>6. Moves(p) /\ at'[p] = local /\ nprobe'[p] = nprobe[p] /\ left'[p] = lf
    <2>1. at' = [at EXCEPT ![p] = local] /\ request' = request /\ Finish(p, FALSE) /\ p \in Process
      BY <1>2, <1>4
    <2> HIDE DEF local, p
    <2> QED BY <2>1, FinishMoves
  <1>7. /\ R[c0] = rd[c0] + 1 /\ W[c1] = h /\ W[s_cell_ID] = wr[s_cell_ID]
        /\ W[s_query_vectors] = wr[s_query_vectors] + 1 /\ W[s_center_vectors] = wr[s_center_vectors]
    <2> HIDE DEF puts
    <2> QED BY <1>3, NetworkStreams DEF Counted
  <1>8. rd[c0] \in Nat /\ Input = Words(r)[rd[c0] + 1]
    BY <1>2, NetworkReads
  <1> HIDE DEF lf, l, h, c0, c1, R, W, puts, takes, local
  <1>9. /\ lf > 0
        /\ l = [phase |-> "query", pos |-> 0, word |-> <<>>]
        /\ rd[c0] = start + WordNum(cells)
        /\ wr[s_cell_ID] = Past(r, n, np) /\ wr[s_query_vectors] = n
        /\ wr[s_center_vectors] = Past(r, n, 0)
    <2>1. \A k, w, ph : l = [phase |-> ph, pos |-> k, word |-> w] => l.phase = ph
      OBVIOUS
    <2>2. /\ \A k : l # [phase |-> "center", pos |-> k, word |-> <<>>]
          /\ \A k, w : l # [phase |-> "cells", pos |-> k, word |-> w]
      BY <1>2, <2>1
    <2> QED BY <1>1, <2>2, Zenon DEF NetworkBody
  <1>10. NetServed(r, h, lf, u, n)
    <2>1. Serves(r, h, lf, u, n)
      BY <1>1
    <2> HIDE DEF u
    <2> QED BY <1>4, <1>9, <2>1, NetworkServes
  <1>11. np \in Nat \ {0} /\ start \in Nat /\ WordNum(cells) \in Nat /\ n \in Nat
    BY <1>10 DEF NetServed
  <1>12. Words(r)[start + WordNum(cells) + 1] = QueryVector(r, n + 1)
    <2>1. QueryInput(r, h, n)
      BY <1>1, <1>4, <1>9, QueryInputs
    <2> QED BY <2>1 DEF QueryInput
  <1>15. \A c \in DOMAIN puts : puts[c] = History(r)[c][wr[c] + 1]
    <2> DEFINE x == n + 1
    <2>1. x \in Nat /\ x = wr[s_query_vectors] + 1
      BY <1>9, <1>11
    <2>2. Input = QueryVector(r, x)
      BY <1>8, <1>9, <1>12
    <2> HIDE DEF x
    <2>3. History(r)[s_query_vectors][x] = QueryVector(r, x)
      BY <2>1, Values
    <2> QED BY <1>3, <2>1, <2>2, <2>3
  <1>16. local = [phase |-> "center", pos |-> 0, word |-> <<>>]
    BY <1>9 DEF local
  <1> HIDE DEF cells, np, start
  <1>17. /\ R[c0] = start + WordNum(cells) + 1 + 0 /\ W[s_query_vectors] = n + 1
         /\ 0 \in 0 .. np - 1
    BY <1>7, <1>9, <1>11
  <1>18. NetworkBody(r, h, n, lf, local, R[c0],
                     W[s_cell_ID], W[s_query_vectors], W[s_center_vectors])
    BY <1>7, <1>9, <1>16, <1>17, Zenon DEF NetworkBody, np, start, cells
  <1>19. Serves(r, h, left'[p], nprobe'[p], n)
    BY <1>1, <1>6
  <1>20. NetworkBody(r, h, n, left'[p], at'[p], R[c0],
                     W[s_cell_ID], W[s_query_vectors], W[s_center_vectors])
    BY <1>6, <1>18
  <1> QED BY <1>2, <1>3, <1>6, <1>7, <1>15, <1>19, <1>20, NetworkStep DEF p, c0, c1, R, W

\* net_center keeps the invariant.
LEMMA NetCenterStep ==
  ASSUME NEW r, NEW rd, NEW wr, At(r, rd, wr), net_center
  PROVE  ScanInv'
  <1> DEFINE p == network_input
             c0 == s_kernel_network_in
             c1 == s_batch_header(replicate)
             h == wr[c1]
             lf == left[p]
             l == at[p]
             last == l.pos + 1 = nprobe[p]
             takes == {c0}
             puts == To(s_center_vectors, Input)
             R == Counted(Stream, rd, takes)
             W == Counted(Stream, wr, DOMAIN puts)
             local == [l EXCEPT !.phase = IF last THEN "cells" ELSE "center",
                                !.pos = IF last THEN 0 ELSE @ + 1]
  <1>1. PICK n : /\ Serves(r, h, lf, nprobe[p], n)
                 /\ NetworkBody(r, h, n, lf, l, rd[c0],
                                wr[s_cell_ID], wr[s_query_vectors], wr[s_center_vectors])
    BY NetworkAt
  <1>2. /\ l.phase = "center" /\ fifo[c0] # <<>>
        /\ Transfer(takes, puts) /\ at' = [at EXCEPT ![p] = local] /\ request' = request
        /\ Finish(p, last)
    BY DEF net_center, SetAt
  <1>3. /\ takes \in SUBSET {s_kernel_network_in}
        /\ DOMAIN puts = {s_center_vectors} /\ puts[s_center_vectors] = Input
        /\ DOMAIN puts \in SUBSET Stream
        /\ \A c \in DOMAIN puts : Writer(c) = p
    BY NetworkStreams DEF ToAll, To
  <1>4. r \in Requests /\ p \in Process
    BY NetworkAt
  <1> DEFINE cells == CellsOf(r, n + 1)
             np == Len(cells)
             T == WordTotal(r)
             start == h + T[n]
             u == nprobe[p]
             P == ProbeTotal(r)
             ww == WordNum(cells)
  <1>6. /\ Moves(p) /\ at'[p] = local /\ nprobe'[p] = nprobe[p]
        /\ left'[p] = IF last THEN left[p] - 1 ELSE left[p]
    <2>1. at' = [at EXCEPT ![p] = local] /\ request' = request /\ Finish(p, last) /\ p \in Process
      BY <1>2, <1>4
    <2> HIDE DEF local, last, p
    <2> QED BY <2>1, FinishMoves
  <1>7. /\ R[c0] = rd[c0] + 1 /\ W[c1] = h /\ W[s_cell_ID] = wr[s_cell_ID]
        /\ W[s_query_vectors] = wr[s_query_vectors] /\ W[s_center_vectors] = wr[s_center_vectors] + 1
    <2> HIDE DEF puts
    <2> QED BY <1>3, NetworkStreams DEF Counted
  <1>8. rd[c0] \in Nat /\ Input = Words(r)[rd[c0] + 1]
    BY <1>2, NetworkReads
  <1> HIDE DEF lf, l, h, c0, c1, R, W, puts, takes, local, last
  <1>9. PICK k \in 0 .. np - 1 :
          /\ lf > 0
          /\ l = [phase |-> "center", pos |-> k, word |-> <<>>]
          /\ rd[c0] = start + ww + 1 + k
          /\ wr[s_cell_ID] = Past(r, n, np) /\ wr[s_query_vectors] = n + 1
          /\ wr[s_center_vectors] = Past(r, n, k)
    <2>1. \A k, w, ph : l = [phase |-> ph, pos |-> k, word |-> w] => l.phase = ph
      OBVIOUS
    <2>2. /\ l # [phase |-> "query", pos |-> 0, word |-> <<>>]
          /\ \A k, w : l # [phase |-> "cells", pos |-> k, word |-> w]
      BY <1>2, <2>1
    <2> QED BY <1>1, <2>2, Zenon DEF NetworkBody
  <1>10. NetServed(r, h, lf, u, n)
    <2>1. Serves(r, h, lf, u, n)
      BY <1>1
    <2> HIDE DEF u
    <2> QED BY <1>4, <1>9, <2>1, NetworkServes
  <1>11. /\ np = u /\ np \in Nat \ {0} /\ start \in Nat /\ ww \in Nat /\ n \in Nat /\ h \in Nat
         /\ P[n] \in Nat /\ P[n + 1] = P[n] + np /\ Serves(r, h, lf - 1, u, n + 1)
         /\ T[n] \in Nat /\ T[n + 1] = T[n] + ww + 1 + np
         /\ k \in 0 .. np - 1
    BY <1>10 DEF NetServed
  <1>12. \A j \in 1 .. np : Words(r)[start + ww + 1 + j] = Row(r, P[n] + j).center
    <2>1. QueryInput(r, h, n)
      BY <1>1, <1>4, <1>9, QueryInputs
    <2> QED BY <2>1 DEF QueryInput
  <1> HIDE DEF cells, np, P, ww, T, u
  <1>13. /\ k \in Nat /\ k + 1 \in 1 .. np /\ P[n] + (k + 1) = P[n] + k + 1
         /\ rd[c0] + 1 = start + ww + 1 + (k + 1)
    <2>1. P[n] \in Nat /\ np \in Nat \ {0} /\ k \in 0 .. np - 1 /\ start \in Nat /\ ww \in Nat
          /\ rd[c0] = start + ww + 1 + k
      BY <1>9, <1>11
    <2> HIDE DEF start
    <2> QED BY <2>1
  <1>15. \A c \in DOMAIN puts : puts[c] = History(r)[c][wr[c] + 1]
    <2> DEFINE x == P[n] + k + 1
    <2>1. x \in Nat /\ x = wr[s_center_vectors] + 1 /\ x = P[n] + (k + 1)
      <3>1. wr[s_center_vectors] = P[n] + k /\ P[n] \in Nat
        BY <1>9, <1>11 DEF Past, P
      <3> QED BY <1>13, <3>1
    <2>2. Input = Row(r, x).center
      BY <1>8, <1>12, <1>13, <2>1
    <2> HIDE DEF x
    <2>3. History(r)[s_center_vectors][x] = Row(r, x).center
      BY <2>1, Values
    <2> QED BY <1>3, <2>1, <2>2, <2>3
  <1>16. l.pos = k /\ (last <=> k + 1 = np)
    BY <1>9, <1>11 DEF last, u
  <1>17. W[s_center_vectors] = Past(r, n, k + 1)
    BY <1>7, <1>9, <1>13 DEF Past, P
  <1>18. CASE k + 1 # np
    <2>1. local = [phase |-> "center", pos |-> k + 1, word |-> <<>>]
      <3>1. l = [phase |-> "center", pos |-> k, word |-> <<>>] /\ ~ last
        BY <1>9, <1>16, <1>18
      <3>2. local = [l EXCEPT !.phase = "center", !.pos = k + 1]
        BY <1>16, <3>1 DEF local
      <3> QED BY <3>1, <3>2
    <2>2. k + 1 \in 0 .. np - 1 /\ R[c0] = start + ww + 1 + (k + 1)
      BY <1>7, <1>11, <1>13, <1>18
    <2>3. NetworkBody(r, h, n, lf, local, R[c0],
                      W[s_cell_ID], W[s_query_vectors], W[s_center_vectors])
      BY <1>7, <1>9, <1>17, <2>1, <2>2, Zenon DEF NetworkBody, np, cells, ww, T
    <2>4. left'[p] = lf
      BY <1>6, <1>16, <1>18 DEF lf
    <2>5. Serves(r, h, left'[p], nprobe'[p], n)
      BY <1>1, <1>6, <2>4
    <2>6. NetworkBody(r, h, n, left'[p], at'[p], R[c0],
                      W[s_cell_ID], W[s_query_vectors], W[s_center_vectors])
      BY <1>6, <2>3, <2>4
    <2> QED BY <1>2, <1>3, <1>6, <1>7, <1>15, <2>5, <2>6, NetworkStep DEF p, c0, c1, R, W
  <1>19. CASE k + 1 = np
    <2>1. local = [phase |-> "cells", pos |-> 0, word |-> <<>>]
      <3>1. l = [phase |-> "center", pos |-> k, word |-> <<>>] /\ last
        BY <1>9, <1>16, <1>19
      <3>2. local = [l EXCEPT !.phase = "cells", !.pos = 0]
        BY <1>16, <3>1 DEF local
      <3> QED BY <3>1, <3>2
    <2> DEFINE m == n + 1
               lf2 == lf - 1
    <2>2. R[c0] = h + T[m]
      BY <1>7, <1>11, <1>13, <1>19
    <2>3. /\ W[s_center_vectors] = Past(r, m, 0)
          /\ W[s_cell_ID] = Past(r, m, 0) /\ W[s_query_vectors] = m
      <3>1. /\ W[s_center_vectors] = P[n] + (k + 1) /\ W[s_cell_ID] = P[n] + np
            /\ W[s_query_vectors] = n + 1
        BY <1>7, <1>9, <1>17 DEF Past, P
      <3>2. P[n + 1] = P[n] + np /\ P[n] \in Nat /\ np \in Nat
        BY <1>11
      <3>3. P[m] + 0 = P[n] + np
        BY <3>2
      <3> HIDE DEF m
      <3>4. P[m] + 0 = Past(r, m, 0)
        BY DEF Past, P
      <3> QED BY <1>19, <3>1, <3>3, <3>4 DEF m
    <2>4. left'[p] = lf2
      BY <1>6, <1>16, <1>19 DEF lf
    <2>5. Serves(r, h, lf2, u, m)
      BY <1>11
    <2> HIDE DEF m, lf2
    <2>6. NetworkBody(r, h, m, lf2, local, R[c0],
                      W[s_cell_ID], W[s_query_vectors], W[s_center_vectors])
      BY <2>1, <2>2, <2>3, Zenon DEF NetworkBody, T
    <2>7. Serves(r, h, left'[p], nprobe'[p], m)
      BY <1>6, <2>4, <2>5 DEF u
    <2>8. NetworkBody(r, h, m, left'[p], at'[p], R[c0],
                      W[s_cell_ID], W[s_query_vectors], W[s_center_vectors])
      BY <1>6, <2>4, <2>6
    <2> QED BY <1>2, <1>3, <1>6, <1>7, <1>15, <2>7, <2>8, NetworkStep DEF p, c0, c1, R, W
  <1> QED BY <1>18, <1>19

-----------------------------------------------------------------------------
(* From cell numbers to codes. *)

\* The three arrays of meta_data_init.
LEMMA MetaData ==
  ASSUME NEW m \in 0 .. nlist - 1
  PROVE  meta_data_init[m] = start_addr[m] /\ meta_data_init[2 * nlist + m] = num_vecs[m]
  <1>1. nlist \in Nat \ {0} /\ m \in Nat
    BY Positive
  <1>2. m \div nlist = 0 /\ (2 * nlist + m) \div nlist = 2
    <2>1. 0 * nlist + m = m /\ 0 \in Nat /\ 2 \in Nat
      BY <1>1
    <2>2. (0 * nlist + m) \div nlist = 0
      BY <1>1, <2>1, Division
    <2>3. (2 * nlist + m) \div nlist = 2
      BY <1>1, <2>1, Division
    <2> QED BY <2>1, <2>2, <2>3
  <1>3. m \in 0 .. 3 * nlist - 1 /\ 2 * nlist + m \in 0 .. 3 * nlist - 1 /\ (2 * nlist + m) - 2 * nlist = m
    BY <1>1
  <1> DEFINE f(k) == CASE k \div nlist = 0 -> start_addr[k]
                       [] k \div nlist = 1 -> "vec_ID"
                       [] OTHER -> num_vecs[k - 2 * nlist]
  <1>4. \A k \in 0 .. 3 * nlist - 1 : meta_data_init[k] = f(k)
    BY DEF meta_data_init
  <1>5. f(m) = start_addr[m]
    BY <1>2
  <1>6. f(2 * nlist + m) = num_vecs[m]
    <2> DEFINE x == 2 * nlist + m
    <2>1. x \div nlist = 2 /\ x - 2 * nlist = m
      BY <1>2, <1>3
    <2> HIDE DEF x
    <2>2. f(x) = num_vecs[m]
      BY <2>1
    <2> QED BY <2>2 DEF x
  <1> HIDE DEF f
  <1> QED BY <1>3, <1>4, <1>5, <1>6

\* get_cell_init keeps the invariant: the tables fill up in order.
LEMMA GetCellInitStep ==
  ASSUME NEW r, NEW rd, NEW wr, At(r, rd, wr), get_cell_init
  PROVE  ScanInv'
  <1> DEFINE p == get_cell
             h == rd[s_batch_header(p)]
             lf == left[p]
             l == at[p]
             a == Head(fifo[s_nlist_start_addr])
             v == Head(fifo[s_nlist_num_vecs])
             takes == {s_nlist_start_addr, s_nlist_num_vecs}
             puts == Nothing
             R == Counted(Stream, rd, takes)
             W == Counted(Stream, wr, DOMAIN puts)
             local == [l EXCEPT !.addr = Append(@, a), !.vecs = Append(@, v)]
             E(n) == EntryTotal(r)[n]
  <1>1. p \in Stages /\ p \in Process
    BY StagesAre
  <1>2. PICK n : r \in Requests /\ Serves(r, h, lf, nprobe[p], n) /\ GetCellBody(r, n, lf, l, rd, wr)
    BY <1>1, StageAt, Bodies
  <1>3. PICK addr, vecs, k : \E m \in 0 .. nlist :
          /\ l = [addr |-> addr, vecs |-> vecs, probe |-> k,
                  iter_num |-> EntryTotal(r)[Past(r, n, k)] - EntryTotal(r)[Past(r, n, 0)]]
          /\ Tables(addr, vecs, m) /\ (lf > 0 => m = nlist)
          /\ rd[s_nlist_start_addr] = m /\ rd[s_nlist_num_vecs] = m
          /\ k = 0 \/ (lf > 0 /\ k \in 1 .. Len(CellsOf(r, n + 1)))
          /\ rd[s_cell_ID_get] = Past(r, n, k) /\ wr[s_scanned_entries] = Past(r, n, k)
          /\ wr[s_last_valid_PE_ID] = Past(r, n, k) /\ wr[s_start_addr] = Past(r, n, k)
          /\ wr[s_control_iter_num] = n
    BY <1>2, Zenon DEF GetCellBody
  <1>4. PICK m \in 0 .. nlist :
          /\ l = [addr |-> addr, vecs |-> vecs, probe |-> k,
                  iter_num |-> EntryTotal(r)[Past(r, n, k)] - EntryTotal(r)[Past(r, n, 0)]]
          /\ Tables(addr, vecs, m) /\ (lf > 0 => m = nlist)
          /\ rd[s_nlist_start_addr] = m /\ rd[s_nlist_num_vecs] = m
          /\ k = 0 \/ (lf > 0 /\ k \in 1 .. Len(CellsOf(r, n + 1)))
          /\ rd[s_cell_ID_get] = Past(r, n, k) /\ wr[s_scanned_entries] = Past(r, n, k)
          /\ wr[s_last_valid_PE_ID] = Past(r, n, k) /\ wr[s_start_addr] = Past(r, n, k)
          /\ wr[s_control_iter_num] = n
    BY <1>3
  <1>5. /\ Len(l.addr) < nlist /\ fifo[s_nlist_start_addr] # <<>> /\ fifo[s_nlist_num_vecs] # <<>>
        /\ Transfer(takes, puts) /\ request' = request /\ Finish(p, FALSE)
        /\ at' = [at EXCEPT ![p].addr = Append(@, a), ![p].vecs = Append(@, v)]
    BY DEF get_cell_init, Finish
  <1>6. at' = [at EXCEPT ![p] = local]
    <2>1. DOMAIN at = Process
      BY DEF At
    <2> HIDE DEF p, a, v
    <2> QED BY <1>1, <1>5, <2>1
  <1>7. /\ takes \in SUBSET Stream /\ DOMAIN puts = {}
        /\ DOMAIN puts \in SUBSET Stream /\ \A c \in takes : Reader(c) = p /\ c[1] # "s_batch_header"
        /\ \A c \in DOMAIN puts : Writer(c) = p /\ puts[c] = History(r)[c][wr[c] + 1]
    BY Wiring, NotHeader DEF ToAll, Nothing
  <1>8. Moves(p) /\ at'[p] = local /\ nprobe'[p] = nprobe[p] /\ left'[p] = left[p]
    <2> HIDE DEF local, p
    <2> QED BY <1>1, <1>5, <1>6, FinishMoves
  <1>9. nlist \in Nat /\ m < nlist /\ ~ (lf > 0) /\ k = 0 /\ l.addr = addr /\ l.vecs = vecs
    <2>1. l.addr = addr /\ l.vecs = vecs /\ Len(addr) = m
      BY <1>4 DEF Tables
    <2> HIDE DEF l, lf
    <2> QED BY <1>4, <1>5, <2>1, Positive
  <1>10. a = start_addr[m] /\ v = num_vecs[m]
    <2> DEFINE x == m + 1
    <2>1. x \in Nat /\ x - 1 = m
      OBVIOUS
    <2>2. /\ a = History(r)[s_nlist_start_addr][x] /\ v = History(r)[s_nlist_num_vecs][x]
      BY <1>4, <1>5, Reading, Wiring
    <2> HIDE DEF x
    <2>3. /\ History(r)[s_nlist_start_addr][x] = meta_data_init[x - 1]
          /\ History(r)[s_nlist_num_vecs][x] = meta_data_init[2 * nlist + (x - 1)]
      BY <2>1, Values
    <2>4. m \in 0 .. nlist - 1
      BY <1>9
    <2> QED BY <2>1, <2>2, <2>3, <2>4, MetaData
  <1> DEFINE addr2 == Append(addr, a)
             vecs2 == Append(vecs, v)
             m2 == m + 1
  <1>11. Tables(addr2, vecs2, m2) /\ m2 \in 0 .. nlist
    <2>1. /\ IsSequence(addr) /\ IsSequence(vecs) /\ Len(addr) = m /\ Len(vecs) = m
          /\ \A j \in 1 .. m : addr[j] = start_addr[j - 1] /\ vecs[j] = num_vecs[j - 1]
      BY <1>4 DEF Tables
    <2>2. /\ IsSequence(addr2) /\ Len(addr2) = m + 1
          /\ \A j \in 1 .. m : addr2[j] = addr[j]
          /\ addr2[m + 1] = a
      <3> HIDE DEF a
      <3> QED BY <2>1, Sequences
    <2>3. /\ IsSequence(vecs2) /\ Len(vecs2) = m + 1
          /\ \A j \in 1 .. m : vecs2[j] = vecs[j]
          /\ vecs2[m + 1] = v
      <3> HIDE DEF v
      <3> QED BY <2>1, Sequences
    <2> HIDE DEF addr2, vecs2
    <2>4. \A j \in 1 .. m + 1 : addr2[j] = start_addr[j - 1] /\ vecs2[j] = num_vecs[j - 1]
      <3> TAKE j \in 1 .. m + 1
      <3>1. CASE j \in 1 .. m
        BY <2>1, <2>2, <2>3, <3>1
      <3>2. CASE j = m + 1
        <4>1. j - 1 = m
          BY <3>2
        <4> QED BY <1>10, <2>2, <2>3, <3>2, <4>1
      <3> QED BY <3>1, <3>2
    <2> QED BY <1>9, <2>2, <2>3, <2>4 DEF Tables
  <1>12. /\ R[s_nlist_start_addr] = m2 /\ R[s_nlist_num_vecs] = m2
         /\ R[s_cell_ID_get] = rd[s_cell_ID_get]
         /\ W[s_scanned_entries] = wr[s_scanned_entries]
         /\ W[s_last_valid_PE_ID] = wr[s_last_valid_PE_ID] /\ W[s_start_addr] = wr[s_start_addr]
         /\ W[s_control_iter_num] = wr[s_control_iter_num]
    <2>1. s_cell_ID_get \notin takes
      BY DEF s_cell_ID_get, s_nlist_start_addr, s_nlist_num_vecs
    <2> HIDE DEF puts
    <2> QED BY <1>4, <1>7, <2>1, Wiring DEF Counted
  <1>13. local = [addr |-> addr2, vecs |-> vecs2, probe |-> k,
                  iter_num |-> EntryTotal(r)[Past(r, n, k)] - EntryTotal(r)[Past(r, n, 0)]]
    <2>1. local = [l EXCEPT !.addr = addr2, !.vecs = vecs2]
      BY <1>9
    <2> HIDE DEF local, addr2, vecs2, l
    <2> QED BY <1>4, <2>1
  <1> HIDE DEF p, h, lf, l, a, v, takes, puts, R, W, local, addr2, vecs2, m2
  <1>14. GetCellBody(r, n, lf, local, R, W)
    BY <1>4, <1>9, <1>11, <1>12, <1>13, Zenon DEF GetCellBody
  <1>15. StageBody(r, p, n, left'[p], at'[p], R, W)
    BY <1>8, <1>14, Bodies DEF p, lf
  <1>16. Serves(r, h, left'[p], nprobe[p], n)
    BY <1>2, <1>8 DEF lf
  <1> QED BY <1>1, <1>5, <1>7, <1>8, <1>15, <1>16, StageStep DEF h, R, W

\* get_cell_probe keeps the invariant.
LEMMA GetCellProbeStep ==
  ASSUME NEW r, NEW rd, NEW wr, At(r, rd, wr), get_cell_probe
  PROVE  ScanInv'
  <1> DEFINE p == get_cell
             h == rd[s_batch_header(p)]
             lf == left[p]
             l == at[p]
             cell == Head(fifo[s_cell_ID_get])
             num_vec == l.vecs[cell + 1]
             entries == scanned_entries_every_cell(num_vec)
             takes == {s_cell_ID_get}
             puts == To(s_scanned_entries, entries)
                       ++ To(s_last_valid_PE_ID, last_valid_PE_ID(num_vec))
                       ++ To(s_start_addr, l.addr[cell + 1])
             R == Counted(Stream, rd, takes)
             W == Counted(Stream, wr, DOMAIN puts)
             local == [l EXCEPT !.probe = @ + 1, !.iter_num = @ + entries]
             np == nprobe[p]
  <1>1. p \in Stages /\ p \in Process
    BY StagesAre
  <1>2. PICK n : r \in Requests /\ Serves(r, h, lf, np, n) /\ GetCellBody(r, n, lf, l, rd, wr)
    BY <1>1, StageAt, Bodies
  <1>3. PICK addr, vecs, k : \E m \in 0 .. nlist :
          /\ l = [addr |-> addr, vecs |-> vecs, probe |-> k,
                  iter_num |-> EntryTotal(r)[Past(r, n, k)] - EntryTotal(r)[Past(r, n, 0)]]
          /\ Tables(addr, vecs, m) /\ (lf > 0 => m = nlist)
          /\ rd[s_nlist_start_addr] = m /\ rd[s_nlist_num_vecs] = m
          /\ k = 0 \/ (lf > 0 /\ k \in 1 .. Len(CellsOf(r, n + 1)))
          /\ rd[s_cell_ID_get] = Past(r, n, k) /\ wr[s_scanned_entries] = Past(r, n, k)
          /\ wr[s_last_valid_PE_ID] = Past(r, n, k) /\ wr[s_start_addr] = Past(r, n, k)
          /\ wr[s_control_iter_num] = n
    BY <1>2, Zenon DEF GetCellBody
  <1>5. /\ lf > 0 /\ l.probe < np /\ fifo[s_cell_ID_get] # <<>>
        /\ Transfer(takes, puts) /\ request' = request /\ Finish(p, FALSE)
        /\ at' = [at EXCEPT ![p] = local]
    BY DEF get_cell_probe, Finish, SetAt
  <1>4. /\ l = [addr |-> addr, vecs |-> vecs, probe |-> k,
                iter_num |-> EntryTotal(r)[Past(r, n, k)] - EntryTotal(r)[Past(r, n, 0)]]
        /\ Tables(addr, vecs, nlist)
        /\ rd[s_nlist_start_addr] = nlist /\ rd[s_nlist_num_vecs] = nlist
        /\ k = 0 \/ k \in 1 .. Len(CellsOf(r, n + 1))
        /\ rd[s_cell_ID_get] = Past(r, n, k) /\ wr[s_scanned_entries] = Past(r, n, k)
        /\ wr[s_last_valid_PE_ID] = Past(r, n, k) /\ wr[s_start_addr] = Past(r, n, k)
        /\ wr[s_control_iter_num] = n
    BY <1>3, <1>5
  <1>7. /\ takes \in SUBSET Stream
        /\ DOMAIN puts = {s_scanned_entries, s_last_valid_PE_ID, s_start_addr}
        /\ puts[s_scanned_entries] = entries
        /\ puts[s_last_valid_PE_ID] = last_valid_PE_ID(num_vec)
        /\ puts[s_start_addr] = l.addr[cell + 1]
        /\ DOMAIN puts \in SUBSET Stream /\ \A c \in takes : Reader(c) = p /\ c[1] # "s_batch_header"
        /\ \A c \in DOMAIN puts : Writer(c) = p
    <2>1. /\ DOMAIN puts = {s_scanned_entries, s_last_valid_PE_ID, s_start_addr}
          /\ puts[s_scanned_entries] = entries
          /\ puts[s_last_valid_PE_ID] = last_valid_PE_ID(num_vec)
          /\ puts[s_start_addr] = l.addr[cell + 1]
      <3> HIDE DEF entries, num_vec, l, cell
      <3> QED BY DEF To, ToAll, ++, s_scanned_entries, s_last_valid_PE_ID, s_start_addr
    <2> HIDE DEF puts
    <2> QED BY <2>1, Wiring, NotHeader
  <1>8. Moves(p) /\ at'[p] = local /\ nprobe'[p] = nprobe[p] /\ left'[p] = left[p]
    <2> HIDE DEF local, p
    <2> QED BY <1>1, <1>5, FinishMoves
  <1> HIDE DEF p, h, lf, l, puts, R, W, local, np, entries, num_vec, cell, takes
  <1>9. Served(r, h, lf, np, n)
    BY <1>2, Serving
  <1>10. /\ np = Len(CellsOf(r, n + 1)) /\ np \in Nat \ {0} /\ ProbeTotal(r)[n] \in 0 .. ProbeNum(r)
         /\ ProbeNum(r) \in Nat
         /\ \A j \in 1 .. np : ProbeTotal(r)[n] + j \in 1 .. ProbeNum(r)
    BY <1>5, <1>9 DEF Served
  <1>11. k \in Nat /\ k < np /\ l.addr = addr /\ l.vecs = vecs
    <2>1. l.probe = k /\ l.addr = addr /\ l.vecs = vecs
      BY <1>4
    <2> QED BY <1>4, <1>5, <1>10, <2>1
  <1> DEFINE g == Past(r, n, k)
             x == g + 1
  <1>12. g \in Nat /\ x \in Nat /\ x \in 1 .. ProbeNum(r) /\ x - 1 = g /\ Past(r, n, k + 1) = x
         /\ k + 1 \in 1 .. np
    <2> DEFINE P == ProbeTotal(r)[n]
    <2>1. P \in Nat /\ k + 1 \in 1 .. np
      BY <1>10, <1>11
    <2>2. P + (k + 1) \in 1 .. ProbeNum(r)
      BY <1>10, <2>1
    <2> HIDE DEF P
    <2>3. P + (k + 1) = P + k + 1 /\ P + k \in Nat /\ P + k + 1 \in Nat /\ (P + k + 1) - 1 = P + k
      BY <1>11, <2>1
    <2> QED BY <2>1, <2>2, <2>3 DEF Past, P
  <1> HIDE DEF g, x
  <1>13. cell = CellAt(r, x) /\ cell \in Cell
    <2>1. cell = History(r)[s_cell_ID_get][x]
      <3>1. Head(fifo[s_cell_ID_get]) = History(r)[s_cell_ID_get][rd[s_cell_ID_get] + 1]
        BY <1>5, Wiring, Reading
      <3> QED BY <1>4, <3>1 DEF cell, x, g
    <2>2. History(r)[s_cell_ID_get][x] = CellAt(r, x)
      BY <1>12, Values
    <2> QED BY <1>2, <1>12, <2>1, <2>2, ProbedFacts
  <1>14. l.addr[cell + 1] = start_addr[cell] /\ num_vec = num_vecs[cell]
    <2>1. cell + 1 \in 1 .. nlist /\ (cell + 1) - 1 = cell
      BY <1>13, Positive DEF Cell
    <2> QED BY <1>4, <1>11, <2>1 DEF Tables, num_vec
  <1>15. entries = Entries(r, x)
    BY <1>13, <1>14 DEF entries, Entries
  <1>16. \A c \in DOMAIN puts : puts[c] = History(r)[c][wr[c] + 1]
    <2>1. \A c \in DOMAIN puts : wr[c] + 1 = x
      BY <1>4, <1>7 DEF x, g
    <2>2. /\ History(r)[s_scanned_entries][x] = Entries(r, x)
          /\ History(r)[s_last_valid_PE_ID][x] = last_valid_PE_ID(num_vecs[CellAt(r, x)])
          /\ History(r)[s_start_addr][x] = start_addr[CellAt(r, x)]
      BY <1>12, Values
    <2> QED BY <1>7, <1>13, <1>14, <1>15, <2>1, <2>2
  <1>17. /\ R[s_nlist_start_addr] = nlist /\ R[s_nlist_num_vecs] = nlist
         /\ R[s_cell_ID_get] = x
         /\ W[s_scanned_entries] = x /\ W[s_last_valid_PE_ID] = x /\ W[s_start_addr] = x
         /\ W[s_control_iter_num] = n
    <2>1. s_nlist_start_addr \notin takes /\ s_nlist_num_vecs \notin takes
      BY DEF s_cell_ID_get, s_nlist_start_addr, s_nlist_num_vecs, takes
    <2>2. s_control_iter_num \notin DOMAIN puts
      BY <1>7 DEF s_control_iter_num, s_scanned_entries, s_last_valid_PE_ID, s_start_addr
    <2> QED BY <1>4, <1>7, <2>1, <2>2, Wiring DEF Counted, R, W, x, g, takes
  <1> DEFINE E == EntryTotal(r)
             g0 == Past(r, n, 0)
             k2 == k + 1
  <1>18. E[x] = E[g] + Entries(r, x) /\ E[g] \in Nat /\ E[g0] \in Nat /\ Entries(r, x) \in Nat
    <2>1. g \in 0 .. ProbeNum(r) /\ g0 \in 0 .. ProbeNum(r)
      <3>1. g0 = ProbeTotal(r)[n]
        <4> DEFINE P == ProbeTotal(r)[n]
        <4>1. P \in Nat
          BY <1>10
        <4> HIDE DEF P
        <4>2. P + 0 = P
          BY <4>1
        <4> QED BY <4>2 DEF Past, P
      <3>2. g \in 0 .. ProbeNum(r)
        BY <1>12, <1>10
      <3> HIDE DEF g0
      <3> QED BY <1>10, <3>1, <3>2
    <2> HIDE DEF g0
    <2>2. \A f \in 0 .. ProbeNum(r) : E[f] \in Nat
      BY <1>2, RoundFacts
    <2>3. E[x] = E[x - 1] + Entries(r, x) /\ Entries(r, x) \in Nat
      <3> HIDE DEF E
      <3> QED BY <1>2, <1>12, RoundFacts, ProbedFacts DEF E
    <2> QED BY <1>12, <2>1, <2>2, <2>3
  <1>19. local = [addr |-> addr, vecs |-> vecs, probe |-> k2, iter_num |-> E[x] - E[g0]]
    <2>1. local = [l EXCEPT !.probe = l.probe + 1, !.iter_num = l.iter_num + entries]
      BY DEF local
    <2>2. l.probe = k /\ l.iter_num = E[g] - E[g0]
      BY <1>4 DEF g
    <2> HIDE DEF E, g0
    <2>3. (E[g] - E[g0]) + entries = E[x] - E[g0]
      BY <1>15, <1>18
    <2>4. local = [l EXCEPT !.probe = k2, !.iter_num = E[x] - E[g0]]
      BY <2>1, <2>2, <2>3
    <2> DEFINE iter0 == EntryTotal(r)[Past(r, n, k)] - EntryTotal(r)[Past(r, n, 0)]
               iter == E[x] - E[g0]
    <2>5. l = [addr |-> addr, vecs |-> vecs, probe |-> k, iter_num |-> iter0]
      BY <1>4
    <2>6. local = [l EXCEPT !.probe = k2, !.iter_num = iter]
      BY <2>4
    <2> HIDE DEF k2, local, iter0, iter
    <2>7. local = [addr |-> addr, vecs |-> vecs, probe |-> k2, iter_num |-> iter]
      BY <2>5, <2>6
    <2> QED BY <2>7 DEF iter
  <1>20. Past(r, n, k2) = x /\ k2 \in 1 .. np
    BY <1>12
  <1> HIDE DEF E, g0, k2
  <1>21. nlist \in 0 .. nlist
    BY Positive
  <1>22. GetCellBody(r, n, lf, local, R, W)
    BY <1>4, <1>5, <1>10, <1>17, <1>19, <1>20, <1>21, Zenon DEF GetCellBody, E, g0
  <1>23. StageBody(r, p, n, left'[p], at'[p], R, W)
    BY <1>8, <1>22, Bodies DEF p, lf
  <1>24. Serves(r, h, left'[p], nprobe[p], n)
    BY <1>2, <1>8 DEF lf, np
  <1> QED BY <1>1, <1>5, <1>7, <1>8, <1>16, <1>23, <1>24, StageStep DEF h, R, W

\* The number of rounds of a query.
LEMMA GetCellIterStep ==
  ASSUME NEW r, NEW rd, NEW wr, At(r, rd, wr), get_cell_iter_num
  PROVE  ScanInv'
  <1> DEFINE p == get_cell
             h == rd[s_batch_header(p)]
             lf == left[p]
             l == at[p]
             takes == {}
             puts == To(s_control_iter_num, l.iter_num)
             R == Counted(Stream, rd, takes)
             W == Counted(Stream, wr, DOMAIN puts)
             local == [l EXCEPT !.probe = 0, !.iter_num = 0]
             np == nprobe[p]
  <1>1. p \in Stages /\ p \in Process
    BY StagesAre
  <1>2. PICK n : r \in Requests /\ Serves(r, h, lf, np, n) /\ GetCellBody(r, n, lf, l, rd, wr)
    BY <1>1, StageAt, Bodies
  <1>3. PICK addr, vecs, k : \E m \in 0 .. nlist :
          /\ l = [addr |-> addr, vecs |-> vecs, probe |-> k,
                  iter_num |-> EntryTotal(r)[Past(r, n, k)] - EntryTotal(r)[Past(r, n, 0)]]
          /\ Tables(addr, vecs, m) /\ (lf > 0 => m = nlist)
          /\ rd[s_nlist_start_addr] = m /\ rd[s_nlist_num_vecs] = m
          /\ k = 0 \/ (lf > 0 /\ k \in 1 .. Len(CellsOf(r, n + 1)))
          /\ rd[s_cell_ID_get] = Past(r, n, k) /\ wr[s_scanned_entries] = Past(r, n, k)
          /\ wr[s_last_valid_PE_ID] = Past(r, n, k) /\ wr[s_start_addr] = Past(r, n, k)
          /\ wr[s_control_iter_num] = n
    BY <1>2, Zenon DEF GetCellBody
  <1>5. /\ lf > 0 /\ l.probe = np
        /\ Transfer(takes, puts) /\ request' = request /\ Finish(p, TRUE)
        /\ at' = [at EXCEPT ![p] = local]
    BY DEF get_cell_iter_num, Finish, SetAt
  <1>4. /\ l = [addr |-> addr, vecs |-> vecs, probe |-> k,
                iter_num |-> EntryTotal(r)[Past(r, n, k)] - EntryTotal(r)[Past(r, n, 0)]]
        /\ Tables(addr, vecs, nlist)
        /\ rd[s_nlist_start_addr] = nlist /\ rd[s_nlist_num_vecs] = nlist
        /\ rd[s_cell_ID_get] = Past(r, n, k) /\ wr[s_scanned_entries] = Past(r, n, k)
        /\ wr[s_last_valid_PE_ID] = Past(r, n, k) /\ wr[s_start_addr] = Past(r, n, k)
        /\ wr[s_control_iter_num] = n
    BY <1>3, <1>5
  <1>7. /\ takes \in SUBSET Stream
        /\ DOMAIN puts = {s_control_iter_num} /\ puts[s_control_iter_num] = l.iter_num
        /\ DOMAIN puts \in SUBSET Stream /\ \A c \in takes : Reader(c) = p /\ c[1] # "s_batch_header"
        /\ \A c \in DOMAIN puts : Writer(c) = p
    <2>1. /\ DOMAIN puts = {s_control_iter_num} /\ puts[s_control_iter_num] = l.iter_num
      <3> HIDE DEF l
      <3> QED BY DEF To, ToAll
    <2> HIDE DEF puts
    <2> QED BY <2>1, Wiring, NotHeader
  <1>8. Moves(p) /\ at'[p] = local /\ nprobe'[p] = nprobe[p] /\ left'[p] = left[p] - 1
    <2> HIDE DEF local, p
    <2> QED BY <1>1, <1>5, FinishMoves
  <1> HIDE DEF p, h, lf, l, puts, R, W, local, np, takes
  <1>9. Served(r, h, lf, np, n)
    BY <1>2, Serving
  <1>10. /\ np \in Nat \ {0} /\ ProbeTotal(r)[n] \in 0 .. ProbeNum(r)
         /\ ProbeNum(r) \in Nat /\ n \in Nat /\ n + 1 \in 1 .. QueryNum(r)
         /\ ProbeTotal(r)[n + 1] = ProbeTotal(r)[n] + np /\ Serves(r, h, lf - 1, np, n + 1)
    BY <1>5, <1>9 DEF Served
  <1>11. k = np /\ l.addr = addr /\ l.vecs = vecs
    BY <1>4, <1>5
  <1> DEFINE E == EntryTotal(r)
             x == ProbeTotal(r)[n + 1]
             y == ProbeTotal(r)[n]
  <1>12. Past(r, n, k) = x /\ Past(r, n, 0) = y /\ Past(r, n + 1, 0) = x /\ x \in 0 .. ProbeNum(r)
    <2>1. x \in 0 .. ProbeNum(r)
      <3>1. n + 1 \in 0 .. QueryNum(r)
        BY <1>10
      <3> QED BY <1>2, <3>1, ProbeFacts
    <2>2. y + 0 = y /\ x + 0 = x
      BY <1>10, <2>1
    <2> QED BY <1>10, <1>11, <2>1, <2>2 DEF Past
  <1>13. E[x] \in Nat /\ E[x] - E[x] = 0
    <2>1. E[x] \in Nat
      BY <1>2, <1>12, RoundFacts
    <2> QED BY <2>1
  <1>14. \A c \in DOMAIN puts : puts[c] = History(r)[c][wr[c] + 1]
    <2> DEFINE m == n + 1
    <2>1. m \in Nat /\ m - 1 = n /\ wr[s_control_iter_num] + 1 = m
      BY <1>4, <1>10
    <2>2. l.iter_num = E[x] - E[y]
      BY <1>4, <1>12
    <2>3. IterNum(r, m) = E[x] - E[y]
      BY <2>1 DEF IterNum
    <2> HIDE DEF m
    <2>4. History(r)[s_control_iter_num][m] = IterNum(r, m)
      BY <2>1, Values
    <2> QED BY <1>7, <2>1, <2>2, <2>3, <2>4
  <1>15. /\ R[s_nlist_start_addr] = nlist /\ R[s_nlist_num_vecs] = nlist
         /\ R[s_cell_ID_get] = x
         /\ W[s_scanned_entries] = x /\ W[s_last_valid_PE_ID] = x /\ W[s_start_addr] = x
         /\ W[s_control_iter_num] = n + 1
    <2>1. s_scanned_entries # s_control_iter_num /\ s_last_valid_PE_ID # s_control_iter_num
          /\ s_start_addr # s_control_iter_num
      BY DEF s_control_iter_num, s_scanned_entries, s_last_valid_PE_ID, s_start_addr
    <2> QED BY <1>4, <1>7, <1>12, <2>1, Wiring DEF Counted, R, W, takes
  <1>16. local = [addr |-> addr, vecs |-> vecs, probe |-> 0, iter_num |-> E[x] - E[x]]
    <2> DEFINE iter0 == EntryTotal(r)[Past(r, n, k)] - EntryTotal(r)[Past(r, n, 0)]
    <2>1. l = [addr |-> addr, vecs |-> vecs, probe |-> k, iter_num |-> iter0]
      BY <1>4
    <2> HIDE DEF iter0
    <2>2. local = [l EXCEPT !.probe = 0, !.iter_num = 0]
      BY DEF local
    <2> HIDE DEF local
    <2>3. local = [addr |-> addr, vecs |-> vecs, probe |-> 0, iter_num |-> 0]
      BY <2>1, <2>2
    <2> QED BY <1>13, <2>3
  <1> HIDE DEF E, x, y
  <1>17. nlist \in 0 .. nlist
    BY Positive
  <1>18. GetCellBody(r, n + 1, lf - 1, local, R, W)
    BY <1>4, <1>12, <1>15, <1>16, <1>17, Zenon DEF GetCellBody, E
  <1>19. StageBody(r, p, n + 1, left'[p], at'[p], R, W)
    BY <1>8, <1>18, Bodies DEF p, lf
  <1>20. Serves(r, h, left'[p], nprobe[p], n + 1)
    BY <1>8, <1>10 DEF lf, np
  <1> QED BY <1>1, <1>5, <1>7, <1>8, <1>14, <1>19, <1>20, StageStep DEF h, R, W

-----------------------------------------------------------------------------
(* The codes. *)

\* load_cell keeps the invariant.
LEMMA LoadCellStep ==
  ASSUME NEW r, NEW rd, NEW wr, At(r, rd, wr), load_cell
  PROVE  ScanInv'
  <1> DEFINE p == load_codes
             h == rd[s_batch_header(p)]
             lf == left[p]
             l == at[p]
             np == nprobe[p]
             takes == {s_cell_ID_load, s_entries_load, s_last_valid_PE_ID, s_start_addr}
             puts == Nothing
             R == Counted(Stream, rd, takes)
             W == Counted(Stream, wr, DOMAIN puts)
             rounds == Head(fifo[s_entries_load])
             next == (l.probe + 1) % np
             last == rounds = 0 /\ next = 0
             c2 == [ID |-> Head(fifo[s_cell_ID_load]), rounds |-> rounds,
                    last_valid |-> Head(fifo[s_last_valid_PE_ID]),
                    addr |-> Head(fifo[s_start_addr])]
             local == [probe |-> IF rounds = 0 THEN next ELSE l.probe, round |-> 0, cell |-> c2]
  <1>1. p \in Stages /\ p \in Process
    BY StagesAre
  <1>2. PICK n : r \in Requests /\ Serves(r, h, lf, np, n) /\ LoadBody(r, n, lf, l, rd, wr)
    BY <1>1, StageAt, Bodies
  <1>3. PICK k : /\ Spot(r, n, k)
                 /\ \/ /\ \E c : l = [probe |-> k, round |-> 0, cell |-> c] /\ c.rounds = 0
                       /\ Loads(rd, Past(r, n, k))
                       /\ \A i \in PE : wr[s_PQ_codes(i)] = EntryTotal(r)[Past(r, n, k)]
                    \/ \E x \in 0 .. Entries(r, Past(r, n, k) + 1) - 1 :
                         /\ lf > 0
                         /\ l = [probe |-> k, round |-> x, cell |-> ReadCell(r, Past(r, n, k) + 1)]
                         /\ Loads(rd, Past(r, n, k) + 1)
                         /\ \A i \in PE : wr[s_PQ_codes(i)] = EntryTotal(r)[Past(r, n, k)] + x
    BY <1>2, Zenon DEF LoadBody
  <1>4. /\ lf > 0 /\ l.cell.rounds = 0 /\ \A c \in takes : fifo[c] # <<>>
        /\ Transfer(takes, puts) /\ request' = request /\ Finish(p, last)
        /\ at' = [at EXCEPT ![p] = local]
    BY DEF load_cell, SetAt, NextProbe
  <1>5. /\ takes \in SUBSET Stream /\ DOMAIN puts = {}
        /\ DOMAIN puts \in SUBSET Stream /\ \A c \in takes : Reader(c) = p /\ c[1] # "s_batch_header"
        /\ \A c \in DOMAIN puts : Writer(c) = p /\ puts[c] = History(r)[c][wr[c] + 1]
    BY Wiring, NotHeader DEF ToAll, Nothing
  <1>6. /\ Moves(p) /\ at'[p] = local /\ nprobe'[p] = nprobe[p]
        /\ left'[p] = IF last THEN left[p] - 1 ELSE left[p]
    <2>1. at' = [at EXCEPT ![p] = local] /\ Finish(p, last) /\ request' = request
      BY <1>4
    <2> HIDE DEF local, p, last
    <2> QED BY <1>1, <2>1, FinishMoves
  <1>7. /\ k \in 0 .. np - 1 /\ np \in Nat \ {0}
        /\ Past(r, n, k) \in Nat /\ Past(r, n, k) + 1 \in 1 .. ProbeNum(r)
    BY <1>2, <1>3, <1>4, NextCell
  <1> DEFINE g == Past(r, n, k)
             x == g + 1
             E == EntryTotal(r)
  <1>8. l.probe = k /\ Loads(rd, g) /\ \A i \in PE : wr[s_PQ_codes(i)] = E[g]
    <2>1. ASSUME NEW y \in 0 .. Entries(r, x) - 1, l.cell = ReadCell(r, x) PROVE FALSE
      <3>1. l.cell.rounds = Entries(r, x)
        BY <2>1 DEF ReadCell
      <3> QED BY <1>4, <2>1, <3>1
    <2>2. CASE \E y \in 0 .. Entries(r, x) - 1 :
                         /\ l = [probe |-> k, round |-> y, cell |-> ReadCell(r, x)]
      BY <2>1, <2>2
    <2>3. CASE /\ \E c : l = [probe |-> k, round |-> 0, cell |-> c] /\ c.rounds = 0
               /\ Loads(rd, g)
               /\ \A i \in PE : wr[s_PQ_codes(i)] = E[g]
      BY <2>3
    <2> HIDE DEF E
    <2>4. \/ /\ \E c : l = [probe |-> k, round |-> 0, cell |-> c] /\ c.rounds = 0
             /\ Loads(rd, g)
             /\ \A i \in PE : wr[s_PQ_codes(i)] = E[g]
          \/ \E y \in 0 .. Entries(r, x) - 1 :
                         /\ l = [probe |-> k, round |-> y, cell |-> ReadCell(r, x)]
      BY <1>3, Zenon DEF E
    <2> QED BY <2>2, <2>3, <2>4, Zenon
  <1>9. x \in Nat /\ x \in 1 .. ProbeNum(r) /\ x - 1 = g
    BY <1>7
  <1>10. c2 = ReadCell(r, x)
    <2>1. rd[s_cell_ID_load] = g /\ rd[s_entries_load] = g
          /\ rd[s_last_valid_PE_ID] = g /\ rd[s_start_addr] = g
      BY <1>8 DEF Loads
    <2> HIDE DEF takes, g
    <2>2. /\ Head(fifo[s_cell_ID_load]) = History(r)[s_cell_ID_load][x]
          /\ Head(fifo[s_entries_load]) = History(r)[s_entries_load][x]
          /\ Head(fifo[s_last_valid_PE_ID]) = History(r)[s_last_valid_PE_ID][x]
          /\ Head(fifo[s_start_addr]) = History(r)[s_start_addr][x]
      BY <1>4, <2>1, Reading, Wiring DEF takes
    <2> HIDE DEF x
    <2>3. /\ History(r)[s_cell_ID_load][x] = CellAt(r, x)
          /\ History(r)[s_entries_load][x] = Entries(r, x)
          /\ History(r)[s_last_valid_PE_ID][x] = last_valid_PE_ID(num_vecs[CellAt(r, x)])
          /\ History(r)[s_start_addr][x] = start_addr[CellAt(r, x)]
      BY <1>9, Values
    <2> QED BY <2>2, <2>3 DEF ReadCell
  <1>11. rounds = Entries(r, x) /\ rounds \in Nat /\ E[g] \in Nat /\ E[x] = E[g] + rounds
    <2>1. rounds = c2.rounds /\ ReadCell(r, x).rounds = Entries(r, x)
      BY DEF ReadCell
    <2> HIDE DEF c2, rounds, x
    <2>2. rounds = Entries(r, x)
      BY <1>10, <2>1
    <2>3. E[x] = E[x - 1] + Entries(r, x) /\ Entries(r, x) \in Nat
      <3> HIDE DEF E
      <3> QED BY <1>2, <1>9, RoundFacts, ProbedFacts DEF E
    <2>4. g \in 0 .. ProbeNum(r)
      <3> DEFINE z == Past(r, n, k)
      <3> HIDE DEF z
      <3>1. z \in Nat /\ z + 1 \in 1 .. ProbeNum(r)
        BY <1>7 DEF z
      <3>2. ProbeNum(r) \in Nat
        BY <1>2, ProbeFacts
      <3>3. z \in 0 .. ProbeNum(r)
        BY <3>1, <3>2
      <3> QED BY <3>3 DEF z
    <2>5. E[g] \in Nat
      BY <1>2, <2>4, RoundFacts
    <2> QED BY <1>9, <2>2, <2>3, <2>5
  <1>12. /\ Loads(R, x) /\ \A i \in PE : W[s_PQ_codes(i)] = E[g]
    <2> HIDE DEF puts
    <2> QED BY <1>5, <1>8, Wiring, PEWiring DEF Loads, Counted
  <1> HIDE DEF p, h, lf, l, np, takes, puts, R, W, local, last, next, c2, rounds, g, x, E
  <1>13. CASE rounds = 0
    <2>1. PICK m : /\ Serves(r, h, IF k + 1 = np THEN lf - 1 ELSE lf, np, m)
                   /\ Spot(r, m, (k + 1) % np)
                   /\ Past(r, m, (k + 1) % np) = x
                   /\ k + 1 = np => m = n + 1 /\ (k + 1) % np = 0
                   /\ k + 1 # np => m = n /\ (k + 1) % np = k + 1
      BY <1>2, <1>3, <1>4, NextCell DEF x, g
    <2>2. next = (k + 1) % np /\ (last <=> k + 1 = np)
      BY <1>7, <1>8, <1>13, <2>1 DEF next, last
    <2>3. Serves(r, h, left'[p], nprobe[p], m)
      BY <1>6, <2>1, <2>2 DEF lf, np
    <2>4. E[x] = E[g]
      BY <1>11, <1>13
    <2>5. local = [probe |-> next, round |-> 0, cell |-> c2] /\ c2.rounds = 0
      BY <1>13 DEF local, c2
    <2> DEFINE f == left'[p]
               k2 == (k + 1) % np
    <2>6. local = [probe |-> k2, round |-> 0, cell |-> c2] /\ Spot(r, m, k2) /\ Past(r, m, k2) = x
          /\ \A i \in PE : W[s_PQ_codes(i)] = E[x]
      BY <1>12, <2>1, <2>2, <2>4, <2>5
    <2> HIDE DEF f, k2
    <2>7. LoadBody(r, m, f, local, R, W)
      BY <1>12, <2>5, <2>6, Zenon DEF LoadBody, E
    <2>8. StageBody(r, p, m, left'[p], at'[p], R, W)
      BY <1>6, <2>7, Bodies DEF p, f
    <2> QED BY <1>1, <1>4, <1>5, <1>6, <2>3, <2>8, StageStep DEF h, R, W
  <1>14. CASE rounds # 0
    <2>1. Serves(r, h, left'[p], nprobe[p], n) /\ left'[p] = lf
      BY <1>2, <1>6, <1>14 DEF lf, np, last
    <2>2. 0 \in 0 .. Entries(r, x) - 1 /\ E[g] + 0 = E[g]
      BY <1>11, <1>14
    <2>3. local = [probe |-> k, round |-> 0, cell |-> ReadCell(r, x)]
      BY <1>8, <1>10, <1>14 DEF local
    <2>4. \A i \in PE : W[s_PQ_codes(i)] = E[g] + 0
      BY <1>12, <2>2
    <2>5. LoadBody(r, n, lf, local, R, W)
      BY <1>3, <1>4, <1>12, <2>2, <2>3, <2>4, Zenon DEF LoadBody, E, x, g
    <2>6. StageBody(r, p, n, left'[p], at'[p], R, W)
      BY <1>6, <2>1, <2>5, Bodies DEF p
    <2> QED BY <1>1, <1>4, <1>5, <1>6, <2>1, <2>6, StageStep DEF h, R, W
  <1> QED BY <1>13, <1>14

\* load_round keeps the invariant.
LEMMA LoadRoundStep ==
  ASSUME NEW r, NEW rd, NEW wr, At(r, rd, wr), load_round
  PROVE  ScanInv'
  <1> DEFINE p == load_codes
             h == rd[s_batch_header(p)]
             lf == left[p]
             l == at[p]
             np == nprobe[p]
             takes == {}
             puts == [c \in {s_PQ_codes(i) : i \in PE} |-> PQ_code(l.cell, l.round, c[2])]
             R == Counted(Stream, rd, takes)
             W == Counted(Stream, wr, DOMAIN puts)
             full == l.round + 1 = l.cell.rounds
             next == (l.probe + 1) % np
             last == full /\ next = 0
             local == IF full THEN [probe |-> next, round |-> 0, cell |-> [rounds |-> 0]]
                      ELSE [l EXCEPT !.round = l.round + 1]
  <1>1. p \in Stages /\ p \in Process
    BY StagesAre
  <1>2. PICK n : r \in Requests /\ Serves(r, h, lf, np, n) /\ LoadBody(r, n, lf, l, rd, wr)
    BY <1>1, StageAt, Bodies
  <1>3. PICK k : /\ Spot(r, n, k)
                 /\ \/ /\ \E c : l = [probe |-> k, round |-> 0, cell |-> c] /\ c.rounds = 0
                       /\ Loads(rd, Past(r, n, k))
                       /\ \A i \in PE : wr[s_PQ_codes(i)] = EntryTotal(r)[Past(r, n, k)]
                    \/ \E x \in 0 .. Entries(r, Past(r, n, k) + 1) - 1 :
                         /\ lf > 0
                         /\ l = [probe |-> k, round |-> x, cell |-> ReadCell(r, Past(r, n, k) + 1)]
                         /\ Loads(rd, Past(r, n, k) + 1)
                         /\ \A i \in PE : wr[s_PQ_codes(i)] = EntryTotal(r)[Past(r, n, k)] + x
    BY <1>2, Zenon DEF LoadBody
  <1>4. /\ l.cell.rounds > 0
        /\ Transfer(takes, puts) /\ request' = request /\ Finish(p, last)
        /\ at' = [at EXCEPT ![p] = local]
    BY DEF load_round, SetAt, NextProbe
  <1>5. PICK x \in 0 .. Entries(r, Past(r, n, k) + 1) - 1 :
           /\ lf > 0
           /\ l = [probe |-> k, round |-> x, cell |-> ReadCell(r, Past(r, n, k) + 1)]
           /\ Loads(rd, Past(r, n, k) + 1)
           /\ \A i \in PE : wr[s_PQ_codes(i)] = EntryTotal(r)[Past(r, n, k)] + x
    <2>1. ASSUME NEW c, l = [probe |-> k, round |-> 0, cell |-> c], c.rounds = 0 PROVE FALSE
      <3>1. l.cell.rounds = 0
        BY <2>1
      <3> QED BY <1>4, <3>1
    <2> HIDE DEF lf
    <2> QED BY <1>3, <2>1
  <1>6. /\ takes \in SUBSET Stream /\ DOMAIN puts = {s_PQ_codes(i) : i \in PE}
        /\ \A i \in PE : puts[s_PQ_codes(i)] = PQ_code(l.cell, l.round, i)
        /\ DOMAIN puts \in SUBSET Stream /\ \A c \in takes : Reader(c) = p /\ c[1] # "s_batch_header"
        /\ \A c \in DOMAIN puts : Writer(c) = p
    <2>1. /\ DOMAIN puts = {s_PQ_codes(i) : i \in PE}
          /\ \A i \in PE : puts[s_PQ_codes(i)] = PQ_code(l.cell, l.round, i)
      <3>1. \A i \in PE : s_PQ_codes(i)[2] = i
        BY DEF s_PQ_codes
      <3> HIDE DEF l
      <3> QED BY <3>1
    <2> HIDE DEF puts
    <2> QED BY <2>1, PEWiring
  <1>7. /\ Moves(p) /\ at'[p] = local /\ nprobe'[p] = nprobe[p]
        /\ left'[p] = IF last THEN left[p] - 1 ELSE left[p]
    <2>1. at' = [at EXCEPT ![p] = local] /\ Finish(p, last) /\ request' = request
      BY <1>4
    <2> HIDE DEF local, p, last
    <2> QED BY <1>1, <2>1, FinishMoves
  <1>8. /\ k \in 0 .. np - 1 /\ np \in Nat \ {0}
        /\ Past(r, n, k) \in Nat /\ Past(r, n, k) + 1 \in 1 .. ProbeNum(r)
    BY <1>2, <1>3, <1>5, NextCell
  <1>9. PICK m : /\ Serves(r, h, IF k + 1 = np THEN lf - 1 ELSE lf, np, m)
                 /\ Spot(r, m, (k + 1) % np)
                 /\ Past(r, m, (k + 1) % np) = Past(r, n, k) + 1
                 /\ k + 1 = np => m = n + 1 /\ (k + 1) % np = 0
                 /\ k + 1 # np => m = n /\ (k + 1) % np = k + 1
    BY <1>2, <1>3, <1>5, NextCell
  <1> DEFINE g == Past(r, n, k)
             g1 == g + 1
             E == EntryTotal(r)
             e == Entries(r, g1)
             y == E[g] + x
             y1 == y + 1
  <1>10. g1 \in Nat /\ g1 \in 1 .. ProbeNum(r) /\ g1 - 1 = g
    BY <1>8
  <1>11. e \in Nat /\ E[g] \in Nat /\ E[g1] = E[g] + e /\ x \in 0 .. e - 1
    <2>1. E[g1] = E[g1 - 1] + e /\ e \in Nat
      <3> HIDE DEF E, g1
      <3> QED BY <1>2, <1>10, RoundFacts, ProbedFacts DEF E
    <2>4. g \in 0 .. ProbeNum(r)
      <3> DEFINE z == Past(r, n, k)
      <3> HIDE DEF z
      <3>1. z \in Nat /\ z + 1 \in 1 .. ProbeNum(r)
        BY <1>8 DEF z
      <3>2. ProbeNum(r) \in Nat
        BY <1>2, ProbeFacts
      <3>3. z \in 0 .. ProbeNum(r)
        BY <3>1, <3>2
      <3> QED BY <3>3 DEF z
    <2>5. E[g] \in Nat
      BY <1>2, <2>4, RoundFacts
    <2>6. x \in 0 .. e - 1
      BY <1>5
    <2> QED BY <1>10, <2>1, <2>5, <2>6
  <1>12. y \in Nat /\ y1 \in Nat /\ y1 = E[g] + (x + 1) /\ x + 1 \in 1 .. e
    <2> HIDE DEF E, e, g1
    <2> QED BY <1>11
  <1>13. Round(r)[y1] = <<g1, x + 1>>
    <2> HIDE DEF g1, y1, y
    <2>1. \A j \in 1 .. Entries(r, g1) : Round(r)[E[g1 - 1] + j] = <<g1, j>>
      BY <1>2, <1>10, RoundFacts
    <2> QED BY <1>10, <1>12, <2>1
  <1>14. l.probe = k /\ l.round = x /\ l.cell = ReadCell(r, g1) /\ l.cell.rounds = e
         /\ \A i \in PE : wr[s_PQ_codes(i)] = y
    <2>1. l.probe = k /\ l.round = x /\ l.cell = ReadCell(r, g1)
          /\ \A i \in PE : wr[s_PQ_codes(i)] = y
      BY <1>5
    <2> HIDE DEF l, g1
    <2>2. ReadCell(r, g1).rounds = e
      BY DEF ReadCell
    <2> QED BY <2>1, <2>2
  <1> HIDE DEF p, h, lf, l, np, takes, puts, R, W, local, last, next, full, g, g1, E, e, y, y1
  <1>15. \A c \in DOMAIN puts : puts[c] = History(r)[c][wr[c] + 1]
    <2>1. ASSUME NEW i \in PE PROVE puts[s_PQ_codes(i)] = History(r)[s_PQ_codes(i)][y1]
      <3>1. History(r)[s_PQ_codes(i)][y1] = CodeAt(r, i, y1)
        BY <1>12, PEValues
      <3>2. (x + 1) - 1 = x
        BY <1>12, <1>11
      <3>3. CodeAt(r, i, y1) = PQ_code(ReadCell(r, g1), x, i)
        BY <1>13, <3>2 DEF CodeAt
      <3> QED BY <1>6, <1>14, <3>1, <3>3
    <2>2. \A i \in PE : wr[s_PQ_codes(i)] + 1 = y1
      BY <1>14 DEF y1
    <2> QED BY <1>6, <2>1, <2>2
  <1>16. \A i \in PE : W[s_PQ_codes(i)] = y1
    BY <1>6, <1>14, PEWiring DEF Counted, W, y1
  <1>17. Loads(R, g1)
    BY <1>5, Wiring DEF Loads, R, Counted, takes, g1, g
  <1>18. full <=> x + 1 = e
    BY <1>14 DEF full
  <1>19. CASE full
    <2> DEFINE f == left'[p]
               k2 == (k + 1) % np
               c2 == [rounds |-> 0]
    <2>2. next = k2 /\ (last <=> k + 1 = np)
      BY <1>8, <1>9, <1>14, <1>19 DEF next, last
    <2>3. Serves(r, h, f, nprobe[p], m)
      BY <1>7, <1>9, <2>2 DEF lf, np
    <2>4. E[g1] = y1
      BY <1>11, <1>12, <1>18, <1>19
    <2>5. local = [probe |-> next, round |-> 0, cell |-> c2] /\ c2.rounds = 0
      BY <1>19 DEF local
    <2> HIDE DEF c2
    <2>6. local = [probe |-> k2, round |-> 0, cell |-> c2] /\ Spot(r, m, k2) /\ Past(r, m, k2) = g1
          /\ \A i \in PE : W[s_PQ_codes(i)] = E[g1]
      BY <1>9, <1>16, <2>2, <2>4, <2>5 DEF g1, g
    <2> HIDE DEF f, k2
    <2>7. LoadBody(r, m, f, local, R, W)
      BY <1>17, <2>5, <2>6, Zenon DEF LoadBody, E
    <2>8. StageBody(r, p, m, left'[p], at'[p], R, W)
      BY <1>7, <2>7, Bodies DEF p, f
    <2>9. Serves(r, h, left'[p], nprobe[p], m)
      BY <2>3 DEF f
    <2> QED BY <1>1, <1>4, <1>6, <1>7, <1>15, <2>8, <2>9, StageStep DEF h, R, W
  <1>20. CASE ~ full
    <2> DEFINE x1 == x + 1
    <2>1. Serves(r, h, left'[p], nprobe[p], n) /\ left'[p] = lf
      BY <1>2, <1>7, <1>20 DEF lf, np, last
    <2>2. x1 \in 0 .. e - 1 /\ y1 = E[g] + x1
      BY <1>11, <1>12, <1>18, <1>20
    <2>3. local = [probe |-> k, round |-> x1, cell |-> ReadCell(r, g1)]
      <3>1. l = [probe |-> k, round |-> x, cell |-> ReadCell(r, g1)]
        BY <1>5 DEF g1, g
      <3>2. local = [l EXCEPT !.round = x1]
        BY <1>14, <1>20 DEF local
      <3> HIDE DEF x1
      <3> QED BY <3>1, <3>2
    <2>4. \A i \in PE : W[s_PQ_codes(i)] = E[g] + x1
      BY <1>16, <2>2
    <2> HIDE DEF x1
    <2>5. LoadBody(r, n, lf, local, R, W)
      BY <1>3, <1>5, <1>17, <2>2, <2>3, <2>4, Zenon DEF LoadBody, E, e, g1, g
    <2>6. StageBody(r, p, n, left'[p], at'[p], R, W)
      BY <1>7, <2>1, <2>5, Bodies DEF p
    <2> QED BY <1>1, <1>4, <1>6, <1>7, <1>15, <2>1, <2>6, StageStep DEF h, R, W
  <1> QED BY <1>19, <1>20

-----------------------------------------------------------------------------
(* The lookup tables. *)

\* LUT_query keeps the invariant.
LEMMA LUTQueryStep ==
  ASSUME NEW r, NEW rd, NEW wr, At(r, rd, wr), left[LUT_construction] > 0,
         at[LUT_construction].phase = "query",
         Transfer({s_query_vectors}, Nothing),
         SetAt(LUT_construction, [at[LUT_construction] EXCEPT
           !.phase = "center", !.source.query = Head(fifo[s_query_vectors])]),
         Continues, UNCHANGED request
  PROVE  ScanInv'
  <1> DEFINE p == LUT_construction
             h == rd[s_batch_header(p)]
             lf == left[p]
             l == at[p]
             np == nprobe[p]
             takes == {s_query_vectors}
             puts == Nothing
             R == Counted(Stream, rd, takes)
             W == Counted(Stream, wr, DOMAIN puts)
             v == Head(fifo[s_query_vectors])
             local == [l EXCEPT !.phase = "center", !.source.query = v]
  <1>1. p \in Stages /\ p \in Process
    BY StagesAre
  <1>2. PICK n : r \in Requests /\ Serves(r, h, lf, np, n) /\
          LUTBody(r, n, lf, l, rd[s_query_vectors], rd[s_center_vectors], wr[s_distance_LUT(0)])
    BY <1>1, StageAt, Bodies
  <1>3. PICK k, q, c, x : LUTAt(r, n, lf, l, rd[s_query_vectors], rd[s_center_vectors],
                                wr[s_distance_LUT(0)], k, q, c, x)
    BY <1>2, Zenon DEF LUTBody
  <1>4. /\ lf > 0 /\ l.phase = "query" /\ fifo[s_query_vectors] # <<>>
        /\ Transfer(takes, puts) /\ request' = request /\ Finish(p, FALSE)
        /\ at' = [at EXCEPT ![p] = local]
    <2>1. fifo[s_query_vectors] # <<>>
      BY DEF Transfer
    <2> QED BY <2>1 DEF SetAt, Finish
  <1>5. /\ takes \in SUBSET Stream /\ DOMAIN puts = {}
        /\ DOMAIN puts \in SUBSET Stream /\ \A d \in takes : Reader(d) = p /\ d[1] # "s_batch_header"
        /\ \A d \in DOMAIN puts : Writer(d) = p /\ puts[d] = History(r)[d][wr[d] + 1]
    BY Wiring, NotHeader DEF ToAll, Nothing
  <1>6. Moves(p) /\ at'[p] = local /\ nprobe'[p] = nprobe[p] /\ left'[p] = left[p]
    <2>1. at' = [at EXCEPT ![p] = local] /\ Finish(p, FALSE) /\ request' = request
      BY <1>4
    <2> HIDE DEF local, p
    <2> QED BY <1>1, <2>1, FinishMoves
  <1> DEFINE g == Past(r, n, k)
             row == [query |-> q, center |-> c]
  <1>7. /\ l = [phase |-> "query", source |-> row, probe |-> k, row |-> x]
        /\ k = 0 /\ x = 0 /\ rd[s_query_vectors] = n /\ rd[s_center_vectors] = g
        /\ Spot(r, n, k) /\ x \in 0 .. LUT_ENTRY_NUM - 1 /\ wr[s_distance_LUT(0)] = RowTotal(r)[g] + x
    <2>1. \A ph : l = [phase |-> ph, source |-> row, probe |-> k, row |-> x] => l.phase = ph
      OBVIOUS
    <2>2. l.phase # "center" /\ l.phase # "rows"
      BY <1>4
    <2> HIDE DEF l
    <2> QED BY <1>3, <2>1, <2>2, Zenon DEF LUTAt
  <1>8. n \in Nat /\ n + 1 \in Nat
    <2>1. Served(r, h, lf, np, n)
      BY <1>2, Serving
    <2> QED BY <1>4, <2>1 DEF Served
  <1>9. v = QueryVector(r, n + 1)
    <2> DEFINE y == n + 1
    <2>1. v = History(r)[s_query_vectors][y]
      BY <1>4, <1>7, Reading, Wiring
    <2>2. y \in Nat
      BY <1>8
    <2> HIDE DEF y, v
    <2>3. History(r)[s_query_vectors][y] = QueryVector(r, y)
      BY <2>2, Values
    <2> QED BY <2>1, <2>3 DEF y
  <1> DEFINE row2 == [query |-> v, center |-> c]
  <1>10. local = [phase |-> "center", source |-> row2, probe |-> k, row |-> x]
    <2> HIDE DEF v, l
    <2>1. l.source = row /\ [row EXCEPT !.query = v] = row2
      BY <1>7
    <2> HIDE DEF row, row2
    <2>2. local = [l EXCEPT !.phase = "center", !.source = row2]
      BY <2>1
    <2> HIDE DEF local
    <2> QED BY <1>7, <2>2
  <1>11. /\ R[s_query_vectors] = n + 1 /\ R[s_center_vectors] = g
         /\ W[s_distance_LUT(0)] = RowTotal(r)[g] + x
    <2>1. s_center_vectors \notin takes
      BY DEF s_query_vectors, s_center_vectors
    <2> HIDE DEF puts
    <2> QED BY <1>5, <1>7, <2>1, Wiring, EndWiring DEF Counted
  <1> HIDE DEF p, h, lf, l, np, takes, puts, R, W, local, v
  <1>12. LUTAt(r, n, lf, local, R[s_query_vectors], R[s_center_vectors], W[s_distance_LUT(0)],
               k, v, c, x)
    BY <1>4, <1>7, <1>9, <1>10, <1>11, Zenon DEF LUTAt
  <1>13. StageBody(r, p, n, left'[p], at'[p], R, W)
    BY <1>6, <1>12, Bodies DEF p, lf, LUTBody
  <1>14. Serves(r, h, left'[p], nprobe[p], n)
    BY <1>2, <1>6 DEF lf, np
  <1> QED BY <1>1, <1>4, <1>5, <1>6, <1>13, <1>14, StageStep DEF h, R, W

\* LUT_vectors keeps the invariant when it reads a centre vector.
LEMMA LUTCenterStep ==
  ASSUME NEW r, NEW rd, NEW wr, At(r, rd, wr), left[LUT_construction] > 0,
         at[LUT_construction].phase = "center",
         Transfer({s_center_vectors}, Nothing),
         SetAt(LUT_construction, [at[LUT_construction] EXCEPT
           !.phase = "rows", !.source.center = Head(fifo[s_center_vectors])]),
         Continues, UNCHANGED request
  PROVE  ScanInv'
  <1> DEFINE p == LUT_construction
             h == rd[s_batch_header(p)]
             lf == left[p]
             l == at[p]
             np == nprobe[p]
             takes == {s_center_vectors}
             puts == Nothing
             R == Counted(Stream, rd, takes)
             W == Counted(Stream, wr, DOMAIN puts)
             v == Head(fifo[s_center_vectors])
             local == [l EXCEPT !.phase = "rows", !.source.center = v]
  <1>1. p \in Stages /\ p \in Process
    BY StagesAre
  <1>2. PICK n : r \in Requests /\ Serves(r, h, lf, np, n) /\
          LUTBody(r, n, lf, l, rd[s_query_vectors], rd[s_center_vectors], wr[s_distance_LUT(0)])
    BY <1>1, StageAt, Bodies
  <1>3. PICK k, q, c, x : LUTAt(r, n, lf, l, rd[s_query_vectors], rd[s_center_vectors],
                                wr[s_distance_LUT(0)], k, q, c, x)
    BY <1>2, Zenon DEF LUTBody
  <1>4. /\ lf > 0 /\ l.phase = "center" /\ fifo[s_center_vectors] # <<>>
        /\ Transfer(takes, puts) /\ request' = request /\ Finish(p, FALSE)
        /\ at' = [at EXCEPT ![p] = local]
    <2>1. fifo[s_center_vectors] # <<>>
      BY DEF Transfer
    <2> QED BY <2>1 DEF SetAt, Finish
  <1>5. /\ takes \in SUBSET Stream /\ DOMAIN puts = {}
        /\ DOMAIN puts \in SUBSET Stream /\ \A d \in takes : Reader(d) = p /\ d[1] # "s_batch_header"
        /\ \A d \in DOMAIN puts : Writer(d) = p /\ puts[d] = History(r)[d][wr[d] + 1]
    BY Wiring, NotHeader DEF ToAll, Nothing
  <1>6. Moves(p) /\ at'[p] = local /\ nprobe'[p] = nprobe[p] /\ left'[p] = left[p]
    <2>1. at' = [at EXCEPT ![p] = local] /\ Finish(p, FALSE) /\ request' = request
      BY <1>4
    <2> HIDE DEF local, p
    <2> QED BY <1>1, <2>1, FinishMoves
  <1> DEFINE g == Past(r, n, k)
             row == [query |-> q, center |-> c]
  <1>7. /\ l = [phase |-> "center", source |-> row, probe |-> k, row |-> x]
        /\ q = QueryVector(r, n + 1)
        /\ x = 0 /\ rd[s_query_vectors] = n + 1 /\ rd[s_center_vectors] = g
        /\ Spot(r, n, k) /\ x \in 0 .. LUT_ENTRY_NUM - 1 /\ wr[s_distance_LUT(0)] = RowTotal(r)[g] + x
    <2>1. \A ph : l = [phase |-> ph, source |-> row, probe |-> k, row |-> x] => l.phase = ph
      OBVIOUS
    <2>2. l.phase # "query" /\ l.phase # "rows"
      BY <1>4
    <2> HIDE DEF l
    <2> QED BY <1>3, <2>1, <2>2, Zenon DEF LUTAt
  <1>8. g \in Nat /\ g + 1 \in Nat /\ Probe(r)[g + 1] = <<n + 1, k + 1>>
    BY <1>2, <1>4, <1>7, NextCell
  <1> DEFINE y == g + 1
  <1>9. v = Row(r, y).center /\ Row(r, y).query = q
    <2>1. v = History(r)[s_center_vectors][y]
      BY <1>4, <1>7, Reading, Wiring
    <2>2. y \in Nat /\ Probe(r)[y] = <<n + 1, k + 1>>
      BY <1>8
    <2> HIDE DEF y, v
    <2>3. History(r)[s_center_vectors][y] = Row(r, y).center
      BY <2>2, Values
    <2>4. Row(r, y).query = QueryVector(r, n + 1)
      BY <2>2 DEF Row, QueryVector
    <2> QED BY <1>7, <2>1, <2>3, <2>4
  <1> DEFINE row2 == [query |-> q, center |-> v]
  <1>10. row2 = Row(r, y)
    <2>1. \E a, b : Row(r, y) = [query |-> a, center |-> b]
      BY DEF Row
    <2> HIDE DEF y, v
    <2> QED BY <1>9, <2>1
  <1>11. local = [phase |-> "rows", source |-> row2, probe |-> k, row |-> x]
    <2> HIDE DEF v, l
    <2>1. l.source = row /\ [row EXCEPT !.center = v] = row2
      BY <1>7
    <2> HIDE DEF row, row2
    <2>2. local = [l EXCEPT !.phase = "rows", !.source = row2]
      BY <2>1
    <2> HIDE DEF local
    <2> QED BY <1>7, <2>2
  <1>12. /\ R[s_query_vectors] = n + 1 /\ R[s_center_vectors] = y
         /\ W[s_distance_LUT(0)] = RowTotal(r)[g] + x
    <2>1. s_query_vectors \notin takes
      BY DEF s_query_vectors, s_center_vectors
    <2> HIDE DEF puts
    <2> QED BY <1>5, <1>7, <2>1, Wiring, EndWiring DEF Counted
  <1> HIDE DEF p, h, lf, l, np, takes, puts, R, W, local, v
  <1>13. LUTAt(r, n, lf, local, R[s_query_vectors], R[s_center_vectors], W[s_distance_LUT(0)],
               k, q, v, x)
    BY <1>4, <1>7, <1>10, <1>11, <1>12, Zenon DEF LUTAt
  <1>14. StageBody(r, p, n, left'[p], at'[p], R, W)
    BY <1>6, <1>13, Bodies DEF p, lf, LUTBody
  <1>15. Serves(r, h, left'[p], nprobe[p], n)
    BY <1>2, <1>6 DEF lf, np
  <1> QED BY <1>1, <1>4, <1>5, <1>6, <1>14, <1>15, StageStep DEF h, R, W

\* LUT_row keeps the invariant.
LEMMA LUTRowStep ==
  ASSUME NEW r, NEW rd, NEW wr, At(r, rd, wr), LUT_row
  PROVE  ScanInv'
  <1> DEFINE p == LUT_construction
             h == rd[s_batch_header(p)]
             lf == left[p]
             l == at[p]
             np == nprobe[p]
             takes == {}
             puts == To(s_distance_LUT(0), l.source)
             R == Counted(Stream, rd, takes)
             W == Counted(Stream, wr, DOMAIN puts)
             full == l.row + 1 = LUT_ENTRY_NUM
             next == (l.probe + 1) % np
             done == full /\ next = 0
             local == [l EXCEPT
                         !.phase = IF done THEN "query" ELSE IF full THEN "center" ELSE "rows",
                         !.source = IF done THEN NoRow ELSE @,
                         !.probe = IF full THEN next ELSE @,
                         !.row = IF full THEN 0 ELSE @ + 1]
  <1>1. p \in Stages /\ p \in Process
    BY StagesAre
  <1>2. PICK n : r \in Requests /\ Serves(r, h, lf, np, n) /\
          LUTBody(r, n, lf, l, rd[s_query_vectors], rd[s_center_vectors], wr[s_distance_LUT(0)])
    BY <1>1, StageAt, Bodies
  <1>3. PICK k, q, c, x : LUTAt(r, n, lf, l, rd[s_query_vectors], rd[s_center_vectors],
                                wr[s_distance_LUT(0)], k, q, c, x)
    BY <1>2, Zenon DEF LUTBody
  <1>4. /\ l.phase = "rows"
        /\ Transfer(takes, puts) /\ request' = request /\ Finish(p, done)
        /\ at' = [at EXCEPT ![p] = local]
    BY DEF LUT_row, SetAt, NextProbe
  <1>5. /\ takes \in SUBSET Stream
        /\ DOMAIN puts = {s_distance_LUT(0)} /\ puts[s_distance_LUT(0)] = l.source
        /\ DOMAIN puts \in SUBSET Stream /\ \A d \in takes : Reader(d) = p /\ d[1] # "s_batch_header"
        /\ \A d \in DOMAIN puts : Writer(d) = p
    <2>1. DOMAIN puts = {s_distance_LUT(0)} /\ puts[s_distance_LUT(0)] = l.source
      <3> HIDE DEF l
      <3> QED BY DEF To, ToAll
    <2> HIDE DEF puts
    <2> QED BY <2>1, EndWiring
  <1>6. /\ Moves(p) /\ at'[p] = local /\ nprobe'[p] = nprobe[p]
        /\ left'[p] = IF done THEN left[p] - 1 ELSE left[p]
    <2>1. at' = [at EXCEPT ![p] = local] /\ Finish(p, done) /\ request' = request
      BY <1>4
    <2> HIDE DEF local, p, done
    <2> QED BY <1>1, <2>1, FinishMoves
  <1> DEFINE g == Past(r, n, k)
             row == [query |-> q, center |-> c]
             y == g + 1
  <1>7. /\ l = [phase |-> "rows", source |-> row, probe |-> k, row |-> x]
        /\ lf > 0 /\ row = Row(r, g + 1) /\ q = QueryVector(r, n + 1)
        /\ rd[s_query_vectors] = n + 1 /\ rd[s_center_vectors] = y
        /\ Spot(r, n, k) /\ x \in 0 .. LUT_ENTRY_NUM - 1 /\ wr[s_distance_LUT(0)] = RowTotal(r)[g] + x
    <2>1. \A ph : l = [phase |-> ph, source |-> row, probe |-> k, row |-> x] => l.phase = ph
      OBVIOUS
    <2>2. l.phase # "query" /\ l.phase # "center"
      BY <1>4
    <2> HIDE DEF l, lf
    <2> QED BY <1>3, <2>1, <2>2, Zenon DEF LUTAt
  <1>8. /\ k \in 0 .. np - 1 /\ np \in Nat \ {0}
        /\ Past(r, n, k) \in Nat /\ Past(r, n, k) + 1 \in 1 .. ProbeNum(r)
    BY <1>2, <1>7, NextCell
  <1>9. PICK m : /\ Serves(r, h, IF k + 1 = np THEN lf - 1 ELSE lf, np, m)
                 /\ Spot(r, m, (k + 1) % np)
                 /\ Past(r, m, (k + 1) % np) = Past(r, n, k) + 1
                 /\ k + 1 = np => m = n + 1 /\ (k + 1) % np = 0
                 /\ k + 1 # np => m = n /\ (k + 1) % np = k + 1
    BY <1>2, <1>7, NextCell
  <1>10. y \in Nat /\ y \in 1 .. ProbeNum(r) /\ y - 1 = g
    BY <1>8
  <1> DEFINE T == RowTotal(r)
             z == T[g] + x
             z1 == z + 1
  <1>11. T[g] \in Nat /\ T[y] = T[g] + LUT_ENTRY_NUM /\ LUT_ENTRY_NUM \in Nat \ {0}
    <2>1. T[y] = T[y - 1] + LUT_ENTRY_NUM
      <3> HIDE DEF T, y
      <3> QED BY <1>2, <1>10, RowFacts DEF T
    <2>4. g \in 0 .. ProbeNum(r)
      <3> DEFINE a == Past(r, n, k)
      <3> HIDE DEF a
      <3>1. a \in Nat /\ a + 1 \in 1 .. ProbeNum(r)
        BY <1>8 DEF a
      <3>2. ProbeNum(r) \in Nat
        BY <1>2, ProbeFacts
      <3>3. a \in 0 .. ProbeNum(r)
        BY <3>1, <3>2
      <3> QED BY <3>3 DEF a
    <2>5. T[g] \in Nat
      BY <1>2, <2>4, RowFacts
    <2> QED BY <1>10, <2>1, <2>5, Positive
  <1>12. z \in Nat /\ z1 \in Nat /\ z1 = T[g] + (x + 1) /\ x + 1 \in 1 .. LUT_ENTRY_NUM
    <2>1. x \in 0 .. LUT_ENTRY_NUM - 1
      BY <1>7
    <2> HIDE DEF T
    <2> QED BY <1>11, <2>1
  <1>13. RowNumber(r)[z1] = <<y, x + 1>>
    <2> HIDE DEF y, z1, z
    <2>1. \A j \in 1 .. LUT_ENTRY_NUM : RowNumber(r)[T[y - 1] + j] = <<y, j>>
      BY <1>2, <1>10, RowFacts
    <2> QED BY <1>10, <1>12, <2>1
  <1>14. l.probe = k /\ l.row = x /\ l.source = row /\ wr[s_distance_LUT(0)] = z
    BY <1>7
  <1> HIDE DEF p, h, lf, l, np, takes, puts, R, W, local, next, done, full, g, y, T, z, z1, row
  <1>15. \A d \in DOMAIN puts : puts[d] = History(r)[d][wr[d] + 1]
    <2>1. 0 \in PE
      BY Distinct
    <2>2. History(r)[s_distance_LUT(0)][z1] = Row(r, RowNumber(r)[z1][1])
      BY <1>12, <2>1, PEValues
    <2>3. wr[s_distance_LUT(0)] + 1 = z1 /\ row = Row(r, y)
      BY <1>7, <1>14 DEF z1, y
    <2> QED BY <1>5, <1>13, <1>14, <2>2, <2>3
  <1>16. /\ R[s_query_vectors] = n + 1 /\ R[s_center_vectors] = y /\ W[s_distance_LUT(0)] = z1
    BY <1>5, <1>7, <1>14, Wiring, EndWiring DEF Counted, R, W, z1, takes
  <1>17. full <=> x + 1 = LUT_ENTRY_NUM
    BY <1>14 DEF full
  <1>18. l = [phase |-> "rows", source |-> row, probe |-> k, row |-> x]
    BY <1>7
  <1>19. 0 \in 0 .. LUT_ENTRY_NUM - 1
    BY <1>11
  <1>20. CASE done
    <2>1. full /\ k + 1 = np /\ next = 0
      BY <1>8, <1>9, <1>14, <1>20 DEF next, done
    <2>2. /\ Serves(r, h, left'[p], nprobe[p], m) /\ m = n + 1 /\ Past(r, m, 0) = y /\ Spot(r, m, 0)
      BY <1>6, <1>9, <1>20, <2>1 DEF lf, np, g, y
    <2>3. z1 = T[y] + 0
      BY <1>11, <1>12, <1>17, <2>1
    <2>4. local = [phase |-> "query", source |-> NoRow, probe |-> 0, row |-> 0]
      <3>1. local = [l EXCEPT !.phase = "query", !.source = NoRow, !.probe = 0, !.row = 0]
        BY <1>20, <2>1 DEF local
      <3> HIDE DEF local
      <3> QED BY <1>18, <3>1
    <2>5. NoRow = [query |-> <<>>, center |-> <<>>]
      BY DEF NoRow
    <2> DEFINE f == left'[p]
               none == <<>>
    <2>6. local = [phase |-> "query", source |-> [query |-> none, center |-> none],
                   probe |-> 0, row |-> 0]
      BY <2>4, <2>5
    <2> HIDE DEF f, none
    <2>7. R[s_query_vectors] = m
      BY <1>16, <2>2
    <2>8. LUTAt(r, m, f, local, R[s_query_vectors], R[s_center_vectors], W[s_distance_LUT(0)],
                0, none, none, 0)
      BY <1>16, <1>19, <2>2, <2>3, <2>6, <2>7, Zenon DEF LUTAt, T
    <2>9. StageBody(r, p, m, left'[p], at'[p], R, W)
      BY <1>6, <2>8, Bodies DEF p, f, LUTBody
    <2> QED BY <1>1, <1>4, <1>5, <1>6, <1>15, <2>2, <2>9, StageStep DEF h, R, W
  <1>21. CASE full /\ ~ done
    <2>1. k + 1 # np /\ next = k + 1
      BY <1>8, <1>9, <1>14, <1>21 DEF next, done
    <2>2. /\ Serves(r, h, left'[p], nprobe[p], n) /\ left'[p] = lf
          /\ Past(r, n, k + 1) = y /\ Spot(r, n, k + 1)
      BY <1>2, <1>6, <1>9, <1>21, <2>1 DEF lf, np, g, y
    <2>3. z1 = T[y] + 0
      BY <1>11, <1>12, <1>17, <1>21
    <2> DEFINE k1 == k + 1
    <2>4. local = [phase |-> "center", source |-> row, probe |-> k1, row |-> 0]
      <3>1. local = [l EXCEPT !.phase = "center", !.source = row, !.probe = k1, !.row = 0]
        BY <1>14, <1>21, <2>1 DEF local
      <3> HIDE DEF local, k1
      <3> QED BY <1>18, <3>1
    <2> HIDE DEF k1
    <2>5. Past(r, n, k1) = y /\ Spot(r, n, k1)
      BY <2>2 DEF k1
    <2>8. LUTAt(r, n, lf, local, R[s_query_vectors], R[s_center_vectors], W[s_distance_LUT(0)],
                k1, q, c, 0)
      BY <1>7, <1>16, <1>19, <2>2, <2>3, <2>4, <2>5, Zenon DEF LUTAt, T, row
    <2>9. StageBody(r, p, n, left'[p], at'[p], R, W)
      BY <1>6, <2>2, <2>8, Bodies DEF p, LUTBody
    <2> QED BY <1>1, <1>4, <1>5, <1>6, <1>15, <2>2, <2>9, StageStep DEF h, R, W
  <1>22. CASE ~ full
    <2> DEFINE x1 == x + 1
    <2>1. ~ done /\ Serves(r, h, left'[p], nprobe[p], n) /\ left'[p] = lf
      BY <1>2, <1>6, <1>22 DEF lf, np, done
    <2>2. x1 \in 0 .. LUT_ENTRY_NUM - 1 /\ z1 = T[g] + x1
      BY <1>11, <1>12, <1>17, <1>22
    <2>4. local = [phase |-> "rows", source |-> row, probe |-> k, row |-> x1]
      <3>1. local = [l EXCEPT !.phase = "rows", !.source = row, !.probe = k, !.row = x1]
        BY <1>14, <1>22, <2>1 DEF local
      <3> HIDE DEF local, x1
      <3> QED BY <1>18, <3>1
    <2> HIDE DEF x1
    <2>5. y = g + 1
      BY DEF y
    <2>6. W[s_distance_LUT(0)] = T[g] + x1
      BY <1>16, <2>2
    <2>8. LUTAt(r, n, lf, local, R[s_query_vectors], R[s_center_vectors], W[s_distance_LUT(0)],
                k, q, c, x1)
      BY <1>7, <1>16, <2>2, <2>4, <2>5, <2>6, Zenon DEF LUTAt, T, row, g
    <2>9. StageBody(r, p, n, left'[p], at'[p], R, W)
      BY <1>6, <2>1, <2>8, Bodies DEF p, LUTBody
    <2> QED BY <1>1, <1>4, <1>5, <1>6, <1>15, <2>1, <2>9, StageStep DEF h, R, W
  <1> QED BY <1>20, <1>21, <1>22

-----------------------------------------------------------------------------
(* The compute PEs. *)

\* The rounds and rows of the probed cell behind g others.
Probed(r, g) ==
  /\ g \in Nat /\ Entries(r, g + 1) \in Nat /\ EntryTotal(r)[g] \in Nat
  /\ EntryTotal(r)[g + 1] = EntryTotal(r)[g] + Entries(r, g + 1)
  /\ RowTotal(r)[g] \in Nat /\ RowTotal(r)[g + 1] = RowTotal(r)[g] + LUT_ENTRY_NUM
  /\ LUT_ENTRY_NUM \in Nat \ {0}
  /\ \A x \in 0 .. Entries(r, g + 1) - 1 : Round(r)[EntryTotal(r)[g] + x + 1] = <<g + 1, x + 1>>
  /\ \A x \in 0 .. LUT_ENTRY_NUM - 1 : RowNumber(r)[RowTotal(r)[g] + x + 1] = <<g + 1, x + 1>>

\* The probed cell a compute PE is at, in numbers.
LEMMA ProbedIs ==
  ASSUME NEW r \in Requests, NEW g \in Nat, g + 1 \in 1 .. ProbeNum(r)
  PROVE  Probed(r, g)
  <1> DEFINE y == g + 1
             E == EntryTotal(r)
             T == RowTotal(r)
             e == Entries(r, y)
  <1>1. y \in Nat /\ y \in 1 .. ProbeNum(r) /\ y - 1 = g
    OBVIOUS
  <1>2. g \in 0 .. ProbeNum(r) /\ LUT_ENTRY_NUM \in Nat \ {0}
    <2>1. ProbeNum(r) \in Nat
      BY ProbeFacts
    <2> QED BY <2>1, Positive
  <1> HIDE DEF y
  <1>3. /\ E[y - 1] \in Nat /\ E[y] = E[y - 1] + e /\ e \in Nat
        /\ \A k \in 1 .. e : Round(r)[E[y - 1] + k] = <<y, k>>
    <2>1. \A f \in 0 .. ProbeNum(r) : E[f] \in Nat
      BY RoundFacts
    <2>2. E[y] = E[y - 1] + e /\ e \in Nat
      <3> HIDE DEF E
      <3> QED BY <1>1, RoundFacts, ProbedFacts DEF E
    <2>3. \A k \in 1 .. e : Round(r)[E[y - 1] + k] = <<y, k>>
      BY <1>1, RoundFacts
    <2> QED BY <1>1, <1>2, <2>1, <2>2, <2>3
  <1>4. /\ T[y - 1] \in Nat /\ T[y] = T[y - 1] + LUT_ENTRY_NUM
        /\ \A k \in 1 .. LUT_ENTRY_NUM : RowNumber(r)[T[y - 1] + k] = <<y, k>>
    <2>1. \A f \in 0 .. ProbeNum(r) : T[f] \in Nat
      BY RowFacts
    <2>2. T[y] = T[y - 1] + LUT_ENTRY_NUM
      <3> HIDE DEF T
      <3> QED BY <1>1, RowFacts DEF T
    <2>3. \A k \in 1 .. LUT_ENTRY_NUM : RowNumber(r)[T[y - 1] + k] = <<y, k>>
      BY <1>1, RowFacts
    <2> QED BY <1>1, <1>2, <2>1, <2>2, <2>3
  <1> HIDE DEF E, T, e
  <1>5. \A x \in 0 .. e - 1 : Round(r)[E[g] + x + 1] = <<y, x + 1>>
    <2> TAKE x \in 0 .. e - 1
    <2>1. x + 1 \in 1 .. e /\ E[g] + x + 1 = E[g] + (x + 1)
      BY <1>1, <1>3
    <2> QED BY <1>1, <1>3, <2>1
  <1>6. \A x \in 0 .. LUT_ENTRY_NUM - 1 : RowNumber(r)[T[g] + x + 1] = <<y, x + 1>>
    <2> TAKE x \in 0 .. LUT_ENTRY_NUM - 1
    <2>1. x + 1 \in 1 .. LUT_ENTRY_NUM /\ T[g] + x + 1 = T[g] + (x + 1)
      BY <1>1, <1>2, <1>4
    <2> QED BY <1>1, <1>4, <2>1
  <1>7. E[g] \in Nat /\ E[y] = E[g] + e /\ T[g] \in Nat /\ T[y] = T[g] + LUT_ENTRY_NUM
    BY <1>1, <1>3, <1>4
  <1> QED BY <1>2, <1>3, <1>5, <1>6, <1>7, Zenon DEF Probed, E, T, e, y

FullTable(r, g) == [k \in 1 .. LUT_ENTRY_NUM |-> Row(r, g)]

\* With the whole table of a cell a code gets the distance of that cell.
LEMMA TableResult ==
  ASSUME NEW r, NEW t, NEW g, Filled(r, t, LUT_ENTRY_NUM, g), NEW c
  PROVE  ADC_result(c, t) = ADC_result(c, FullTable(r, g))
  <1> DEFINE u == FullTable(r, g)
  <1>1. /\ DOMAIN t = 1 .. LUT_ENTRY_NUM /\ DOMAIN u = 1 .. LUT_ENTRY_NUM
        /\ \A k \in 1 .. LUT_ENTRY_NUM : t[k] = u[k]
    BY DEF Filled, FullTable
  <1> HIDE DEF u
  <1>2. {t[k] : k \in DOMAIN t} = {u[k] : k \in DOMAIN u}
    BY <1>1
  <1> QED BY <1>2 DEF ADC_result, u

\* A PE reads an entry count, a row or a code, passes on the row or the result,
\* and is at local with lf queries of its batch left, m behind it.
ADCMove(r, i, rd, takes, puts, last, local, m, lf) ==
  /\ takes \in SUBSET {s_entries_ADC(i), s_distance_LUT(i), s_PQ_codes(i)}
  /\ \A c : c \in DOMAIN puts <=> \/ s_distance_LUT(i) \in takes /\ c = s_distance_LUT(i + 1)
                                  \/ s_PQ_codes(i) \in takes /\ c = s_PQ_result(i)
  /\ Transfer(takes, puts) /\ request' = request
  /\ s_distance_LUT(i) \in takes => puts[s_distance_LUT(i + 1)] = Head(fifo[s_distance_LUT(i)])
  /\ s_PQ_codes(i) \in takes => puts[s_PQ_result(i)] = ResultOf(r, i, rd[s_PQ_codes(i)] + 1)
  /\ Finish(ADC(i), last) /\ at' = [at EXCEPT ![ADC(i)] = local]
  /\ lf = (IF last THEN left[ADC(i)] - 1 ELSE left[ADC(i)])
  /\ Serves(r, rd[s_batch_header(ADC(i))], lf, nprobe[ADC(i)], m)
  /\ IF r.double_buffer
     THEN DoubleBody(r, m, lf, local, Counted(Stream, rd, takes)[s_entries_ADC(i)],
                     Counted(Stream, rd, takes)[s_distance_LUT(i)],
                     Counted(Stream, rd, takes)[s_PQ_codes(i)])
     ELSE SingleBody(r, m, lf, local, Counted(Stream, rd, takes)[s_entries_ADC(i)],
                     Counted(Stream, rd, takes)[s_distance_LUT(i)],
                     Counted(Stream, rd, takes)[s_PQ_codes(i)])

\* A move of a compute PE that leads to its next place keeps the invariant.
LEMMA ADCStep ==
  ASSUME NEW r, NEW rd, NEW wr, At(r, rd, wr), NEW i \in PE, NEW takes, NEW puts, NEW last,
         NEW local, NEW m, NEW lf, ADCMove(r, i, rd, takes, puts, last, local, m, lf)
  PROVE  ScanInv'
  <1> DEFINE p == ADC(i)
             h == rd[s_batch_header(p)]
             R == Counted(Stream, rd, takes)
             W == Counted(Stream, wr, DOMAIN puts)
  <1> USE DEF ADCMove
  <1>1. p \in Stages /\ p \in Process
    BY StagesAre
  <1>2. PICK n : StageBody(r, p, n, left[p], at[p], rd, wr)
    BY <1>1, StageAt
  <1>3. ADCBody(r, i, n, left[p], at[p], rd, wr)
    BY <1>2, Bodies
  <1>4. wr[s_distance_LUT(i + 1)] = rd[s_distance_LUT(i)] /\ wr[s_PQ_result(i)] = rd[s_PQ_codes(i)]
    BY <1>3 DEF ADCBody
  <1>5. /\ takes \in SUBSET Stream /\ DOMAIN puts \in SUBSET Stream
        /\ \A c \in takes : Reader(c) = p /\ c[1] # "s_batch_header"
        /\ \A c \in DOMAIN puts : Writer(c) = p
    BY PEWiring, NotHeader
  <1>6. /\ Moves(p) /\ at'[p] = local /\ nprobe'[p] = nprobe[p] /\ left'[p] = lf
    <2> HIDE DEF p
    <2>1. at' = [at EXCEPT ![p] = local] /\ Finish(p, last) /\ request' = request
      BY DEF p
    <2> QED BY <1>1, <2>1, FinishMoves DEF p
  <1>7. \A c \in takes : Head(fifo[c]) = History(r)[c][rd[c] + 1] /\ rd[c] \in Nat
    <2> TAKE c \in takes
    <2>1. c \in Stream /\ fifo[c] # <<>>
      BY <1>5 DEF Transfer
    <2> QED BY <2>1, Reading
  <1>8. \A c \in DOMAIN puts : puts[c] = History(r)[c][wr[c] + 1]
    <2>1. ASSUME s_distance_LUT(i) \in takes
          PROVE  puts[s_distance_LUT(i + 1)] = History(r)[s_distance_LUT(i + 1)][wr[s_distance_LUT(i + 1)] + 1]
      <3> DEFINE x == rd[s_distance_LUT(i)] + 1
      <3>1. x \in Nat /\ Head(fifo[s_distance_LUT(i)]) = History(r)[s_distance_LUT(i)][x]
        BY <1>7, <2>1
      <3>2. wr[s_distance_LUT(i + 1)] + 1 = x
        BY <1>4
      <3> HIDE DEF x
      <3>3. History(r)[s_distance_LUT(i)][x] = History(r)[s_distance_LUT(i + 1)][x]
        <4>1. History(r)[s_distance_LUT(i)][x] = Row(r, RowNumber(r)[x][1])
          BY <3>1, PEValues
        <4>2. History(r)[s_distance_LUT(i + 1)][x] = Row(r, RowNumber(r)[x][1])
          BY <3>1, PEValues
        <4> QED BY <4>1, <4>2
      <3> QED BY <2>1, <3>1, <3>2, <3>3
    <2>2. ASSUME s_PQ_codes(i) \in takes
          PROVE  puts[s_PQ_result(i)] = History(r)[s_PQ_result(i)][wr[s_PQ_result(i)] + 1]
      <3> DEFINE x == rd[s_PQ_codes(i)] + 1
      <3>1. x \in Nat
        BY <1>7, <2>2
      <3>2. wr[s_PQ_result(i)] + 1 = x
        BY <1>4
      <3>3. puts[s_PQ_result(i)] = ResultOf(r, i, x)
        BY <2>2
      <3> HIDE DEF x
      <3>4. History(r)[s_PQ_result(i)][x] = ResultOf(r, i, x)
        BY <3>1, PEValues
      <3> QED BY <3>2, <3>3, <3>4
    <2> QED BY <2>1, <2>2
  <1>9. W[s_distance_LUT(i + 1)] = R[s_distance_LUT(i)] /\ W[s_PQ_result(i)] = R[s_PQ_codes(i)]
    <2>1. /\ s_distance_LUT(i + 1) \in DOMAIN puts <=> s_distance_LUT(i) \in takes
          /\ s_PQ_result(i) \in DOMAIN puts <=> s_PQ_codes(i) \in takes
      <3>1. s_distance_LUT(i + 1) # s_PQ_result(i)
        BY DEF s_distance_LUT, s_PQ_result
      <3> QED BY <3>1
    <2>2. /\ s_distance_LUT(i) \in Stream /\ s_distance_LUT(i + 1) \in Stream
          /\ s_PQ_result(i) \in Stream /\ s_PQ_codes(i) \in Stream
      BY PEWiring
    <2> QED BY <1>4, <2>1, <2>2 DEF Counted
  <1>10. ADCBody(r, i, m, lf, local, R, W)
    <2>1. IF r.double_buffer
          THEN DoubleBody(r, m, lf, local, R[s_entries_ADC(i)], R[s_distance_LUT(i)], R[s_PQ_codes(i)])
          ELSE SingleBody(r, m, lf, local, R[s_entries_ADC(i)], R[s_distance_LUT(i)], R[s_PQ_codes(i)])
      OBVIOUS
    <2> HIDE DEF R, W, ADCMove
    <2> QED BY <1>9, <2>1 DEF ADCBody
  <1>11. StageBody(r, p, m, left'[p], at'[p], R, W)
    <2> HIDE DEF R, W
    <2> QED BY <1>6, <1>10, Bodies
  <1>12. Serves(r, h, left'[p], nprobe[p], m)
    BY <1>6
  <1> HIDE DEF p
  <1> QED BY <1>1, <1>5, <1>6, <1>8, <1>11, <1>12, StageStep

\* Where PE i is before it moves.
LEMMA ADCIs ==
  ASSUME NEW r, NEW rd, NEW wr, At(r, rd, wr), NEW i \in PE
  PROVE  /\ r \in Requests /\ request = r
         /\ \E n : /\ Serves(r, rd[s_batch_header(ADC(i))], left[ADC(i)], nprobe[ADC(i)], n)
                   /\ IF r.double_buffer
                      THEN DoubleBody(r, n, left[ADC(i)], at[ADC(i)], rd[s_entries_ADC(i)],
                                      rd[s_distance_LUT(i)], rd[s_PQ_codes(i)])
                      ELSE SingleBody(r, n, left[ADC(i)], at[ADC(i)], rd[s_entries_ADC(i)],
                                      rd[s_distance_LUT(i)], rd[s_PQ_codes(i)])
  <1>1. ADC(i) \in Stages
    BY StagesAre
  <1>2. PICK n : /\ Serves(r, rd[s_batch_header(ADC(i))], left[ADC(i)], nprobe[ADC(i)], n)
                 /\ StageBody(r, ADC(i), n, left[ADC(i)], at[ADC(i)], rd, wr)
    BY <1>1, StageAt
  <1>3. ADCBody(r, i, n, left[ADC(i)], at[ADC(i)], rd, wr)
    BY <1>2, Bodies
  <1> QED BY <1>1, <1>2, <1>3, StageAt DEF ADCBody

\* What a PE takes next from its streams.
LEMMA ADCHeads ==
  ASSUME NEW r, NEW rd, NEW wr, At(r, rd, wr), NEW i \in PE, NEW x \in Nat
  PROVE  /\ fifo[s_entries_ADC(i)] # <<>> /\ rd[s_entries_ADC(i)] + 1 = x =>
              Head(fifo[s_entries_ADC(i)]) = Entries(r, x)
         /\ fifo[s_distance_LUT(i)] # <<>> /\ rd[s_distance_LUT(i)] + 1 = x =>
              Head(fifo[s_distance_LUT(i)]) = Row(r, RowNumber(r)[x][1])
         /\ fifo[s_PQ_codes(i)] # <<>> /\ rd[s_PQ_codes(i)] + 1 = x =>
              Head(fifo[s_PQ_codes(i)]) = CodeAt(r, i, x)
  <1>1. /\ History(r)[s_entries_ADC(i)][x] = Entries(r, x)
        /\ History(r)[s_distance_LUT(i)][x] = Row(r, RowNumber(r)[x][1])
        /\ History(r)[s_PQ_codes(i)][x] = CodeAt(r, i, x)
    BY PEValues
  <1> QED BY <1>1, Reading, PEWiring

\* A PE scans a code of the probed cell g with the whole table of that cell.
LEMMA ScannedCode ==
  ASSUME NEW r, NEW rd, NEW wr, At(r, rd, wr), NEW i \in PE, NEW x \in Nat,
         NEW g, NEW j, Round(r)[x] = <<g, j>>, rd[s_PQ_codes(i)] + 1 = x,
         fifo[s_PQ_codes(i)] # <<>>, NEW t, Filled(r, t, LUT_ENTRY_NUM, g)
  PROVE  ADC_result(Head(fifo[s_PQ_codes(i)]), t) = ResultOf(r, i, rd[s_PQ_codes(i)] + 1)
  <1>1. Head(fifo[s_PQ_codes(i)]) = CodeAt(r, i, x)
    BY ADCHeads
  <1>2. ResultOf(r, i, x) = ADC_result(CodeAt(r, i, x), FullTable(r, g))
    BY DEF ResultOf, FullTable
  <1>3. \A c : ADC_result(c, t) = ADC_result(c, FullTable(r, g))
    BY TableResult
  <1> QED BY <1>1, <1>2, <1>3

\* A row more of the table of probed cell g.
LEMMA RowFilled ==
  ASSUME NEW r, NEW t, NEW x \in 0 .. LUT_ENTRY_NUM - 1, NEW g, Filled(r, t, x, g)
  PROVE  Filled(r, [t EXCEPT ![x + 1] = Row(r, g)], x + 1, g)
  <1> DEFINE row == Row(r, g)
             u == [t EXCEPT ![x + 1] = row]
  <1>1. LUT_ENTRY_NUM \in Nat
    BY Positive
  <1>2. DOMAIN t = 1 .. LUT_ENTRY_NUM /\ \A j \in 1 .. x : t[j] = row
    BY DEF Filled
  <1>3. DOMAIN u = 1 .. LUT_ENTRY_NUM /\ \A j \in 1 .. x + 1 : u[j] = row
    <2> HIDE DEF row
    <2> QED BY <1>1, <1>2
  <1> QED BY <1>3 DEF Filled

\* In which phase a PE is.
LEMMA ADCPhases ==
  ASSUME NEW k, NEW ph, NEW e, NEW x, NEW t
  PROVE  /\ ADCLocal(k, ph, e, x, t).phase = ph /\ ADCLocal(k, ph, e, x, t).probe = k
         /\ ADCLocal(k, ph, e, x, t).entries = e /\ ADCLocal(k, ph, e, x, t).pos = x
         /\ ADCLocal(k, ph, e, x, t).LUT[0] = t[0] /\ ADCLocal(k, ph, e, x, t).LUT[1] = t[1]
  BY DEF ADCLocal

\* The PE has finished a cell.
TurnedTo(l, k) == [l EXCEPT !.phase = "entries", !.entries = 0, !.pos = 0, !.probe = k]

\* What finishing a cell does to the local data.
LEMMA ADCMoves ==
  ASSUME NEW k, NEW ph, NEW e, NEW x, NEW t, NEW k2
  PROVE  TurnedTo(ADCLocal(k, ph, e, x, t), k2) = ADCLocal(k2, "entries", 0, 0, t)
  <1> DEFINE u == [s \in {0, 1} |-> t[s]]
             a == [probe |-> k, phase |-> ph, entries |-> e, pos |-> x, LUT |-> u]
             ph2 == "entries"
             e2 == 0
             x2 == 0
             b == [a EXCEPT !.phase = ph2, !.entries = e2, !.pos = x2, !.probe = k2]
  <1>1. ADCLocal(k, ph, e, x, t) = a
    BY DEF ADCLocal
  <1>2. ADCLocal(k2, ph2, e2, x2, t) = [probe |-> k2, phase |-> ph2, entries |-> e2, pos |-> x2, LUT |-> u]
    BY DEF ADCLocal
  <1> HIDE DEF u
  <1> DEFINE c == a
  <1>3. c = [probe |-> k, phase |-> ph, entries |-> e, pos |-> x, LUT |-> u]
    OBVIOUS
  <1>4. b = [c EXCEPT !.phase = ph2, !.entries = e2, !.pos = x2, !.probe = k2]
    OBVIOUS
  <1> HIDE DEF a, b, c
  <1>5. b = [probe |-> k2, phase |-> ph2, entries |-> e2, pos |-> x2, LUT |-> u]
    BY <1>3, <1>4
  <1> QED BY <1>1, <1>2, <1>5 DEF b, TurnedTo

\* ADC_entries keeps the invariant.
LEMMA ADCEntriesStep ==
  ASSUME NEW r, NEW rd, NEW wr, At(r, rd, wr), NEW i \in PE, ADC_entries(i)
  PROVE  ScanInv'
  <1> DEFINE p == ADC(i)
             h == rd[s_batch_header(p)]
             lf == left[p]
             l == at[p]
             np == nprobe[p]
             takes == {s_entries_ADC(i)}
             puts == Nothing
             R == Counted(Stream, rd, takes)
             v == Head(fifo[s_entries_ADC(i)])
             local == [l EXCEPT !.phase = "LUT", !.entries = v]
             re == rd[s_entries_ADC(i)]
             rl == rd[s_distance_LUT(i)]
             rc == rd[s_PQ_codes(i)]
  <1>1. /\ ~ r.double_buffer /\ lf > 0 /\ l.phase = "entries" /\ fifo[s_entries_ADC(i)] # <<>>
        /\ Transfer(takes, puts) /\ at' = [at EXCEPT ![p] = local] /\ Finish(p, FALSE)
        /\ request' = request /\ r \in Requests
    BY ADCIs DEF ADC_entries, SetAt, Finish
  <1>2. PICK n : Serves(r, h, lf, np, n) /\ SingleBody(r, n, lf, l, re, rl, rc)
    BY <1>1, ADCIs
  <1>3. PICK k, t, x : SingleAt(r, n, lf, l, re, rl, rc, k, t, x)
    BY <1>2, Zenon DEF SingleBody
  <1> DEFINE g == Past(r, n, k)
             y == g + 1
             e == Entries(r, y)
  <1>4. /\ Spot(r, n, k) /\ x \in Nat /\ \A s \in {0, 1} : DOMAIN t[s] = 1 .. LUT_ENTRY_NUM
        /\ l = ADCLocal(k, "entries", 0, 0, t)
        /\ re = g /\ rl = RowTotal(r)[g] /\ rc = EntryTotal(r)[g]
    <2>1. l # ADCLocal(k, "LUT", e, x, t) /\ l # ADCLocal(k, "scan", e, x, t)
      BY <1>1, ADCPhases
    <2> HIDE DEF l, re, rl, rc, lf
    <2> QED BY <1>3, <2>1, Zenon DEF SingleAt
  <1>5. g \in Nat /\ y \in 1 .. ProbeNum(r)
    BY <1>1, <1>2, <1>4, NextCell
  <1>6. Probed(r, g)
    BY <1>1, <1>5, ProbedIs
  <1>7. y \in Nat /\ RowTotal(r)[g] \in Nat /\ LUT_ENTRY_NUM \in Nat \ {0} /\ RowTotal(r)[g] + 0 = RowTotal(r)[g]
    BY <1>6 DEF Probed
  <1>8. v = e
    BY <1>1, <1>4, <1>7, ADCHeads
  <1> DEFINE R1 == R[s_entries_ADC(i)]
             R2 == R[s_distance_LUT(i)]
             R3 == R[s_PQ_codes(i)]
  <1>9. R1 = y /\ R2 = RowTotal(r)[g] + 0 /\ R3 = EntryTotal(r)[g]
    <2>1. s_distance_LUT(i) \notin takes /\ s_PQ_codes(i) \notin takes
      BY DEF s_entries_ADC, s_distance_LUT, s_PQ_codes
    <2> QED BY <1>4, <1>7, <2>1, PEWiring DEF Counted
  <1>10. local = ADCLocal(k, "LUT", e, 0, t)
    <2> HIDE DEF l, v, e
    <2>1. local = [l EXCEPT !.phase = "LUT", !.entries = e]
      BY <1>8
    <2> HIDE DEF local
    <2> QED BY <1>4, <2>1 DEF ADCLocal
  <1>11. Filled(r, t[0], 0, y)
    BY <1>4 DEF Filled
  <1>12. 0 < LUT_ENTRY_NUM /\ 0 \in Nat
    BY <1>7
  <1>13. takes \in SUBSET {s_entries_ADC(i), s_distance_LUT(i), s_PQ_codes(i)}
    OBVIOUS
  <1>14. \A c : c \in DOMAIN puts <=> \/ s_distance_LUT(i) \in takes /\ c = s_distance_LUT(i + 1)
                                      \/ s_PQ_codes(i) \in takes /\ c = s_PQ_result(i)
    BY DEF Nothing, ToAll, s_entries_ADC, s_distance_LUT, s_PQ_codes
  <1>15. s_distance_LUT(i) \notin takes /\ s_PQ_codes(i) \notin takes
    BY DEF s_entries_ADC, s_distance_LUT, s_PQ_codes
  <1> HIDE DEF p, h, lf, l, np, takes, puts, R, v, local, re, rl, rc, g, y, e, R1, R2, R3
  <1>16. y = g + 1
    BY DEF y
  <1>17. SingleAt(r, n, lf, local, R1, R2, R3, k, t, 0)
    BY <1>1, <1>4, <1>9, <1>10, <1>11, <1>12, <1>16, Zenon DEF SingleAt, g, e
  <1>18. SingleBody(r, n, lf, local, R1, R2, R3)
    BY <1>17, Zenon DEF SingleBody
  <1>19. lf = IF FALSE THEN left[p] - 1 ELSE left[p]
    BY DEF lf
  <1>20. ADCMove(r, i, rd, takes, puts, FALSE, local, n, lf)
    BY <1>1, <1>2, <1>13, <1>14, <1>15, <1>18, <1>19 DEF p, h, np, R1, R2, R3, R, ADCMove
  <1> QED BY <1>20, ADCStep

\* It goes on with it.
GoneTo(l, ph, x) == [l EXCEPT !.pos = x, !.phase = ph]
Advanced(l, x) == [l EXCEPT !.pos = x]

\* What going on does to the local data.
LEMMA ADCGoesOn ==
  ASSUME NEW k, NEW ph, NEW e, NEW x, NEW t, NEW ph2, NEW x2
  PROVE  /\ GoneTo(ADCLocal(k, ph, e, x, t), ph2, x2) = ADCLocal(k, ph2, e, x2, t)
         /\ Advanced(ADCLocal(k, ph, e, x, t), x2) = ADCLocal(k, ph, e, x2, t)
  <1> DEFINE u == [s \in {0, 1} |-> t[s]]
             a == ADCLocal(k, ph, e, x, t)
             b == [a EXCEPT !.pos = x2, !.phase = ph2]
             c == [a EXCEPT !.pos = x2]
  <1>1. a = [probe |-> k, phase |-> ph, entries |-> e, pos |-> x, LUT |-> u]
    BY DEF ADCLocal
  <1>2. /\ ADCLocal(k, ph2, e, x2, t) = [probe |-> k, phase |-> ph2, entries |-> e, pos |-> x2, LUT |-> u]
        /\ ADCLocal(k, ph, e, x2, t) = [probe |-> k, phase |-> ph, entries |-> e, pos |-> x2, LUT |-> u]
    BY DEF ADCLocal
  <1>3. b = [a EXCEPT !.pos = x2, !.phase = ph2] /\ c = [a EXCEPT !.pos = x2]
    OBVIOUS
  <1> HIDE DEF u, a, b, c
  <1>4. /\ b = [probe |-> k, phase |-> ph2, entries |-> e, pos |-> x2, LUT |-> u]
        /\ c = [probe |-> k, phase |-> ph, entries |-> e, pos |-> x2, LUT |-> u]
    BY <1>1, <1>3
  <1> QED BY <1>2, <1>4 DEF b, c, a, GoneTo, Advanced

\* A row is put into buffer b.
WithRow(l, b, j, row) == [l EXCEPT !.LUT[b][j] = row]

\* What loading a row does to the tables.
LoadsRow(k, ph, e, x, t, b, j, row) ==
  \E t2 : /\ WithRow(ADCLocal(k, ph, e, x, t), b, j, row) = ADCLocal(k, ph, e, x, t2)
          /\ t2[b] = [t[b] EXCEPT ![j] = row]
          /\ \A s \in {0, 1} : s # b => t2[s] = t[s]

LEMMA ADCLoads ==
  ASSUME NEW k, NEW ph, NEW e, NEW x, NEW t, NEW b \in {0, 1}, NEW j, NEW row
  PROVE  LoadsRow(k, ph, e, x, t, b, j, row)
  <1> DEFINE u == [s \in {0, 1} |-> t[s]]
             v == [t[b] EXCEPT ![j] = row]
             t2 == [s \in {0, 1} |-> IF s = b THEN v ELSE t[s]]
             a == ADCLocal(k, ph, e, x, t)
             c == [a EXCEPT !.LUT[b][j] = row]
             d == [u EXCEPT ![b] = v]
  <1>1. a = [probe |-> k, phase |-> ph, entries |-> e, pos |-> x, LUT |-> u]
    BY DEF ADCLocal
  <1>2. ADCLocal(k, ph, e, x, t2) = [probe |-> k, phase |-> ph, entries |-> e, pos |-> x, LUT |-> t2]
    <2>1. [s \in {0, 1} |-> t2[s]] = t2
      <3> HIDE DEF v
      <3> QED OBVIOUS
    <2> HIDE DEF t2
    <2> QED BY <2>1 DEF ADCLocal
  <1>3. d = t2
    <2> HIDE DEF v
    <2> QED OBVIOUS
  <1>4. a.LUT = u /\ u[b] = t[b]
    BY <1>1
  <1>5. c = [a EXCEPT !.LUT = [a.LUT EXCEPT ![b] = [a.LUT[b] EXCEPT ![j] = row]]]
    OBVIOUS
  <1>6. c = [a EXCEPT !.LUT = t2]
    BY <1>3, <1>4, <1>5
  <1>7. t2[b] = v /\ \A s \in {0, 1} : s # b => t2[s] = t[s]
    <2> HIDE DEF v
    <2> QED OBVIOUS
  <1> HIDE DEF u, v, t2, a, c, d
  <1>8. c = [probe |-> k, phase |-> ph, entries |-> e, pos |-> x, LUT |-> t2]
    BY <1>1, <1>6
  <1>9. c = ADCLocal(k, ph, e, x, t2)
    BY <1>2, <1>8
  <1>10. WithRow(a, b, j, row) = c
    BY DEF c, WithRow
  <1> QED BY <1>7, <1>9, <1>10, Zenon DEF a, v, LoadsRow

\* ADC_copy_row keeps the invariant.
LEMMA ADCCopyStep ==
  ASSUME NEW r, NEW rd, NEW wr, At(r, rd, wr), NEW i \in PE, ADC_copy_row(i)
  PROVE  ScanInv'
  <1> DEFINE p == ADC(i)
             h == rd[s_batch_header(p)]
             lf == left[p]
             l == at[p]
             np == nprobe[p]
             takes == {s_distance_LUT(i)}
             row == Head(fifo[s_distance_LUT(i)])
             puts == To(s_distance_LUT(i + 1), row)
             R == Counted(Stream, rd, takes)
             full == l.pos + 1 = LUT_ENTRY_NUM
             empty == full /\ l.entries = 0
             loaded == [l EXCEPT !.LUT[0][l.pos + 1] = row, !.pos = IF full THEN 0 ELSE @ + 1,
                                 !.phase = IF full THEN "scan" ELSE "LUT"]
             next == (l.probe + 1) % np
             last == empty /\ next = 0
             local == IF empty
                      THEN [loaded EXCEPT !.phase = "entries", !.entries = 0, !.pos = 0, !.probe = next]
                      ELSE loaded
             re == rd[s_entries_ADC(i)]
             rl == rd[s_distance_LUT(i)]
             rc == rd[s_PQ_codes(i)]
             lf2 == IF last THEN lf - 1 ELSE lf
  <1>1. /\ ~ r.double_buffer /\ l.phase = "LUT" /\ fifo[s_distance_LUT(i)] # <<>>
        /\ Transfer(takes, puts) /\ at' = [at EXCEPT ![p] = local] /\ Finish(p, last)
        /\ request' = request /\ r \in Requests
    BY ADCIs DEF ADC_copy_row, SetAt, ADC_next, NextProbe
  <1>2. PICK n : Serves(r, h, lf, np, n) /\ SingleBody(r, n, lf, l, re, rl, rc)
    BY <1>1, ADCIs
  <1>3. PICK k, t, x : SingleAt(r, n, lf, l, re, rl, rc, k, t, x)
    BY <1>2, Zenon DEF SingleBody
  <1> DEFINE g == Past(r, n, k)
             y == g + 1
             e == Entries(r, y)
             T == RowTotal(r)
             E == EntryTotal(r)
  <1>4. /\ Spot(r, n, k) /\ x \in Nat /\ \A s \in {0, 1} : DOMAIN t[s] = 1 .. LUT_ENTRY_NUM
        /\ lf > 0 /\ x < LUT_ENTRY_NUM
        /\ l = ADCLocal(k, "LUT", e, x, t) /\ Filled(r, t[0], x, y)
        /\ re = y /\ rl = T[g] + x /\ rc = E[g]
    <2>1. l # ADCLocal(k, "entries", 0, 0, t) /\ l # ADCLocal(k, "scan", e, x, t)
      BY <1>1, ADCPhases
    <2> HIDE DEF l, re, rl, rc, lf
    <2> QED BY <1>3, <2>1, Zenon DEF SingleAt
  <1>5. g \in Nat /\ y \in 1 .. ProbeNum(r) /\ k \in 0 .. np - 1 /\ np \in Nat \ {0}
    BY <1>1, <1>2, <1>4, NextCell
  <1>6. PICK m : /\ Serves(r, h, IF k + 1 = np THEN lf - 1 ELSE lf, np, m)
                 /\ Spot(r, m, (k + 1) % np)
                 /\ Past(r, m, (k + 1) % np) = Past(r, n, k) + 1
                 /\ k + 1 = np => m = n + 1 /\ (k + 1) % np = 0
                 /\ k + 1 # np => m = n /\ (k + 1) % np = k + 1
    BY <1>1, <1>2, <1>4, NextCell
  <1>7. Probed(r, g)
    BY <1>1, <1>5, ProbedIs
  <1>8. /\ y \in Nat /\ e \in Nat /\ E[g] \in Nat /\ E[y] = E[g] + e
        /\ T[g] \in Nat /\ T[y] = T[g] + LUT_ENTRY_NUM /\ LUT_ENTRY_NUM \in Nat \ {0}
        /\ \A j \in 0 .. LUT_ENTRY_NUM - 1 : RowNumber(r)[T[g] + j + 1] = <<y, j + 1>>
    BY <1>7 DEF Probed
  <1> DEFINE z == T[g] + x
             z1 == z + 1
  <1>9. x \in 0 .. LUT_ENTRY_NUM - 1 /\ z1 \in Nat /\ rl + 1 = z1 /\ z1 = T[g] + (x + 1)
    <2>1. rl = T[g] + x /\ x \in Nat /\ x < LUT_ENTRY_NUM
      BY <1>4
    <2>2. T[g] \in Nat /\ LUT_ENTRY_NUM \in Nat \ {0}
      BY <1>8
    <2> HIDE DEF T, rl
    <2> QED BY <2>1, <2>2
  <1>10. row = Row(r, y)
    <2>1. RowNumber(r)[z1] = <<y, x + 1>>
      BY <1>8, <1>9
    <2> HIDE DEF z1
    <2>2. row = Row(r, RowNumber(r)[z1][1])
      BY <1>1, <1>9, ADCHeads
    <2> QED BY <2>1, <2>2
  <1>11. l.probe = k /\ l.entries = e /\ l.pos = x
    BY <1>4, ADCPhases
  <1> DEFINE R1 == R[s_entries_ADC(i)]
             R2 == R[s_distance_LUT(i)]
             R3 == R[s_PQ_codes(i)]
  <1>12. R1 = y /\ R2 = z1 /\ R3 = E[g]
    <2>1. s_entries_ADC(i) \notin takes /\ s_PQ_codes(i) \notin takes
      BY DEF s_entries_ADC, s_distance_LUT, s_PQ_codes
    <2> QED BY <1>4, <1>9, <2>1, PEWiring DEF Counted
  <1>13. takes \in SUBSET {s_entries_ADC(i), s_distance_LUT(i), s_PQ_codes(i)}
    OBVIOUS
  <1>14. \A c : c \in DOMAIN puts <=> \/ s_distance_LUT(i) \in takes /\ c = s_distance_LUT(i + 1)
                                      \/ s_PQ_codes(i) \in takes /\ c = s_PQ_result(i)
    <2>1. DOMAIN puts = {s_distance_LUT(i + 1)}
      BY DEF To, ToAll
    <2>2. s_PQ_codes(i) \notin takes /\ s_distance_LUT(i) \in takes
      BY DEF s_distance_LUT, s_PQ_codes
    <2>3. s_PQ_codes(i) # s_distance_LUT(i)
      BY DEF s_distance_LUT, s_PQ_codes
    <2> HIDE DEF puts, takes
    <2> QED BY <2>1, <2>2, Zenon
  <1>15. s_PQ_codes(i) \notin takes /\ puts[s_distance_LUT(i + 1)] = row
    <2> HIDE DEF row
    <2> QED BY DEF To, ToAll, s_entries_ADC, s_distance_LUT, s_PQ_codes
  <1> DEFINE l1 == WithRow(l, 0, x + 1, row)
             x2 == IF full THEN 0 ELSE x + 1
             ph2 == IF full THEN "scan" ELSE "LUT"
  <1>16. PICK t2 : /\ l1 = ADCLocal(k, "LUT", e, x, t2)
                   /\ t2[0] = [t[0] EXCEPT ![x + 1] = row]
                   /\ \A s \in {0, 1} : s # 0 => t2[s] = t[s]
    <2>1. 0 \in {0, 1}
      OBVIOUS
    <2>2. l = ADCLocal(k, "LUT", e, x, t)
      BY <1>4
    <2> DEFINE j == x + 1
    <2> HIDE DEF l, row, e, j
    <2>3. \E t2 : /\ WithRow(l, 0, j, row) = ADCLocal(k, "LUT", e, x, t2)
                  /\ t2[0] = [t[0] EXCEPT ![j] = row]
                  /\ \A s \in {0, 1} : s # 0 => t2[s] = t[s]
      <3>1. LoadsRow(k, "LUT", e, x, t, 0, j, row)
        BY <2>1, ADCLoads
      <3> QED BY <2>2, <3>1, Zenon DEF LoadsRow
    <2> QED BY <2>3 DEF j
  <1>17. /\ \A s \in {0, 1} : DOMAIN t2[s] = 1 .. LUT_ENTRY_NUM
         /\ Filled(r, t2[0], x + 1, y)
    <2>1. Filled(r, [t[0] EXCEPT ![x + 1] = Row(r, y)], x + 1, y)
      BY <1>4, <1>9, RowFilled
    <2> HIDE DEF row, y
    <2> QED BY <1>4, <1>10, <1>16, <2>1
  <1>18. loaded = ADCLocal(k, ph2, e, x2, t2)
    <2>1. loaded = GoneTo(l1, ph2, x2)
      BY <1>11 DEF WithRow, GoneTo
    <2> HIDE DEF loaded, l1, x2, ph2
    <2> QED BY <1>16, <2>1, ADCGoesOn
  <1>19. full <=> x + 1 = LUT_ENTRY_NUM
    BY <1>11
  <1>20. empty <=> full /\ e = 0
    BY <1>11
  <1> DEFINE done == x + 1 = LUT_ENTRY_NUM
             none == 0
  <1> HIDE DEF p, h, lf, l, np, takes, puts, R, row, local, re, rl, rc, g, y, e, T, E, z, z1,
               R1, R2, R3, l1, full, empty, loaded, next, last
  <1>21. y = g + 1 /\ 0 \in Nat
    BY DEF y
  <1>22. \E a : Serves(r, h, lf2, np, a) /\ SingleBody(r, a, lf2, local, R1, R2, R3)
    <2>1. CASE empty
      <3> DEFINE k2 == (k + 1) % np
      <3>1. next = k2 /\ (last <=> k + 1 = np)
        BY <1>5, <1>6, <1>11, <2>1 DEF next, last
      <3>2. Serves(r, h, lf2, np, m) /\ Spot(r, m, k2) /\ Past(r, m, k2) = y
        BY <1>6, <3>1 DEF y, g
      <3>3. local = ADCLocal(k2, "entries", 0, 0, t2)
        <4> HIDE DEF k2
        <4>1. local = TurnedTo(loaded, k2)
          BY <2>1, <3>1 DEF local, TurnedTo
        <4> HIDE DEF x2, ph2
        <4> QED BY <1>18, <4>1, ADCMoves
      <3>4. R1 = y /\ R2 = T[y] /\ R3 = E[y]
        BY <1>8, <1>9, <1>12, <1>19, <1>20, <2>1
      <3> HIDE DEF k2, lf2
      <3>5. SingleAt(r, m, lf2, local, R1, R2, R3, k2, t2, 0)
        BY <1>17, <1>21, <3>2, <3>3, <3>4, Zenon DEF SingleAt, T, E
      <3>6. SingleBody(r, m, lf2, local, R1, R2, R3)
        BY <3>5, Zenon DEF SingleBody
      <3> QED BY <3>2, <3>6
    <2>2. CASE full /\ ~ empty
      <3>1. lf2 = lf /\ Serves(r, h, lf2, np, n)
        BY <1>2, <2>2 DEF last
      <3>2. local = ADCLocal(k, "scan", e, 0, t2)
        BY <1>18, <2>2 DEF local
      <3>3. R1 = y /\ R2 = T[y] /\ R3 = E[g] + 0 /\ 0 < e /\ x + 1 = LUT_ENTRY_NUM
        BY <1>8, <1>9, <1>12, <1>19, <1>20, <2>2
      <3>4. Filled(r, t2[0], LUT_ENTRY_NUM, y)
        BY <1>17, <3>3
      <3> HIDE DEF lf2
      <3>5. SingleAt(r, n, lf, local, R1, R2, R3, k, t2, 0)
        BY <1>4, <1>17, <1>21, <3>2, <3>3, <3>4, Zenon DEF SingleAt, T, E, g, e
      <3>6. SingleBody(r, n, lf2, local, R1, R2, R3)
        BY <3>1, <3>5, Zenon DEF SingleBody
      <3> QED BY <3>1, <3>6
    <2>3. CASE ~ full
      <3> DEFINE x1 == x + 1
      <3>1. lf2 = lf /\ Serves(r, h, lf2, np, n) /\ ~ empty
        BY <1>2, <1>20, <2>3 DEF last
      <3>2. local = ADCLocal(k, "LUT", e, x1, t2)
        BY <1>18, <2>3, <3>1 DEF local
      <3>3. R1 = y /\ R2 = T[g] + x1 /\ R3 = E[g] /\ x1 < LUT_ENTRY_NUM /\ x1 \in Nat
        BY <1>8, <1>9, <1>12, <1>19, <2>3
      <3>4. Filled(r, t2[0], x1, y)
        BY <1>17
      <3> HIDE DEF lf2, x1
      <3>5. SingleAt(r, n, lf, local, R1, R2, R3, k, t2, x1)
        BY <1>4, <1>17, <1>21, <3>2, <3>3, <3>4, Zenon DEF SingleAt, T, E, g, e
      <3>6. SingleBody(r, n, lf2, local, R1, R2, R3)
        BY <3>1, <3>5, Zenon DEF SingleBody
      <3> QED BY <3>1, <3>6
    <2> QED BY <2>1, <2>2, <2>3
  <1>23. PICK a : Serves(r, h, lf2, np, a) /\ SingleBody(r, a, lf2, local, R1, R2, R3)
    BY <1>22
  <1>24. lf2 = IF last THEN left[p] - 1 ELSE left[p]
    BY DEF lf
  <1> HIDE DEF lf2
  <1>25. /\ Transfer(takes, puts) /\ at' = [at EXCEPT ![p] = local] /\ Finish(p, last)
         /\ request' = request
    BY <1>1
  <1>26. IF r.double_buffer THEN DoubleBody(r, a, lf2, local, R1, R2, R3)
         ELSE SingleBody(r, a, lf2, local, R1, R2, R3)
    BY <1>1, <1>23
  <1>27. /\ s_PQ_codes(i) \in takes => puts[s_PQ_result(i)] = ResultOf(r, i, rd[s_PQ_codes(i)] + 1)
         /\ s_distance_LUT(i) \in takes => puts[s_distance_LUT(i + 1)] = Head(fifo[s_distance_LUT(i)])
    BY <1>15 DEF row
  <1>28. /\ Serves(r, rd[s_batch_header(ADC(i))], lf2, nprobe[ADC(i)], a)
         /\ lf2 = IF last THEN left[ADC(i)] - 1 ELSE left[ADC(i)]
         /\ at' = [at EXCEPT ![ADC(i)] = local] /\ Finish(ADC(i), last)
    BY <1>23, <1>24, <1>25 DEF p, h, np
  <1>29. /\ R1 = Counted(Stream, rd, takes)[s_entries_ADC(i)]
         /\ R2 = Counted(Stream, rd, takes)[s_distance_LUT(i)]
         /\ R3 = Counted(Stream, rd, takes)[s_PQ_codes(i)]
    BY DEF R1, R2, R3, R
  <1>30. ADCMove(r, i, rd, takes, puts, last, local, a, lf2)
    BY <1>13, <1>14, <1>25, <1>26, <1>27, <1>28, <1>29, Zenon DEF ADCMove
  <1> QED BY <1>30, ADCStep

\* ADC_scan keeps the invariant.
LEMMA ADCScanStep ==
  ASSUME NEW r, NEW rd, NEW wr, At(r, rd, wr), NEW i \in PE, ADC_scan(i)
  PROVE  ScanInv'
  <1> DEFINE p == ADC(i)
             h == rd[s_batch_header(p)]
             lf == left[p]
             l == at[p]
             np == nprobe[p]
             takes == {s_PQ_codes(i)}
             result == ADC_result(Head(fifo[s_PQ_codes(i)]), l.LUT[0])
             puts == To(s_PQ_result(i), result)
             R == Counted(Stream, rd, takes)
             end == l.pos + 1 = l.entries
             next == (l.probe + 1) % np
             last == end /\ next = 0
             local == IF end
                      THEN [l EXCEPT !.phase = "entries", !.entries = 0, !.pos = 0, !.probe = next]
                      ELSE [l EXCEPT !.pos = @ + 1]
             re == rd[s_entries_ADC(i)]
             rl == rd[s_distance_LUT(i)]
             rc == rd[s_PQ_codes(i)]
             lf2 == IF last THEN lf - 1 ELSE lf
  <1>1. /\ ~ r.double_buffer /\ l.phase = "scan" /\ fifo[s_PQ_codes(i)] # <<>>
        /\ Transfer(takes, puts) /\ at' = [at EXCEPT ![p] = local] /\ Finish(p, last)
        /\ request' = request /\ r \in Requests
    BY ADCIs DEF ADC_scan, SetAt, ADC_next, NextProbe
  <1>2. PICK n : Serves(r, h, lf, np, n) /\ SingleBody(r, n, lf, l, re, rl, rc)
    BY <1>1, ADCIs
  <1>3. PICK k, t, x : SingleAt(r, n, lf, l, re, rl, rc, k, t, x)
    BY <1>2, Zenon DEF SingleBody
  <1> DEFINE g == Past(r, n, k)
             y == g + 1
             e == Entries(r, y)
             T == RowTotal(r)
             E == EntryTotal(r)
  <1>4. /\ Spot(r, n, k) /\ x \in Nat /\ \A s \in {0, 1} : DOMAIN t[s] = 1 .. LUT_ENTRY_NUM
        /\ lf > 0 /\ x < e
        /\ l = ADCLocal(k, "scan", e, x, t) /\ Filled(r, t[0], LUT_ENTRY_NUM, y)
        /\ re = y /\ rl = T[y] /\ rc = E[g] + x
    <2>1. l # ADCLocal(k, "entries", 0, 0, t) /\ l # ADCLocal(k, "LUT", e, x, t)
      BY <1>1, ADCPhases
    <2> HIDE DEF l, re, rl, rc, lf
    <2> QED BY <1>3, <2>1, Zenon DEF SingleAt
  <1>5. g \in Nat /\ y \in 1 .. ProbeNum(r) /\ k \in 0 .. np - 1 /\ np \in Nat \ {0}
    BY <1>1, <1>2, <1>4, NextCell
  <1>6. PICK m : /\ Serves(r, h, IF k + 1 = np THEN lf - 1 ELSE lf, np, m)
                 /\ Spot(r, m, (k + 1) % np)
                 /\ Past(r, m, (k + 1) % np) = Past(r, n, k) + 1
                 /\ k + 1 = np => m = n + 1 /\ (k + 1) % np = 0
                 /\ k + 1 # np => m = n /\ (k + 1) % np = k + 1
    BY <1>1, <1>2, <1>4, NextCell
  <1>7. Probed(r, g)
    BY <1>1, <1>5, ProbedIs
  <1>8. /\ y \in Nat /\ e \in Nat /\ E[g] \in Nat /\ E[y] = E[g] + e
        /\ \A j \in 0 .. e - 1 : Round(r)[E[g] + j + 1] = <<y, j + 1>>
    BY <1>7 DEF Probed
  <1> DEFINE z == E[g] + x
             z1 == z + 1
  <1>9. x \in 0 .. e - 1 /\ z1 \in Nat /\ rc + 1 = z1 /\ z1 = E[g] + (x + 1) /\ x + 1 \in Nat
    <2>1. rc = E[g] + x /\ x \in Nat /\ x < e
      BY <1>4
    <2>2. E[g] \in Nat /\ e \in Nat
      BY <1>8
    <2> HIDE DEF E, rc, e
    <2> QED BY <2>1, <2>2
  <1>10. result = ResultOf(r, i, rc + 1)
    <2>1. Round(r)[z1] = <<y, x + 1>>
      BY <1>8, <1>9
    <2>2. l.LUT[0] = t[0]
      BY <1>4, ADCPhases
    <2> DEFINE j == x + 1
    <2>3. Round(r)[z1] = <<y, j>> /\ z1 \in Nat /\ rd[s_PQ_codes(i)] + 1 = z1
          /\ Filled(r, t[0], LUT_ENTRY_NUM, y) /\ fifo[s_PQ_codes(i)] # <<>>
      BY <1>1, <1>4, <1>9, <2>1
    <2> HIDE DEF z1, y, j
    <2>4. ADC_result(Head(fifo[s_PQ_codes(i)]), t[0]) = ResultOf(r, i, rd[s_PQ_codes(i)] + 1)
      BY <2>3, ScannedCode
    <2> QED BY <2>2, <2>4
  <1>11. l.probe = k /\ l.entries = e /\ l.pos = x
    BY <1>4, ADCPhases
  <1> DEFINE R1 == R[s_entries_ADC(i)]
             R2 == R[s_distance_LUT(i)]
             R3 == R[s_PQ_codes(i)]
  <1>12. R1 = y /\ R2 = T[y] /\ R3 = z1
    <2>1. s_entries_ADC(i) \notin takes /\ s_distance_LUT(i) \notin takes
      BY DEF s_entries_ADC, s_distance_LUT, s_PQ_codes
    <2> QED BY <1>4, <1>9, <2>1, PEWiring DEF Counted
  <1>13. takes \in SUBSET {s_entries_ADC(i), s_distance_LUT(i), s_PQ_codes(i)}
    OBVIOUS
  <1>14. \A c : c \in DOMAIN puts <=> \/ s_distance_LUT(i) \in takes /\ c = s_distance_LUT(i + 1)
                                      \/ s_PQ_codes(i) \in takes /\ c = s_PQ_result(i)
    <2>1. DOMAIN puts = {s_PQ_result(i)}
      BY DEF To, ToAll
    <2>2. s_PQ_codes(i) \in takes /\ s_distance_LUT(i) \notin takes
      BY DEF s_distance_LUT, s_PQ_codes
    <2> HIDE DEF puts, takes
    <2> QED BY <2>1, <2>2, Zenon
  <1>15. s_distance_LUT(i) \notin takes /\ puts[s_PQ_result(i)] = result
    <2> HIDE DEF result
    <2> QED BY DEF To, ToAll, s_entries_ADC, s_distance_LUT, s_PQ_codes
  <1>16. end <=> x + 1 = e
    BY <1>11
  <1> HIDE DEF p, h, lf, l, np, takes, puts, R, result, local, re, rl, rc, g, y, e, T, E, z, z1,
               R1, R2, R3, end, next, last
  <1>17. y = g + 1 /\ 0 \in Nat
    BY DEF y
  <1>18. \E a : Serves(r, h, lf2, np, a) /\ SingleBody(r, a, lf2, local, R1, R2, R3)
    <2>1. CASE end
      <3> DEFINE k2 == (k + 1) % np
      <3>1. next = k2 /\ (last <=> k + 1 = np)
        BY <1>5, <1>6, <1>11, <2>1 DEF next, last
      <3>2. Serves(r, h, lf2, np, m) /\ Spot(r, m, k2) /\ Past(r, m, k2) = y
        BY <1>6, <3>1 DEF y, g
      <3>3. local = ADCLocal(k2, "entries", 0, 0, t)
        <4> HIDE DEF k2
        <4>1. local = TurnedTo(l, k2)
          BY <2>1, <3>1 DEF local, TurnedTo
        <4> QED BY <1>4, <4>1, ADCMoves
      <3>4. R1 = y /\ R2 = T[y] /\ R3 = E[y]
        BY <1>8, <1>9, <1>12, <1>16, <2>1
      <3> HIDE DEF k2, lf2
      <3>5. SingleAt(r, m, lf2, local, R1, R2, R3, k2, t, 0)
        BY <1>4, <1>17, <3>2, <3>3, <3>4, Zenon DEF SingleAt, T, E
      <3>6. SingleBody(r, m, lf2, local, R1, R2, R3)
        BY <3>5, Zenon DEF SingleBody
      <3> QED BY <3>2, <3>6
    <2>2. CASE ~ end
      <3> DEFINE x1 == x + 1
      <3>1. lf2 = lf /\ Serves(r, h, lf2, np, n)
        BY <1>2, <2>2 DEF last
      <3>2. local = ADCLocal(k, "scan", e, x1, t)
        <4>1. local = Advanced(l, x1)
          BY <1>11, <2>2 DEF local, Advanced
        <4> HIDE DEF x1
        <4> QED BY <1>4, <4>1, ADCGoesOn
      <3>3. R1 = y /\ R2 = T[y] /\ R3 = E[g] + x1 /\ x1 < e /\ x1 \in Nat
        BY <1>8, <1>9, <1>12, <1>16, <2>2
      <3> HIDE DEF lf2, x1
      <3>4. SingleAt(r, n, lf, local, R1, R2, R3, k, t, x1)
        BY <1>4, <1>17, <3>2, <3>3, Zenon DEF SingleAt, T, E, g, e
      <3>5. SingleBody(r, n, lf2, local, R1, R2, R3)
        BY <3>1, <3>4, Zenon DEF SingleBody
      <3> QED BY <3>1, <3>5
    <2> QED BY <2>1, <2>2
  <1>19. PICK a : Serves(r, h, lf2, np, a) /\ SingleBody(r, a, lf2, local, R1, R2, R3)
    BY <1>18
  <1>20. lf2 = IF last THEN left[p] - 1 ELSE left[p]
    BY DEF lf
  <1> HIDE DEF lf2
  <1>21. /\ Transfer(takes, puts) /\ at' = [at EXCEPT ![p] = local] /\ Finish(p, last)
         /\ request' = request
    BY <1>1
  <1>22. IF r.double_buffer THEN DoubleBody(r, a, lf2, local, R1, R2, R3)
         ELSE SingleBody(r, a, lf2, local, R1, R2, R3)
    BY <1>1, <1>19
  <1>23. /\ s_PQ_codes(i) \in takes => puts[s_PQ_result(i)] = ResultOf(r, i, rd[s_PQ_codes(i)] + 1)
         /\ s_distance_LUT(i) \in takes => puts[s_distance_LUT(i + 1)] = Head(fifo[s_distance_LUT(i)])
    BY <1>10, <1>15 DEF rc
  <1>24. /\ Serves(r, rd[s_batch_header(ADC(i))], lf2, nprobe[ADC(i)], a)
         /\ lf2 = IF last THEN left[ADC(i)] - 1 ELSE left[ADC(i)]
         /\ at' = [at EXCEPT ![ADC(i)] = local] /\ Finish(ADC(i), last)
    BY <1>19, <1>20, <1>21 DEF p, h, np
  <1>25. /\ R1 = Counted(Stream, rd, takes)[s_entries_ADC(i)]
         /\ R2 = Counted(Stream, rd, takes)[s_distance_LUT(i)]
         /\ R3 = Counted(Stream, rd, takes)[s_PQ_codes(i)]
    BY DEF R1, R2, R3, R
  <1>26. ADCMove(r, i, rd, takes, puts, last, local, a, lf2)
    BY <1>13, <1>14, <1>21, <1>22, <1>23, <1>24, <1>25, Zenon DEF ADCMove
  <1> QED BY <1>26, ADCStep

-----------------------------------------------------------------------------
(* The compute PEs with two tables. *)

\* The buffer that is loaded is the one scanned in the next iteration.
LEMMA Buffers ==
  ASSUME NEW k \in Nat
  PROVE  /\ loaded_buffer(k) \in {0, 1} /\ scanned_buffer(k) \in {0, 1}
         /\ loaded_buffer(k) # scanned_buffer(k) /\ scanned_buffer(k + 1) = loaded_buffer(k)
BY DEF loaded_buffer, scanned_buffer

\* The cell PE i loads, and the cell before it that it scans.
DoubleSpot(r, h, lf, np, n, k) ==
  /\ k \in 0 .. np /\ np \in Nat \ {0} /\ np = Len(CellsOf(r, n + 1))
  /\ Past(r, n, k) \in Nat
  /\ k < np => /\ Probed(r, Past(r, n, k)) /\ Past(r, n, k + 1) = Past(r, n, k) + 1
  /\ k > 0 => /\ Past(r, n, k) - 1 \in Nat /\ Probed(r, Past(r, n, k) - 1)
  /\ k = np => Serves(r, h, lf - 1, np, n + 1) /\ Past(r, n + 1, 0) = Past(r, n, k)
  /\ RowTotal(r)[Past(r, n, k)] \in Nat /\ EntryTotal(r)[Past(r, n, k)] \in Nat
  /\ LUT_ENTRY_NUM \in Nat \ {0}

\* The cells a compute PE with two tables is at, in numbers.
LEMMA DoubleSpotIs ==
  ASSUME NEW r \in Requests, NEW h, NEW lf, NEW np, NEW n, Serves(r, h, lf, np, n), lf > 0,
         NEW k, k = 0 \/ k \in 1 .. Len(CellsOf(r, n + 1))
  PROVE  DoubleSpot(r, h, lf, np, n, k)
  <1> DEFINE P == ProbeTotal(r)
             N == ProbeNum(r)
             g == Past(r, n, k)
  <1>1. /\ np = Len(CellsOf(r, n + 1)) /\ np \in Nat \ {0}
        /\ P[n + 1] = P[n] + np /\ P[n] \in Nat /\ N \in Nat
        /\ \A j \in 1 .. np : P[n] + j \in 1 .. N
        /\ Serves(r, h, lf - 1, np, n + 1)
    <2>1. Served(r, h, lf, np, n)
      BY Serving
    <2> QED BY <2>1 DEF Served
  <1>2. k \in 0 .. np
    BY <1>1
  <1>3. g = P[n] + k /\ Past(r, n, k + 1) = P[n] + (k + 1) /\ Past(r, n + 1, 0) = P[n + 1] + 0
    BY DEF Past
  <1> HIDE DEF P, N, g
  <1>4. /\ g \in Nat /\ (k < np => g + 1 \in 1 .. N /\ P[n] + (k + 1) = g + 1)
        /\ (k > 0 => g - 1 \in Nat /\ g \in 1 .. N) /\ g \in 0 .. N
    <2>1. k < np => k + 1 \in 1 .. np /\ P[n] + (k + 1) = g + 1
      <3>1. k < np => k + 1 \in 1 .. np
        BY <1>1, <1>2
      <3>2. P[n] + (k + 1) = (P[n] + k) + 1
        BY <1>1, <1>2
      <3> QED BY <1>3, <3>1, <3>2
    <2>2. k > 0 => k \in 1 .. np
      BY <1>1, <1>2
    <2>3. g \in Nat
      BY <1>1, <1>2, <1>3
    <2>4. k < np => g + 1 \in 1 .. N
      BY <1>1, <2>1
    <2>5. k > 0 => g \in 1 .. N
      BY <1>1, <1>3, <2>2
    <2>6. k < np \/ k > 0
      BY <1>1, <1>2
    <2> QED BY <1>1, <2>1, <2>3, <2>4, <2>5, <2>6
  <1>5. k < np => Probed(r, g)
    BY <1>4, ProbedIs DEF N
  <1>6. k > 0 => Probed(r, g - 1)
    <2> SUFFICES ASSUME k > 0 PROVE Probed(r, g - 1)
      OBVIOUS
    <2> DEFINE d == g - 1
    <2>1. d \in Nat /\ d + 1 \in 1 .. ProbeNum(r)
      BY <1>4 DEF N
    <2> HIDE DEF d
    <2>2. Probed(r, d)
      BY <2>1, ProbedIs
    <2> QED BY <2>2 DEF d
  <1>7. k = np => Past(r, n + 1, 0) = g
    BY <1>1, <1>3
  <1>8. RowTotal(r)[g] \in Nat /\ EntryTotal(r)[g] \in Nat /\ LUT_ENTRY_NUM \in Nat \ {0}
    BY <1>4, RowFacts, RoundFacts, Positive DEF N
  <1> QED BY <1>1, <1>2, <1>3, <1>4, <1>5, <1>6, <1>7, <1>8, Zenon DEF DoubleSpot, g

\* double_entries keeps the invariant.
LEMMA DoubleEntriesStep ==
  ASSUME NEW r, NEW rd, NEW wr, At(r, rd, wr), NEW i \in PE, double_entries(i)
  PROVE  ScanInv'
  <1> DEFINE p == ADC(i)
             h == rd[s_batch_header(p)]
             lf == left[p]
             l == at[p]
             np == nprobe[p]
             first == l.probe = 0
             takes == IF first THEN {} ELSE {s_entries_ADC(i)}
             puts == Nothing
             R == Counted(Stream, rd, takes)
             v == IF first THEN 0 ELSE Head(fifo[s_entries_ADC(i)])
             local == [l EXCEPT !.phase = "both", !.entries = v]
             re == rd[s_entries_ADC(i)]
             rl == rd[s_distance_LUT(i)]
             rc == rd[s_PQ_codes(i)]
  <1>1. /\ r.double_buffer /\ lf > 0 /\ l.phase = "entries"
        /\ ~ first => fifo[s_entries_ADC(i)] # <<>>
        /\ Transfer(takes, puts) /\ at' = [at EXCEPT ![p] = local] /\ Finish(p, FALSE)
        /\ request' = request /\ r \in Requests
    BY ADCIs DEF double_entries, SetAt, Finish
  <1>2. PICK n : Serves(r, h, lf, np, n) /\ DoubleBody(r, n, lf, l, re, rl, rc)
    BY <1>1, ADCIs
  <1>3. PICK k, t, x : DoubleAt(r, n, lf, l, re, rl, rc, k, t, x)
    BY <1>2, Zenon DEF DoubleBody
  <1> DEFINE g == Past(r, n, k)
             d == IF k = 0 THEN g ELSE g - 1
             e == IF k = 0 THEN 0 ELSE Entries(r, g)
             T == RowTotal(r)
             E == EntryTotal(r)
             Q == Len(CellsOf(r, n + 1))
  <1>4. /\ k = 0 \/ (lf > 0 /\ k \in 1 .. Q)
        /\ \A s \in {0, 1} : DOMAIN t[s] = 1 .. LUT_ENTRY_NUM
        /\ k > 0 => Filled(r, t[scanned_buffer(k)], LUT_ENTRY_NUM, g)
        /\ l = ADCLocal(k, "entries", 0, 0, t)
        /\ re = d /\ rl = T[g] /\ rc = E[d]
    <2>1. l # ADCLocal(k, "both", e, x, t)
      BY <1>1, ADCPhases
    <2> HIDE DEF l, re, rl, rc, lf, Q
    <2> QED BY <1>3, <2>1, Zenon DEF DoubleAt, Q
  <1>5. DoubleSpot(r, h, lf, np, n, k)
    BY <1>1, <1>2, <1>4, DoubleSpotIs
  <1>6. /\ k \in 0 .. np /\ np \in Nat \ {0} /\ np = Q /\ g \in Nat
        /\ k > 0 => g - 1 \in Nat /\ Probed(r, g - 1)
        /\ T[g] \in Nat /\ E[g] \in Nat /\ LUT_ENTRY_NUM \in Nat \ {0}
    BY <1>5 DEF DoubleSpot
  <1>7. first <=> k = 0
    BY <1>4, ADCPhases
  <1>8. e \in Nat /\ E[d] \in Nat
    <2>1. k > 0 => (g - 1) + 1 = g
      BY <1>6
    <2>2. k > 0 => E[g - 1] \in Nat /\ Entries(r, (g - 1) + 1) \in Nat
      BY <1>6 DEF Probed
    <2>3. k = 0 \/ k > 0
      BY <1>6
    <2> QED BY <1>6, <2>1, <2>2, <2>3
  <1>9. v = e
    <2>1. k # 0 => rd[s_entries_ADC(i)] + 1 = g
      BY <1>4, <1>6
    <2>2. k # 0 => fifo[s_entries_ADC(i)] # <<>>
      BY <1>1, <1>7
    <2>3. k # 0 => Head(fifo[s_entries_ADC(i)]) = Entries(r, g)
      <3> HIDE DEF g, first
      <3> QED BY <1>6, <2>1, <2>2, ADCHeads
    <2> QED BY <1>7, <2>3
  <1> DEFINE R1 == R[s_entries_ADC(i)]
             R2 == R[s_distance_LUT(i)]
             R3 == R[s_PQ_codes(i)]
  <1>10. R1 = g /\ R2 = T[g] + 0 /\ R3 = E[d] + 0
    <2>1. s_distance_LUT(i) \notin takes /\ s_PQ_codes(i) \notin takes
      BY DEF s_entries_ADC, s_distance_LUT, s_PQ_codes
    <2>2. s_entries_ADC(i) \in takes <=> k # 0
      BY <1>7
    <2>3. R1 = IF k # 0 THEN re + 1 ELSE re
      BY <2>2, PEWiring DEF Counted
    <2>4. R2 = rl /\ R3 = rc
      BY <2>1, PEWiring DEF Counted
    <2> HIDE DEF R1, R2, R3, T, E
    <2> QED BY <1>4, <1>6, <1>8, <2>3, <2>4
  <1>11. local = ADCLocal(k, "both", e, 0, t)
    <2> HIDE DEF l, v, e
    <2>1. local = [l EXCEPT !.phase = "both", !.entries = e]
      BY <1>9
    <2> HIDE DEF local
    <2> QED BY <1>4, <2>1 DEF ADCLocal
  <1>12. Filled(r, t[loaded_buffer(k)], 0, g + 1)
    <2>1. k \in Nat
      BY <1>6
    <2> DEFINE b == loaded_buffer(k)
    <2>2. b \in {0, 1}
      BY <2>1, Buffers
    <2> HIDE DEF b
    <2>3. DOMAIN t[b] = 1 .. LUT_ENTRY_NUM
      BY <1>4, <2>2
    <2>4. \A j \in 1 .. 0 : FALSE
      OBVIOUS
    <2>5. Filled(r, t[b], 0, g + 1)
      BY <2>3, <2>4 DEF Filled
    <2> QED BY <2>5 DEF b
  <1>13. /\ 0 < LUT_ENTRY_NUM /\ 0 \in Nat
         /\ 0 = IF k = Q THEN 0 ELSE IF 0 < LUT_ENTRY_NUM THEN 0 ELSE LUT_ENTRY_NUM
         /\ 0 = IF 0 < e THEN 0 ELSE e
    BY <1>6, <1>8
  <1>14. takes \in SUBSET {s_entries_ADC(i), s_distance_LUT(i), s_PQ_codes(i)}
    OBVIOUS
  <1>15. s_distance_LUT(i) \notin takes /\ s_PQ_codes(i) \notin takes
    BY DEF s_entries_ADC, s_distance_LUT, s_PQ_codes
  <1>16. \A c : c \in DOMAIN puts <=> \/ s_distance_LUT(i) \in takes /\ c = s_distance_LUT(i + 1)
                                      \/ s_PQ_codes(i) \in takes /\ c = s_PQ_result(i)
    <2>1. DOMAIN puts = {}
      BY DEF Nothing, ToAll
    <2> HIDE DEF puts, takes
    <2> QED BY <1>15, <2>1
  <1> HIDE DEF p, h, lf, l, np, takes, puts, R, v, local, re, rl, rc, R1, R2, R3, first
  <1>17. DoubleAt(r, n, lf, local, R1, R2, R3, k, t, 0)
    <2>1. /\ lf > 0 /\ (0 < LUT_ENTRY_NUM \/ 0 < e)
          /\ local = ADCLocal(k, "both", e, 0, t)
          /\ 0 = IF k = Q THEN 0 ELSE IF 0 < LUT_ENTRY_NUM THEN 0 ELSE LUT_ENTRY_NUM
          /\ 0 = IF 0 < e THEN 0 ELSE e
          /\ k < Q => Filled(r, t[loaded_buffer(k)], 0, g + 1)
          /\ R1 = g
          /\ R2 = T[g] + 0
          /\ R3 = E[d] + 0
      BY <1>1, <1>10, <1>11, <1>12, <1>13
    <2> QED BY <1>4, <1>13, <2>1, Zenon DEF DoubleAt
  <1>18. DoubleBody(r, n, lf, local, R1, R2, R3)
    BY <1>17, Zenon DEF DoubleBody
  <1>19. lf = IF FALSE THEN left[p] - 1 ELSE left[p]
    BY DEF lf
  <1>20. ADCMove(r, i, rd, takes, puts, FALSE, local, n, lf)
    BY <1>1, <1>2, <1>14, <1>15, <1>16, <1>18, <1>19 DEF p, h, np, R1, R2, R3, R, ADCMove
  <1> QED BY <1>20, ADCStep

\* double_iteration keeps the invariant: it never scans the table it loads.
LEMMA DoubleIterationStep ==
  ASSUME NEW r, NEW rd, NEW wr, At(r, rd, wr), NEW i \in PE, double_iteration(i)
  PROVE  ScanInv'
  <1> DEFINE p == ADC(i)
             h == rd[s_batch_header(p)]
             lf == left[p]
             l == at[p]
             np == nprobe[p]
             loads == l.probe < np /\ l.pos < LUT_ENTRY_NUM
             scans == l.probe > 0 /\ l.pos < l.entries
             row == Head(fifo[s_distance_LUT(i)])
             end == l.pos + 1 >= l.entries /\ l.pos + 1 >= LUT_ENTRY_NUM
             loaded == IF loads THEN [l EXCEPT !.LUT[loaded_buffer(l.probe)][l.pos + 1] = row] ELSE l
             result == ADC_result(Head(fifo[s_PQ_codes(i)]), l.LUT[scanned_buffer(l.probe)])
             takes == (IF loads THEN {s_distance_LUT(i)} ELSE {})
                        \cup (IF scans THEN {s_PQ_codes(i)} ELSE {})
             puts == (IF loads THEN To(s_distance_LUT(i + 1), row) ELSE Nothing)
                       ++ (IF scans THEN To(s_PQ_result(i), result) ELSE Nothing)
             R == Counted(Stream, rd, takes)
             last == end /\ l.probe = np
             local == IF end
                      THEN [loaded EXCEPT !.phase = "entries", !.entries = 0, !.pos = 0,
                                          !.probe = (@ + 1) % (np + 1)]
                      ELSE [loaded EXCEPT !.pos = @ + 1]
             re == rd[s_entries_ADC(i)]
             rl == rd[s_distance_LUT(i)]
             rc == rd[s_PQ_codes(i)]
             lf2 == IF last THEN lf - 1 ELSE lf
  <1>1. /\ r.double_buffer /\ l.phase = "both"
        /\ loads => fifo[s_distance_LUT(i)] # <<>>
        /\ scans => fifo[s_PQ_codes(i)] # <<>>
        /\ Transfer(takes, puts) /\ at' = [at EXCEPT ![p] = local] /\ Finish(p, last)
        /\ request' = request /\ r \in Requests
    BY ADCIs DEF double_iteration, SetAt
  <1>2. PICK n : Serves(r, h, lf, np, n) /\ DoubleBody(r, n, lf, l, re, rl, rc)
    BY <1>1, ADCIs
  <1>3. PICK k, t, x : DoubleAt(r, n, lf, l, re, rl, rc, k, t, x)
    BY <1>2, Zenon DEF DoubleBody
  <1> DEFINE g == Past(r, n, k)
             d == IF k = 0 THEN g ELSE g - 1
             e == IF k = 0 THEN 0 ELSE Entries(r, g)
             T == RowTotal(r)
             E == EntryTotal(r)
             Q == Len(CellsOf(r, n + 1))
             L == LUT_ENTRY_NUM
             y == IF k = Q THEN 0 ELSE IF x < L THEN x ELSE L
             z == IF x < e THEN x ELSE e
             bl == loaded_buffer(k)
             bs == scanned_buffer(k)
  <1>4. /\ (k = 0 \/ (lf > 0 /\ k \in 1 .. Q)) /\ x \in Nat /\ lf > 0
        /\ \A s \in {0, 1} : DOMAIN t[s] = 1 .. L
        /\ k > 0 => Filled(r, t[bs], L, g)
        /\ l = ADCLocal(k, "both", e, x, t) /\ (x < L \/ x < e)
        /\ k < Q => Filled(r, t[bl], y, g + 1)
        /\ re = g /\ rl = T[g] + y /\ rc = E[d] + z
        /\ x \in Nat
    <2>1. l # ADCLocal(k, "entries", 0, 0, t)
      BY <1>1, ADCPhases
    <2> HIDE DEF l, re, rl, rc, lf
    <2>2. /\ k = 0 \/ (lf > 0 /\ k \in 1 .. Q)
          /\ x \in Nat
          /\ \A s \in {0, 1} : DOMAIN t[s] = 1 .. LUT_ENTRY_NUM
          /\ k > 0 => Filled(r, t[scanned_buffer(k)], LUT_ENTRY_NUM, g)
      BY <1>3, Zenon DEF DoubleAt
    <2>3. \E y2, z2 \in Nat :
             /\ lf > 0 /\ (x < LUT_ENTRY_NUM \/ x < e)
             /\ l = ADCLocal(k, "both", e, x, t)
             /\ y2 = IF k = Q THEN 0 ELSE IF x < LUT_ENTRY_NUM THEN x ELSE LUT_ENTRY_NUM
             /\ z2 = IF x < e THEN x ELSE e
             /\ k < Q => Filled(r, t[loaded_buffer(k)], y2, g + 1)
             /\ re = g
             /\ rl = RowTotal(r)[g] + y2
             /\ rc = EntryTotal(r)[d] + z2
      BY <1>3, <2>1, Zenon DEF DoubleAt
    <2> HIDE DEF e, d, g, Q
    <2>4. /\ lf > 0 /\ (x < L \/ x < e) /\ l = ADCLocal(k, "both", e, x, t)
          /\ k < Q => Filled(r, t[bl], y, g + 1)
          /\ re = g /\ rl = T[g] + y /\ rc = E[d] + z
      BY <2>3, Zenon
    <2> QED BY <2>2, <2>4
  <1>5. DoubleSpot(r, h, lf, np, n, k)
    BY <1>1, <1>2, <1>4, DoubleSpotIs
  <1>6. /\ k \in 0 .. np /\ np \in Nat \ {0} /\ np = Q /\ g \in Nat /\ k \in Nat
        /\ k < np => Probed(r, g) /\ Past(r, n, k + 1) = g + 1
        /\ k > 0 => g - 1 \in Nat /\ Probed(r, g - 1)
        /\ k = np => Serves(r, h, lf - 1, np, n + 1) /\ Past(r, n + 1, 0) = g
        /\ T[g] \in Nat /\ E[g] \in Nat /\ L \in Nat \ {0}
    BY <1>5 DEF DoubleSpot
  <1>7. /\ e \in Nat /\ E[d] \in Nat /\ E[g] = E[d] + e /\ d \in Nat
        /\ k > 0 => \A j \in 0 .. e - 1 : Round(r)[E[d] + j + 1] = <<g, j + 1>>
    <2>1. CASE k = 0
      BY <1>6, <2>1
    <2>2. CASE k > 0
      <3> DEFINE f == g - 1
      <3>1. f + 1 = g /\ d = f /\ e = Entries(r, g) /\ f \in Nat
        BY <1>6, <2>2
      <3>2. Probed(r, f)
        BY <1>6, <2>2
      <3> HIDE DEF f, g, d, e
      <3> QED BY <3>1, <3>2 DEF Probed
    <2> QED BY <1>6, <2>1, <2>2
  <1>8. k < np => /\ T[g + 1] = T[g] + L
                  /\ \A j \in 0 .. L - 1 : RowNumber(r)[T[g] + j + 1] = <<g + 1, j + 1>>
    BY <1>6 DEF Probed
  <1>9. /\ bl \in {0, 1} /\ bs \in {0, 1} /\ bl # bs /\ scanned_buffer(k + 1) = bl
    BY <1>6, Buffers
  <1>10. l.probe = k /\ l.entries = e /\ l.pos = x /\ l.LUT[bs] = t[bs]
    BY <1>4, <1>9, ADCPhases
  <1>11. (loads <=> k < np /\ x < L) /\ (scans <=> k > 0 /\ x < e) /\ (end <=> x + 1 >= e /\ x + 1 >= L)
    BY <1>10
  <1> HIDE DEF loads, scans, end
  <1>12. loads => row = Row(r, g + 1)
    <2> SUFFICES ASSUME loads PROVE row = Row(r, g + 1)
      OBVIOUS
    <2> DEFINE z1 == T[g] + x + 1
    <2>1. k < np /\ x < L /\ y = x
      BY <1>6, <1>11
    <2>2. x \in 0 .. L - 1 /\ rl + 1 = z1 /\ z1 \in Nat
      <3>1. rl = T[g] + y /\ x \in Nat /\ T[g] \in Nat /\ L \in Nat
        BY <1>4, <1>6
      <3> HIDE DEF rl, T, y
      <3> QED BY <2>1, <3>1
    <2>3. RowNumber(r)[z1] = <<g + 1, x + 1>>
      BY <1>8, <2>1, <2>2
    <2> HIDE DEF z1
    <2>4. row = Row(r, RowNumber(r)[z1][1])
      BY <1>1, <2>2, ADCHeads
    <2> QED BY <2>3, <2>4
  <1>13. scans => result = ResultOf(r, i, rc + 1)
    <2> SUFFICES ASSUME scans PROVE result = ResultOf(r, i, rc + 1)
      OBVIOUS
    <2> DEFINE z1 == E[d] + x + 1
               j == x + 1
    <2>1. k > 0 /\ x < e /\ z = x
      BY <1>11
    <2>2. x \in 0 .. e - 1 /\ rc + 1 = z1 /\ z1 \in Nat
      <3>1. rc = E[d] + z /\ x \in Nat /\ E[d] \in Nat /\ e \in Nat
        BY <1>4, <1>7
      <3> HIDE DEF rc, E, z, d, e
      <3> QED BY <2>1, <3>1
    <2>3. Round(r)[z1] = <<g, j>>
      BY <1>7, <2>1, <2>2
    <2>4. Filled(r, t[bs], LUT_ENTRY_NUM, g) /\ fifo[s_PQ_codes(i)] # <<>> /\ rd[s_PQ_codes(i)] + 1 = z1
      BY <1>1, <1>4, <2>1, <2>2
    <2>5. result = ADC_result(Head(fifo[s_PQ_codes(i)]), t[bs])
      BY <1>10
    <2> HIDE DEF z1, g, j, bs
    <2>6. ADC_result(Head(fifo[s_PQ_codes(i)]), t[bs]) = ResultOf(r, i, rd[s_PQ_codes(i)] + 1)
      BY <2>2, <2>3, <2>4, ScannedCode
    <2> QED BY <2>5, <2>6
  <1> DEFINE R1 == R[s_entries_ADC(i)]
             R2 == R[s_distance_LUT(i)]
             R3 == R[s_PQ_codes(i)]
             x1 == x + 1
             y1 == IF k = Q THEN 0 ELSE IF x1 < L THEN x1 ELSE L
             z1 == IF x1 < e THEN x1 ELSE e
  <1>14. x1 \in Nat /\ y1 \in Nat /\ z1 \in Nat /\ y1 = (IF loads THEN y + 1 ELSE y)
         /\ z1 = (IF scans THEN z + 1 ELSE z) /\ y \in Nat /\ z \in Nat
    <2>1. x \in Nat /\ L \in Nat \ {0} /\ e \in Nat /\ (k = Q \/ k < Q) /\ (k = 0 => e = 0) /\ k \in Nat
          /\ np = Q /\ (k = Q => ~ (k < Q))
      BY <1>4, <1>6, <1>7
    <2> HIDE DEF e, Q, g, L
    <2> QED BY <1>11, <2>1
  <1>15. R1 = g /\ R2 = T[g] + y1 /\ R3 = E[d] + z1
    <2>1. /\ s_entries_ADC(i) \notin takes /\ (s_distance_LUT(i) \in takes <=> loads)
          /\ (s_PQ_codes(i) \in takes <=> scans)
      BY DEF s_entries_ADC, s_distance_LUT, s_PQ_codes
    <2>2. /\ R1 = re /\ R2 = (IF loads THEN rl + 1 ELSE rl) /\ R3 = (IF scans THEN rc + 1 ELSE rc)
      <3> HIDE DEF takes
      <3> QED BY <2>1, PEWiring DEF Counted
    <2>3. re = g /\ rl = T[g] + y /\ rc = E[d] + z /\ T[g] \in Nat /\ E[d] \in Nat
      BY <1>4, <1>6, <1>7
    <2> HIDE DEF R1, R2, R3, re, rl, rc, T, E, g, d, y, z, y1, z1, x1
    <2> QED BY <1>14, <2>2, <2>3
  <1>16. takes \in SUBSET {s_entries_ADC(i), s_distance_LUT(i), s_PQ_codes(i)}
    OBVIOUS
  <1>17. (s_distance_LUT(i) \in takes <=> loads) /\ (s_PQ_codes(i) \in takes <=> scans)
    BY DEF s_entries_ADC, s_distance_LUT, s_PQ_codes
  <1>18. /\ DOMAIN puts = (IF loads THEN {s_distance_LUT(i + 1)} ELSE {})
                             \cup (IF scans THEN {s_PQ_result(i)} ELSE {})
         /\ loads => puts[s_distance_LUT(i + 1)] = row
         /\ scans => puts[s_PQ_result(i)] = result
    <2>1. s_distance_LUT(i + 1) # s_PQ_result(i)
      BY DEF s_distance_LUT, s_PQ_result
    <2> HIDE DEF row, result
    <2> QED BY <2>1 DEF To, ToAll, Nothing, ++
  <1>19. \A c : c \in DOMAIN puts <=> \/ s_distance_LUT(i) \in takes /\ c = s_distance_LUT(i + 1)
                                      \/ s_PQ_codes(i) \in takes /\ c = s_PQ_result(i)
    <2> HIDE DEF puts, takes
    <2> QED BY <1>17, <1>18
  <1>20. PICK t2 : /\ loaded = ADCLocal(k, "both", e, x, t2)
                   /\ \A s \in {0, 1} : DOMAIN t2[s] = 1 .. L
                   /\ t2[bs] = t[bs]
                   /\ k < Q => Filled(r, t2[bl], y1, g + 1)
    <2>1. CASE loads
      <3> DEFINE j == x + 1
      <3>1. loaded = WithRow(l, bl, j, row)
        BY <1>10, <2>1 DEF WithRow
      <3>2. l = ADCLocal(k, "both", e, x, t)
        BY <1>4
      <3>3. k < Q /\ y = x /\ y1 = x + 1 /\ x \in 0 .. L - 1
        <4>1. k < np /\ x < L /\ np = Q /\ x \in Nat /\ L \in Nat /\ k \in Nat
          BY <1>4, <1>6, <1>11, <2>1
        <4>2. y = x
          BY <4>1
        <4>3. y1 = y + 1
          BY <1>14, <2>1
        <4> HIDE DEF y, y1, Q
        <4> QED BY <4>1, <4>2, <4>3
      <3>4. Filled(r, t[bl], x, g + 1)
        BY <1>4, <3>3
      <3> DEFINE g1 == g + 1
      <3> HIDE DEF g1
      <3>5. Filled(r, [t[bl] EXCEPT ![x + 1] = Row(r, g1)], x + 1, g1)
        BY <3>3, <3>4, RowFilled DEF g1
      <3>6. row = Row(r, g1)
        BY <1>12, <2>1 DEF g1
      <3> HIDE DEF l, row, e, bl, bs, loaded, y1, j
      <3>7. PICK t2 : /\ WithRow(l, bl, j, row) = ADCLocal(k, "both", e, x, t2)
                      /\ t2[bl] = [t[bl] EXCEPT ![j] = row]
                      /\ \A s \in {0, 1} : s # bl => t2[s] = t[s]
        <4>1. LoadsRow(k, "both", e, x, t, bl, j, row)
          BY <1>9, ADCLoads
        <4> QED BY <3>2, <4>1, Zenon DEF LoadsRow
      <3>8. t2[bs] = t[bs] /\ \A s \in {0, 1} : DOMAIN t2[s] = 1 .. L
        BY <1>4, <1>9, <3>7
      <3>9. Filled(r, t2[bl], y1, g1)
        BY <3>3, <3>5, <3>6, <3>7 DEF j
      <3> QED BY <3>1, <3>7, <3>8, <3>9 DEF g1
    <2>2. CASE ~ loads
      <3>1. loaded = l /\ y1 = y
        BY <1>14, <2>2
      <3> HIDE DEF l, e, bl, bs, loaded, y, y1
      <3> QED BY <1>4, <3>1
    <2> QED BY <2>1, <2>2
  <1>21. last <=> end /\ k = np
    BY <1>10
  <1> HIDE DEF p, h, lf, l, np, takes, puts, R, row, result, local, loaded, re, rl, rc, last, bl, bs
  <1>22. \E a : Serves(r, h, lf2, np, a) /\ DoubleBody(r, a, lf2, local, R1, R2, R3)
    <2> DEFINE k2 == (k + 1) % (np + 1)
    <2>0. /\ k = np => k2 = 0
          /\ k < np => k2 = k + 1 /\ k + 1 \in 1 .. np
      <3>1. k \in Nat /\ np \in Nat /\ k \in 0 .. np
        BY <1>6
      <3>2. ASSUME k = np PROVE k2 = 0
        <4> DEFINE w == np + 1
        <4>1. w \in Nat \ {0} /\ k + 1 = 1 * w + 0 /\ 0 \in 0 .. w - 1 /\ 1 \in Nat
          BY <3>1, <3>2
        <4> HIDE DEF w
        <4>2. (1 * w + 0) % w = 0
          BY <4>1, Division
        <4> QED BY <4>1, <4>2 DEF w
      <3>3. ASSUME k < np PROVE k2 = k + 1 /\ k + 1 \in 1 .. np
        <4> DEFINE w == np + 1
                   v == k + 1
        <4>1. w \in Nat \ {0} /\ v \in 0 .. w - 1 /\ v = 0 * w + v /\ 0 \in Nat /\ v \in 1 .. np
          BY <3>1, <3>3
        <4> HIDE DEF w, v
        <4>2. (0 * w + v) % w = v
          BY <4>1, Division
        <4> QED BY <4>1, <4>2 DEF w, v
      <3> QED BY <3>2, <3>3
    <2>1. CASE end
      <3>1. local = ADCLocal(k2, "entries", 0, 0, t2)
        <4>1. loaded.probe = k
          BY <1>20, ADCPhases
        <4>2. local = TurnedTo(loaded, k2)
          BY <2>1, <4>1 DEF local, TurnedTo
        <4> HIDE DEF k2, e
        <4> QED BY <1>20, <4>2, ADCMoves
      <3>2. z1 = e /\ R3 = E[g] /\ (k < np => y1 = L) /\ (k = np => y1 = 0)
        <4>1. x1 >= e /\ x1 >= L /\ x1 \in Nat /\ L \in Nat /\ e \in Nat
          BY <1>4, <1>6, <1>7, <1>11, <2>1
        <4>2. np = Q /\ k \in Nat /\ np \in Nat
          BY <1>6
        <4>3. z1 = e
          <5> HIDE DEF e, x1
          <5> QED BY <4>1
        <4>4. (k < np => y1 = L) /\ (k = np => y1 = 0)
          <5> HIDE DEF Q, x1, L
          <5> QED BY <4>1, <4>2
        <4> QED BY <1>7, <1>15, <4>3, <4>4
      <3>3. CASE k = np
        <4>1. lf2 = lf - 1 /\ k2 = 0 /\ Serves(r, h, lf2, np, n + 1) /\ Past(r, n + 1, 0) = g
          BY <1>6, <1>21, <2>0, <2>1, <3>3
        <4>2. R1 = g /\ R2 = T[g] /\ R3 = E[g]
          <5>1. R2 = T[g] + 0 /\ T[g] \in Nat
            BY <1>6, <1>15, <3>2, <3>3
          <5> HIDE DEF T, R2
          <5> QED BY <1>15, <3>2, <5>1
        <4>3. local = ADCLocal(0, "entries", 0, 0, t2)
          BY <3>1, <4>1
        <4>4. ~ (0 > 0) /\ 0 \in Nat
          OBVIOUS
        <4> DEFINE m == n + 1
        <4>5. Past(r, m, 0) = g
          BY <4>1
        <4> HIDE DEF k2, lf2, R1, R2, R3, m, g
        <4>6. DoubleAt(r, m, lf2, local, R1, R2, R3, 0, t2, 0)
          BY <1>20, <4>2, <4>3, <4>4, <4>5, Zenon DEF DoubleAt, T, E, L
        <4>7. DoubleBody(r, m, lf2, local, R1, R2, R3)
          BY <4>6, Zenon DEF DoubleBody
        <4> QED BY <4>1, <4>7 DEF m
      <3>4. CASE k < np
        <4>1. lf2 = lf /\ k2 = k + 1 /\ k2 \in 1 .. np /\ k2 # 0 /\ k2 > 0
          BY <1>6, <1>21, <2>0, <3>4
        <4>2. Past(r, n, k2) = g + 1 /\ (g + 1) - 1 = g /\ scanned_buffer(k2) = bl
          <5> HIDE DEF k2
          <5> QED BY <1>6, <1>9, <3>4, <4>1
        <4>3. R1 = g /\ R2 = T[g + 1] /\ R3 = E[g]
          <5>1. R2 = T[g] + L
            BY <1>15, <3>2, <3>4
          <5> HIDE DEF R2
          <5> QED BY <1>8, <1>15, <3>2, <3>4, <5>1
        <4>4. Filled(r, t2[bl], L, g + 1)
          BY <1>6, <1>20, <3>2, <3>4
        <4> DEFINE f == g + 1
                   c == f - 1
        <4>5. /\ lf > 0 /\ k2 \in 1 .. Q /\ 0 \in Nat /\ Past(r, n, k2) = f /\ c = g
              /\ Filled(r, t2[scanned_buffer(k2)], L, f)
              /\ R1 = c /\ R2 = T[f] /\ R3 = E[c]
          BY <1>4, <1>6, <4>1, <4>2, <4>3, <4>4
        <4>6. /\ k2 # 0 /\ local = ADCLocal(k2, "entries", 0, 0, t2)
              /\ R1 = IF k2 = 0 THEN f ELSE f - 1
              /\ E[IF k2 = 0 THEN f ELSE f - 1] = E[c]
          BY <3>1, <4>1, <4>5
        <4> HIDE DEF k2, R1, R2, R3, f, g
        <4>7. DoubleAt(r, n, lf, local, R1, R2, R3, k2, t2, 0)
          BY <1>20, <4>5, <4>6, Zenon DEF DoubleAt, T, E, L, Q
        <4>8. DoubleBody(r, n, lf, local, R1, R2, R3)
          BY <4>7, Zenon DEF DoubleBody
        <4> QED BY <1>2, <4>1, <4>8
      <3>5. k = np \/ k < np
        BY <1>6
      <3> QED BY <3>3, <3>4, <3>5
    <2>2. CASE ~ end
      <3>1. lf2 = lf
        BY <1>21, <2>2
      <3>2. local = ADCLocal(k, "both", e, x1, t2)
        <4>1. loaded.pos = x
          BY <1>20, ADCPhases
        <4>2. local = Advanced(loaded, x1)
          BY <2>2, <4>1 DEF local, Advanced
        <4> HIDE DEF x1, e
        <4> QED BY <1>20, <4>2, ADCGoesOn
      <3>3. x1 < LUT_ENTRY_NUM \/ x1 < e
        <4>1. x1 \in Nat /\ L \in Nat /\ e \in Nat /\ ~ (x1 >= e /\ x1 >= L)
          BY <1>4, <1>6, <1>7, <1>11, <2>2
        <4> HIDE DEF e, x1
        <4> QED BY <4>1
      <3>4. /\ k = 0 \/ (lf > 0 /\ k \in 1 .. Q)
            /\ lf > 0 /\ x1 \in Nat /\ y1 \in Nat /\ z1 \in Nat
            /\ \A s \in {0, 1} : DOMAIN t2[s] = 1 .. LUT_ENTRY_NUM
            /\ k > 0 => Filled(r, t2[bs], LUT_ENTRY_NUM, g)
            /\ k < Q => Filled(r, t2[bl], y1, g + 1)
        <4> HIDE DEF g, Q, y1, z1, x1
        <4> QED BY <1>4, <1>14, <1>20
      <3>5. /\ y1 = IF k = Q THEN 0 ELSE IF x1 < L THEN x1 ELSE L
            /\ z1 = IF x1 < e THEN x1 ELSE e
        OBVIOUS
      <3>6. DoubleAt(r, n, lf, local, R1, R2, R3, k, t2, x1)
        <4> HIDE DEF x1, y1, z1, R1, R2, R3
        <4> QED BY <1>15, <3>2, <3>3, <3>4, <3>5, Zenon DEF DoubleAt, g, d, e, T, E, Q, L, bl, bs
      <3> HIDE DEF R1, R2, R3, x1
      <3>7. DoubleBody(r, n, lf, local, R1, R2, R3)
        BY <3>6, Zenon DEF DoubleBody
      <3> QED BY <1>2, <3>1, <3>7
    <2> QED BY <2>1, <2>2
  <1>23. PICK a : Serves(r, h, lf2, np, a) /\ DoubleBody(r, a, lf2, local, R1, R2, R3)
    BY <1>22
  <1>24. lf2 = IF last THEN left[p] - 1 ELSE left[p]
    BY DEF lf
  <1> HIDE DEF lf2
  <1>25. /\ Transfer(takes, puts) /\ at' = [at EXCEPT ![p] = local] /\ Finish(p, last)
         /\ request' = request
    BY <1>1
  <1>26. IF r.double_buffer THEN DoubleBody(r, a, lf2, local, R1, R2, R3)
         ELSE SingleBody(r, a, lf2, local, R1, R2, R3)
    BY <1>1, <1>23
  <1>27. /\ s_PQ_codes(i) \in takes => puts[s_PQ_result(i)] = ResultOf(r, i, rd[s_PQ_codes(i)] + 1)
         /\ s_distance_LUT(i) \in takes => puts[s_distance_LUT(i + 1)] = Head(fifo[s_distance_LUT(i)])
    BY <1>13, <1>17, <1>18 DEF rc, row
  <1>28. /\ Serves(r, rd[s_batch_header(ADC(i))], lf2, nprobe[ADC(i)], a)
         /\ lf2 = IF last THEN left[ADC(i)] - 1 ELSE left[ADC(i)]
         /\ at' = [at EXCEPT ![ADC(i)] = local] /\ Finish(ADC(i), last)
    BY <1>23, <1>24, <1>25 DEF p, h, np
  <1>29. /\ R1 = Counted(Stream, rd, takes)[s_entries_ADC(i)]
         /\ R2 = Counted(Stream, rd, takes)[s_distance_LUT(i)]
         /\ R3 = Counted(Stream, rd, takes)[s_PQ_codes(i)]
    BY DEF R1, R2, R3, R
  <1> HIDE DEF R1, R2, R3
  <1>30. ADCMove(r, i, rd, takes, puts, last, local, a, lf2)
    BY <1>16, <1>19, <1>25, <1>26, <1>27, <1>28, <1>29, Zenon DEF ADCMove
  <1> QED BY <1>30, ADCStep

-----------------------------------------------------------------------------
(* The K-selection takes the results. *)

\* The rounds of query n + 1.
LEMMA QueryRounds ==
  ASSUME NEW r \in Requests, NEW n \in Nat, n + 1 \in 1 .. QueryNum(r)
  PROVE  /\ IterNum(r, n + 1) \in Nat
         /\ EntryTotal(r)[Past(r, n, 0)] \in Nat
         /\ EntryTotal(r)[Past(r, n + 1, 0)] = EntryTotal(r)[Past(r, n, 0)] + IterNum(r, n + 1)
         /\ \A x \in Nat :
              x >= EntryTotal(r)[Past(r, n, 0)] /\ x < EntryTotal(r)[Past(r, n + 1, 0)]
                => Probe(r)[Round(r)[x + 1][1]][1] = n + 1
  <1> DEFINE P == ProbeTotal(r)
             N == ProbeNum(r)
             E == EntryTotal(r)
             Q == QueryNum(r)
             np == Len(CellsOf(r, n + 1))
             a == P[n]
             m == n + 1
             b == P[m]
  <1>1. Q \in Nat /\ N \in Nat /\ n \in 0 .. Q /\ m \in 0 .. Q /\ m \in 1 .. Q /\ m - 1 = n
    BY QueryFacts, ProbeFacts
  <1>2. /\ a \in 0 .. N /\ b \in 0 .. N /\ b = a + np /\ np \in Nat
        /\ \A k \in 1 .. np : P[n] + k \in 1 .. N /\ Probe(r)[P[n] + k] = <<m, k>>
    <2> HIDE DEF P, N, Q
    <2>1. \A j \in 0 .. Q : P[j] \in 0 .. N
      BY ProbeFacts DEF P, N, Q
    <2>2. P[m] = P[m - 1] + Len(CellsOf(r, m))
      <3> HIDE DEF m
      <3> QED BY <1>1, ProbeFacts DEF P, Q
    <2>3. Len(CellsOf(r, m)) \in Nat
      <3> HIDE DEF m
      <3> QED BY <1>1, CellsFacts DEF Q
    <2>4. \A k \in 1 .. Len(CellsOf(r, m)) :
            P[m - 1] + k \in 1 .. N /\ Probe(r)[P[m - 1] + k] = <<m, k>>
      <3> HIDE DEF m
      <3> QED BY <1>1, ProbeFacts DEF P, N, Q
    <2> HIDE DEF m
    <2>5. np = Len(CellsOf(r, m))
      BY DEF m
    <2> QED BY <1>1, <2>1, <2>2, <2>3, <2>4, <2>5
  <1>3. /\ \A g \in 0 .. N : E[g] \in Nat
        /\ \A f, g \in 0 .. N : f <= g => E[f] <= E[g]
        /\ \A g \in 1 .. N : E[g] = E[g - 1] + Entries(r, g)
        /\ \A g \in 1 .. N : \A k \in 1 .. Entries(r, g) : Round(r)[E[g - 1] + k] = <<g, k>>
        /\ \A x \in 1 .. E[N] : \E g \in 1 .. N : \E k \in 1 .. Entries(r, g) : x = E[g - 1] + k
    BY RoundFacts
  <1>4. Past(r, n, 0) = a /\ Past(r, n + 1, 0) = b
    BY <1>2 DEF Past
  <1>5. IterNum(r, n + 1) = E[b] - E[a]
    <2>1. IterNum(r, m) = E[P[m]] - E[P[m - 1]]
      BY DEF IterNum
    <2> HIDE DEF m
    <2>2. IterNum(r, m) = E[b] - E[a]
      BY <1>1, <2>1
    <2> QED BY <2>2 DEF m
  <1> HIDE DEF P, N, E, Q, np, a, b, m
  <1>6. a <= b /\ E[a] \in Nat /\ E[b] \in Nat /\ E[a] <= E[b] /\ E[b] <= E[N]
    <2>1. a <= b /\ b <= N /\ N \in 0 .. N
      BY <1>1, <1>2
    <2> QED BY <1>2, <1>3, <2>1
  <1>7. ASSUME NEW x \in Nat, x >= E[a], x < E[b]
        PROVE  Probe(r)[Round(r)[x + 1][1]][1] = m
    <2> DEFINE u == x + 1
    <2>1. u \in 1 .. E[N] /\ u > E[a] /\ u <= E[b]
      <3>1. E[N] \in Nat
        BY <1>1, <1>3
      <3> HIDE DEF E
      <3> QED BY <1>6, <1>7, <3>1
    <2> HIDE DEF u
    <2>2. PICK g \in 1 .. N : \E k \in 1 .. Entries(r, g) : u = E[g - 1] + k
      BY <1>3, <2>1
    <2>3. PICK k \in 1 .. Entries(r, g) : u = E[g - 1] + k
      BY <2>2
    <2>4. Round(r)[u] = <<g, k>>
      BY <1>3, <2>3
    <2>5. /\ g - 1 \in 0 .. N /\ g \in 0 .. N /\ E[g - 1] \in Nat /\ E[g] \in Nat
          /\ E[g - 1] < u /\ u <= E[g]
      <3>1. g - 1 \in 0 .. N /\ g \in 0 .. N /\ g \in Nat
        BY <1>1
      <3>2. E[g - 1] \in Nat /\ E[g] \in Nat /\ E[g] = E[g - 1] + Entries(r, g)
        BY <1>3, <3>1
      <3>3. Entries(r, g) \in Nat
        BY ProbedFacts DEF N
      <3> QED BY <2>3, <3>1, <3>2, <3>3
    <2>6. g > a
      <3> SUFFICES ASSUME g <= a PROVE FALSE
        BY <1>2, <2>5
      <3>1. E[g] <= E[a]
        BY <1>2, <1>3, <2>5
      <3> QED BY <1>6, <2>1, <2>5, <3>1
    <2>7. g <= b
      <3> SUFFICES ASSUME g - 1 >= b PROVE FALSE
        BY <1>2, <2>5
      <3>1. E[b] <= E[g - 1]
        BY <1>2, <1>3, <2>5
      <3> QED BY <1>6, <2>1, <2>5, <3>1
    <2>8. g - a \in 1 .. np /\ a + (g - a) = g
      BY <1>1, <1>2, <2>6, <2>7
    <2>9. Probe(r)[g] = <<m, g - a>>
      <3> DEFINE j == g - a
      <3>1. j \in 1 .. np /\ P[n] + j = g
        BY <2>8 DEF a
      <3> HIDE DEF j
      <3>2. Probe(r)[g] = <<m, j>>
        BY <1>2, <3>1
      <3> QED BY <3>2 DEF j
    <2>10. Round(r)[x + 1] = <<g, k>>
      BY <2>4 DEF u
    <2> QED BY <2>9, <2>10
  <1>8. IterNum(r, n + 1) \in Nat /\ E[b] = E[a] + IterNum(r, n + 1)
    BY <1>5, <1>6
  <1> QED BY <1>4, <1>6, <1>7, <1>8 DEF E, m

\* The number of results of a query.
LEMMA SelectQueryStep ==
  ASSUME NEW r, NEW rd, NEW wr, At(r, rd, wr), select_query
  PROVE  ScanInv'
  <1> DEFINE p == K_selection
             h == rd[s_batch_header(p)]
             lf == left[p]
             l == at[p]
             np == nprobe[p]
             v == Head(fifo[s_control_iter_num])
             takes == {s_control_iter_num}
             puts == Nothing
             R == Counted(Stream, rd, takes)
             W == Counted(Stream, wr, DOMAIN puts)
             last == v = 0
             next == [l EXCEPT !.query = @ + 1]
             filled == [l EXCEPT !.todo = [i \in PE |-> v]]
             local == IF v = 0 THEN next ELSE filled
  <1>1. p \in Stages
    BY StagesAre
  <1>2. PICK n : r \in Requests /\ Serves(r, h, lf, np, n) /\ SelectBody(r, n, lf, l, rd, wr)
    BY <1>1, StageAt, Bodies
  <1>3. /\ lf > 0 /\ \A i \in PE : l.todo[i] = 0
        /\ fifo[s_control_iter_num] # <<>> /\ Transfer(takes, puts)
        /\ at' = [at EXCEPT ![p] = local] /\ Finish(p, last) /\ request' = request
    BY DEF select_query, SetAt, NextQuery
  <1> DEFINE E == EntryTotal(r)
  <1>4. PICK todo :
          /\ l = [query |-> n + 1, todo |-> todo] /\ DOMAIN todo = PE
          /\ \A i \in PE : wr[s_selected(i)] = rd[s_PQ_result(i)] /\ rd[s_selected(i)] = 0
          /\ rd[s_control_iter_num] = n
          /\ \A i \in PE : todo[i] = 0 /\ rd[s_PQ_result(i)] = E[Past(r, n, 0)]
    <2>1. PICK todo :
            /\ l = [query |-> n + 1, todo |-> todo] /\ DOMAIN todo = PE
            /\ \A i \in PE : wr[s_selected(i)] = rd[s_PQ_result(i)] /\ rd[s_selected(i)] = 0
            /\ \/ /\ rd[s_control_iter_num] = n
                  /\ \A i \in PE : todo[i] = 0 /\ rd[s_PQ_result(i)] = EntryTotal(r)[Past(r, n, 0)]
               \/ /\ lf > 0 /\ rd[s_control_iter_num] = n + 1
                  /\ \A i \in PE : /\ todo[i] \in 0 .. IterNum(r, n + 1)
                                   /\ rd[s_PQ_result(i)] + todo[i] = EntryTotal(r)[Past(r, n + 1, 0)]
                  /\ \E i \in PE : todo[i] # 0
      BY <1>2, Zenon DEF SelectBody
    <2>2. l.todo = todo
      BY <2>1
    <2>3. \A i \in PE : todo[i] = 0
      BY <1>3, <2>2
    <2> HIDE DEF l, lf
    <2> QED BY <2>1, <2>3
  <1>5. /\ n \in Nat /\ n + 1 \in 1 .. QueryNum(r) /\ Serves(r, h, lf - 1, np, n + 1)
    <2>1. Served(r, h, lf, np, n)
      BY <1>2, Serving
    <2> QED BY <1>3, <2>1 DEF Served
  <1>6. /\ IterNum(r, n + 1) \in Nat /\ E[Past(r, n, 0)] \in Nat
        /\ E[Past(r, n + 1, 0)] = E[Past(r, n, 0)] + IterNum(r, n + 1)
    BY <1>2, <1>5, QueryRounds
  <1>7. v = IterNum(r, n + 1)
    <2> DEFINE x == n + 1
    <2>1. x \in Nat /\ rd[s_control_iter_num] + 1 = x
      BY <1>4, <1>5
    <2> HIDE DEF x
    <2>2. History(r)[s_control_iter_num][x] = IterNum(r, x)
      BY <2>1, Values
    <2>3. v = History(r)[s_control_iter_num][rd[s_control_iter_num] + 1]
      BY <1>3, Reading, Wiring
    <2> QED BY <2>1, <2>2, <2>3 DEF x
  <1>8. /\ takes \in SUBSET Stream /\ DOMAIN puts = {}
        /\ DOMAIN puts \in SUBSET Stream /\ \A c \in takes : Reader(c) = p /\ c[1] # "s_batch_header"
        /\ \A c \in DOMAIN puts : Writer(c) = p /\ puts[c] = History(r)[c][wr[c] + 1]
    BY Wiring DEF ToAll, Nothing, s_control_iter_num
  <1>9. /\ Moves(p) /\ at'[p] = local /\ nprobe'[p] = nprobe[p]
        /\ left'[p] = IF last THEN left[p] - 1 ELSE left[p]
    <2>1. at' = [at EXCEPT ![p] = local] /\ Finish(p, last) /\ request' = request
      BY <1>3
    <2> HIDE DEF local, p, last
    <2> QED BY <1>1, <2>1, FinishMoves, StagesAre
  <1>10. /\ R[s_control_iter_num] = n + 1
         /\ \A i \in PE : /\ R[s_PQ_result(i)] = rd[s_PQ_result(i)]
                          /\ R[s_selected(i)] = 0 /\ W[s_selected(i)] = wr[s_selected(i)]
    <2>1. \A i \in PE : s_PQ_result(i) \notin takes /\ s_selected(i) \notin takes
      BY DEF s_PQ_result, s_selected, s_control_iter_num
    <2> QED BY <1>4, <1>8, <2>1, Wiring, PEWiring DEF Counted
  <1>11. next = [query |-> (n + 1) + 1, todo |-> todo] /\ filled = [query |-> n + 1, todo |-> [i \in PE |-> v]]
    <2> HIDE DEF v, l
    <2> QED BY <1>4
  <1> HIDE DEF p, h, lf, l, np, v, takes, puts, R, W, last, next, filled, local, E
  <1>12. \E m : /\ Serves(r, h, left'[p], np, m) /\ SelectBody(r, m, left'[p], at'[p], R, W)
    <2>1. CASE v = 0
      <3> DEFINE m == n + 1
                 x == m + 1
      <3>1. left'[p] = lf - 1 /\ at'[p] = [query |-> x, todo |-> todo]
        BY <1>9, <1>11, <2>1 DEF last, local, lf
      <3>2. Past(r, m, 0) = Past(r, m, 0) /\ E[Past(r, m, 0)] = E[Past(r, n, 0)]
        BY <1>6, <1>7, <2>1
      <3> HIDE DEF m
      <3>3. R[s_control_iter_num] = m
        BY <1>10 DEF m
      <3>4. \A i \in PE : /\ W[s_selected(i)] = R[s_PQ_result(i)] /\ R[s_selected(i)] = 0
                          /\ todo[i] = 0 /\ R[s_PQ_result(i)] = E[Past(r, m, 0)]
        BY <1>4, <1>10, <3>2
      <3>5. SelectBody(r, m, left'[p], at'[p], R, W)
        BY <1>4, <3>1, <3>3, <3>4, Zenon DEF SelectBody, E
      <3>6. Serves(r, h, lf - 1, np, m)
        BY <1>5 DEF m
      <3> QED BY <3>1, <3>5, <3>6
    <2>2. CASE v # 0
      <3> DEFINE t2 == [i \in PE |-> v]
      <3>1. left'[p] = lf /\ at'[p] = [query |-> n + 1, todo |-> t2]
        BY <1>9, <1>11, <2>2 DEF last, local, lf
      <3>2. DOMAIN t2 = PE /\ \A i \in PE : t2[i] = v
        OBVIOUS
      <3> HIDE DEF t2
      <3>3. \A i \in PE : /\ t2[i] \in 0 .. IterNum(r, n + 1)
                          /\ R[s_PQ_result(i)] + t2[i] = E[Past(r, n + 1, 0)]
                          /\ W[s_selected(i)] = R[s_PQ_result(i)] /\ R[s_selected(i)] = 0
        BY <1>4, <1>6, <1>7, <1>10, <3>2
      <3>4. \E i \in PE : t2[i] # 0
        BY <2>2, <3>2, Distinct
      <3>5. SelectBody(r, n, lf, [query |-> n + 1, todo |-> t2], R, W)
        BY <1>3, <1>10, <3>2, <3>3, <3>4, Zenon DEF SelectBody, E
      <3> QED BY <1>2, <3>1, <3>5
    <2> QED BY <2>1, <2>2
  <1>13. PICK m : Serves(r, h, left'[p], np, m) /\ SelectBody(r, m, left'[p], at'[p], R, W)
    BY <1>12
  <1>14. StageBody(r, p, m, left'[p], at'[p], R, W)
    BY <1>13, Bodies DEF p
  <1>15. Serves(r, rd[s_batch_header(p)], left'[p], nprobe[p], m)
    BY <1>13 DEF h, np
  <1> QED BY <1>1, <1>3, <1>8, <1>9, <1>14, <1>15, StageStep DEF R, W

\* A result of query n + 1 of PE i.
LEMMA SelectResultStep ==
  ASSUME NEW r, NEW rd, NEW wr, At(r, rd, wr), NEW i \in PE, select_result(i)
  PROVE  ScanInv'
  <1> DEFINE p == K_selection
             h == rd[s_batch_header(p)]
             lf == left[p]
             l == at[p]
             np == nprobe[p]
             v == [query |-> l.query, result |-> Head(fifo[s_PQ_result(i)])]
             takes == {s_PQ_result(i)}
             puts == To(s_selected(i), v)
             R == Counted(Stream, rd, takes)
             W == Counted(Stream, wr, DOMAIN puts)
             taken == [l EXCEPT !.todo[i] = @ - 1]
             last == \A j \in PE : taken.todo[j] = 0
             next == [taken EXCEPT !.query = @ + 1]
             local == IF last THEN next ELSE taken
             E == EntryTotal(r)
  <1>1. p \in Stages
    BY StagesAre
  <1>2. PICK n : r \in Requests /\ Serves(r, h, lf, np, n) /\ SelectBody(r, n, lf, l, rd, wr)
    BY <1>1, StageAt, Bodies
  <1>3. /\ l.todo[i] > 0
        /\ fifo[s_PQ_result(i)] # <<>> /\ Transfer(takes, puts)
        /\ at' = [at EXCEPT ![p] = local] /\ Finish(p, last) /\ request' = request
    BY DEF select_result, SetAt, NextQuery
  <1>4. PICK todo :
          /\ l = [query |-> n + 1, todo |-> todo] /\ DOMAIN todo = PE
          /\ \A j \in PE : wr[s_selected(j)] = rd[s_PQ_result(j)] /\ rd[s_selected(j)] = 0
          /\ lf > 0 /\ rd[s_control_iter_num] = n + 1
          /\ \A j \in PE : /\ todo[j] \in 0 .. IterNum(r, n + 1)
                           /\ rd[s_PQ_result(j)] + todo[j] = E[Past(r, n + 1, 0)]
          /\ todo[i] > 0
    <2>1. PICK todo :
            /\ l = [query |-> n + 1, todo |-> todo] /\ DOMAIN todo = PE
            /\ \A j \in PE : wr[s_selected(j)] = rd[s_PQ_result(j)] /\ rd[s_selected(j)] = 0
            /\ \/ /\ rd[s_control_iter_num] = n
                  /\ \A j \in PE : todo[j] = 0 /\ rd[s_PQ_result(j)] = EntryTotal(r)[Past(r, n, 0)]
               \/ /\ lf > 0 /\ rd[s_control_iter_num] = n + 1
                  /\ \A j \in PE : /\ todo[j] \in 0 .. IterNum(r, n + 1)
                                   /\ rd[s_PQ_result(j)] + todo[j] = EntryTotal(r)[Past(r, n + 1, 0)]
                  /\ \E j \in PE : todo[j] # 0
      BY <1>2, Zenon DEF SelectBody
    <2>2. l.todo = todo
      BY <2>1
    <2>3. todo[i] > 0 /\ todo[i] # 0
      <3>1. todo[i] > 0
        BY <1>3, <2>2
      <3>2. ~ (0 > 0)
        OBVIOUS
      <3> QED BY <3>1, <3>2
    <2> HIDE DEF l, lf
    <2> QED BY <2>1, <2>3
  <1>5. /\ n \in Nat /\ n + 1 \in 1 .. QueryNum(r) /\ Serves(r, h, lf - 1, np, n + 1)
    <2>1. Served(r, h, lf, np, n)
      BY <1>2, Serving
    <2> QED BY <1>4, <2>1 DEF Served
  <1> DEFINE I == IterNum(r, n + 1)
             E0 == E[Past(r, n, 0)]
             E1 == E[Past(r, n + 1, 0)]
             x == rd[s_PQ_result(i)]
  <1>6. I \in Nat /\ E0 \in Nat /\ E1 = E0 + I
    BY <1>2, <1>5, QueryRounds
  <1>7. x \in Nat /\ x >= E0 /\ x < E1
    <2>1. x \in Nat
      BY Reading, PEWiring
    <2>2. todo[i] \in 0 .. I /\ x + todo[i] = E1 /\ todo[i] > 0
      BY <1>4
    <2> HIDE DEF x, E0, E1, I
    <2> QED BY <1>6, <2>1, <2>2
  <1>8. v = History(r)[s_selected(i)][wr[s_selected(i)] + 1]
    <2> DEFINE u == x + 1
    <2>1. u \in Nat /\ wr[s_selected(i)] + 1 = u /\ rd[s_PQ_result(i)] + 1 = u
      BY <1>4, <1>7
    <2>2. Probe(r)[Round(r)[u][1]][1] = n + 1
      <3> HIDE DEF x
      <3> QED BY <1>2, <1>5, <1>7, QueryRounds
    <2> HIDE DEF u
    <2>3. /\ History(r)[s_PQ_result(i)][u] = ResultOf(r, i, u)
          /\ History(r)[s_selected(i)][u] =
               [query |-> Probe(r)[Round(r)[u][1]][1], result |-> ResultOf(r, i, u)]
      BY <2>1, PEValues
    <2>4. Head(fifo[s_PQ_result(i)]) = ResultOf(r, i, u)
      BY <1>3, <2>1, <2>3, Reading, PEWiring
    <2>5. l.query = n + 1
      BY <1>4
    <2> QED BY <2>1, <2>2, <2>3, <2>4, <2>5
  <1>9. /\ takes \in SUBSET Stream /\ DOMAIN puts = {s_selected(i)}
        /\ DOMAIN puts \in SUBSET Stream /\ \A c \in takes : Reader(c) = p /\ c[1] # "s_batch_header"
        /\ \A c \in DOMAIN puts : Writer(c) = p /\ puts[c] = v
    <2> HIDE DEF v
    <2> QED BY PEWiring DEF To, ToAll, s_PQ_result
  <1>10. \A c \in DOMAIN puts : puts[c] = History(r)[c][wr[c] + 1]
    <2> HIDE DEF v, puts
    <2> QED BY <1>8, <1>9
  <1>11. /\ Moves(p) /\ at'[p] = local /\ nprobe'[p] = nprobe[p]
         /\ left'[p] = IF last THEN left[p] - 1 ELSE left[p]
    <2>1. at' = [at EXCEPT ![p] = local] /\ Finish(p, last) /\ request' = request
      BY <1>3
    <2> HIDE DEF local, p, last
    <2> QED BY <1>1, <2>1, FinishMoves, StagesAre
  <1>12. /\ R[s_control_iter_num] = n + 1
         /\ \A j \in PE : /\ R[s_PQ_result(j)] = (IF j = i THEN rd[s_PQ_result(j)] + 1 ELSE rd[s_PQ_result(j)])
                          /\ W[s_selected(j)] = R[s_PQ_result(j)] /\ R[s_selected(j)] = 0
    <2>1. \A j \in PE : /\ s_selected(j) \notin takes /\ (s_PQ_result(j) \in takes <=> j = i)
                        /\ (s_selected(j) \in DOMAIN puts <=> j = i)
      BY <1>9 DEF s_PQ_result, s_selected
    <2>2. s_control_iter_num \notin takes
      BY DEF s_PQ_result, s_control_iter_num
    <2> HIDE DEF takes, puts
    <2>3. \A j \in PE : R[s_PQ_result(j)] = (IF j = i THEN rd[s_PQ_result(j)] + 1 ELSE rd[s_PQ_result(j)])
      BY <2>1, PEWiring DEF Counted
    <2>4. \A j \in PE : W[s_selected(j)] = (IF j = i THEN wr[s_selected(j)] + 1 ELSE wr[s_selected(j)])
      BY <2>1, PEWiring DEF Counted
    <2>5. R[s_control_iter_num] = n + 1 /\ \A j \in PE : R[s_selected(j)] = 0
      BY <1>4, <2>1, <2>2, PEWiring, Wiring DEF Counted
    <2> HIDE DEF R, W
    <2> QED BY <1>4, <2>3, <2>4, <2>5
  <1> DEFINE t2 == [todo EXCEPT ![i] = @ - 1]
  <1>13. taken = [query |-> n + 1, todo |-> t2] /\ next = [query |-> (n + 1) + 1, todo |-> t2]
    <2> DEFINE w == taken
    <2>1. w = [l EXCEPT !.todo = [l.todo EXCEPT ![i] = l.todo[i] - 1]]
      OBVIOUS
    <2>2. l.todo = todo
      BY <1>4
    <2> HIDE DEF t2, l, w
    <2>3. w = [l EXCEPT !.todo = t2]
      BY <2>1, <2>2 DEF t2
    <2>4. w = [query |-> n + 1, todo |-> t2]
      BY <1>4, <2>3
    <2>5. next = [w EXCEPT !.query = @ + 1]
      BY DEF w
    <2> HIDE DEF next
    <2> QED BY <2>4, <2>5 DEF w
  <1>14. /\ DOMAIN t2 = PE
         /\ \A j \in PE : t2[j] \in 0 .. I /\ R[s_PQ_result(j)] + t2[j] = E1
    <2>1. DOMAIN t2 = PE /\ \A j \in PE : t2[j] = IF j = i THEN todo[j] - 1 ELSE todo[j]
      BY <1>4
    <2>2. \A j \in PE : todo[j] \in 0 .. I /\ rd[s_PQ_result(j)] + todo[j] = E1 /\ rd[s_PQ_result(j)] \in Nat
      BY <1>4, Reading, PEWiring
    <2>3. todo[i] > 0
      BY <1>4
    <2> HIDE DEF t2, R, I, E1
    <2> QED BY <1>6, <1>12, <2>1, <2>2, <2>3
  <1>15. last <=> \A j \in PE : t2[j] = 0
    <2>1. taken.todo = t2
      <3> HIDE DEF taken, t2
      <3> QED BY <1>13
    <2> HIDE DEF taken, t2
    <2> QED BY <2>1
  <1> HIDE DEF p, h, lf, l, np, v, takes, puts, R, W, last, next, taken, local, E, t2, I, x
  <1>16. \E m : /\ Serves(r, h, left'[p], np, m) /\ SelectBody(r, m, left'[p], at'[p], R, W)
    <2>1. CASE last
      <3> DEFINE m == n + 1
                 y == m + 1
      <3>1. left'[p] = lf - 1 /\ at'[p] = [query |-> y, todo |-> t2]
        BY <1>11, <1>13, <2>1 DEF local, lf
      <3>2. E1 = E[Past(r, m, 0)] /\ R[s_control_iter_num] = m /\ Serves(r, h, lf - 1, np, m)
        BY <1>5, <1>12
      <3> HIDE DEF m, E0, E1
      <3>3. \A j \in PE : /\ W[s_selected(j)] = R[s_PQ_result(j)] /\ R[s_selected(j)] = 0
                          /\ t2[j] = 0 /\ R[s_PQ_result(j)] = E[Past(r, m, 0)]
        <4>1. \A j \in PE : R[s_PQ_result(j)] \in Nat
          <5>1. \A j \in PE : rd[s_PQ_result(j)] \in Nat
            BY Reading, PEWiring
          <5> QED BY <1>12, <5>1
        <4>2. \A j \in PE : t2[j] = 0 /\ R[s_PQ_result(j)] + t2[j] = E1
          BY <1>14, <1>15, <2>1
        <4>3. \A j \in PE : R[s_PQ_result(j)] = E1
          BY <4>1, <4>2
        <4> QED BY <1>12, <3>2, <4>2, <4>3
      <3>4. SelectBody(r, m, left'[p], at'[p], R, W)
        BY <1>14, <3>1, <3>2, <3>3, Zenon DEF SelectBody, E
      <3> QED BY <3>1, <3>2, <3>4
    <2>2. CASE ~ last
      <3>1. left'[p] = lf /\ at'[p] = [query |-> n + 1, todo |-> t2]
        BY <1>11, <1>13, <2>2 DEF local, lf
      <3>2. \E j \in PE : t2[j] # 0
        BY <1>15, <2>2
      <3>3. SelectBody(r, n, lf, [query |-> n + 1, todo |-> t2], R, W)
        BY <1>4, <1>12, <1>14, <3>2, Zenon DEF SelectBody, E, E1, I
      <3> QED BY <1>2, <3>1, <3>3
    <2> QED BY <2>1, <2>2
  <1>17. PICK m : Serves(r, h, left'[p], np, m) /\ SelectBody(r, m, left'[p], at'[p], R, W)
    BY <1>16
  <1>18. StageBody(r, p, m, left'[p], at'[p], R, W)
    BY <1>17, Bodies DEF p
  <1>19. Serves(r, rd[s_batch_header(p)], left'[p], nprobe[p], m)
    BY <1>17 DEF h, np
  <1> QED BY <1>1, <1>3, <1>9, <1>10, <1>11, <1>18, <1>19, StageStep DEF R, W

-----------------------------------------------------------------------------
(* The invariant holds at first, and every step keeps it. *)

\* Nothing has been read, and only the input is there.
Fresh(r, rd, wr) ==
  /\ \A c \in Stream : rd[c] = 0
  /\ \A c \in Stream \ {s_kernel_network_in} : wr[c] = 0
  /\ wr[s_kernel_network_in] = BatchNum(r) + 1 + WordTotal(r)[QueryNum(r)]

\* Nothing has been read at first.
LEMMA Zero ==
  ASSUME NEW r \in Requests
  PROVE  /\ Serves(r, 0, 0, 0, 0) /\ Spot(r, 0, 0) /\ Past(r, 0, 0) = 0
         /\ WordTotal(r)[0] = 0 /\ EntryTotal(r)[0] = 0 /\ RowTotal(r)[0] = 0
  <1>1. /\ WordTotal(r)[0] = 0 /\ EntryTotal(r)[0] = 0 /\ RowTotal(r)[0] = 0
        /\ ProbeTotal(r)[0] = 0 /\ QueryTotal(r)[0] = 0
    BY WordFacts, RoundFacts, RowFacts, ProbeFacts, QueryFacts
  <1>2. BatchNum(r) \in Nat /\ Size(r, 0) \in Nat
    BY Batches
  <1>3. Past(r, 0, 0) = 0
    BY <1>1 DEF Past
  <1>4. ~ (0 > 0) /\ 0 \in 0 .. BatchNum(r) + 1 /\ 0 \in 0 .. Size(r, 0) /\ 0 = QueryTotal(r)[0] - 0
    BY <1>1, <1>2
  <1>5. Serves(r, 0, 0, 0, 0)
    BY <1>4 DEF Serves
  <1> QED BY <1>1, <1>3, <1>5 DEF Spot

NoRows == [s \in {0, 1} |-> [k \in 1 .. LUT_ENTRY_NUM |-> NoRow]]

\* The local data of each process at first.
LEMMA Locals ==
  /\ Local(network_input) = [phase |-> "cells", pos |-> 0, word |-> <<>>]
  /\ Local(LUT_construction) = [phase |-> "query", source |-> NoRow, probe |-> 0, row |-> 0]
  /\ Local(get_cell) = [addr |-> <<>>, vecs |-> <<>>, probe |-> 0, iter_num |-> 0]
  /\ Local(load_codes) = [probe |-> 0, round |-> 0, cell |-> [rounds |-> 0]]
  /\ \A i \in PE : Local(ADC(i)) = [probe |-> 0, phase |-> "entries", entries |-> 0, pos |-> 0, LUT |-> NoRows]
  /\ Local(K_selection) = [query |-> 1, todo |-> [i \in PE |-> 0]]
  /\ \A p \in {load_meta, replicate_cell, replicate_entries} : Local(p) = [pos |-> 0]
  <1>1. /\ network_input[1] = "network_input" /\ LUT_construction[1] = "LUT_construction"
        /\ get_cell[1] = "get_cell" /\ load_codes[1] = "load_codes" /\ K_selection[1] = "K_selection"
        /\ load_meta[1] = "load_meta" /\ replicate_cell[1] = "replicate_cell"
        /\ replicate_entries[1] = "replicate_entries" /\ \A i \in PE : ADC(i)[1] = "ADC"
    BY DEF network_input, load_meta, LUT_construction, replicate_cell, get_cell,
           replicate_entries, load_codes, ADC, K_selection
  <1> QED BY <1>1 DEF Local, NoRows

\* Each process is at its first place.
LEMMA FreshBody ==
  ASSUME NEW r \in Requests, NEW rd, NEW wr, Fresh(r, rd, wr), NEW p \in Stages
  PROVE  StageBody(r, p, 0, 0, Local(p), rd, wr)
  <1>0. \A c \in Stream \ {s_kernel_network_in} : rd[c] = 0 /\ wr[c] = 0
    BY DEF Fresh
  <1>1. CellBody(r, 0, Local(replicate_cell), rd, wr)
    <2>1. /\ rd[s_cell_ID] = 0 /\ wr[s_cell_ID_get] = 0 /\ wr[s_cell_ID_load] = 0
      BY <1>0, Wiring DEF s_cell_ID, s_cell_ID_get, s_cell_ID_load, s_kernel_network_in
    <2> QED BY <2>1, Zero, Locals DEF CellBody
  <1>2. GetCellBody(r, 0, 0, Local(get_cell), rd, wr)
    <2>1. /\ rd[s_nlist_start_addr] = 0 /\ rd[s_nlist_num_vecs] = 0 /\ rd[s_cell_ID_get] = 0
          /\ wr[s_scanned_entries] = 0 /\ wr[s_last_valid_PE_ID] = 0 /\ wr[s_start_addr] = 0
          /\ wr[s_control_iter_num] = 0
      BY <1>0, Wiring DEF s_nlist_start_addr, s_nlist_num_vecs, s_cell_ID_get, s_scanned_entries,
         s_last_valid_PE_ID, s_start_addr, s_control_iter_num, s_kernel_network_in
    <2>2. Tables(<<>>, <<>>, 0) /\ 0 \in 0 .. nlist /\ ~ (0 > 0)
      <3>1. IsSequence(<<>>)
        BY DEF IsSequence
      <3> QED BY <3>1, Positive DEF Tables
    <2> DEFINE it == EntryTotal(r)[Past(r, 0, 0)] - EntryTotal(r)[Past(r, 0, 0)]
    <2>3. it = 0
      BY Zero
    <2>4. Local(get_cell) = [addr |-> <<>>, vecs |-> <<>>, probe |-> 0, iter_num |-> it]
      BY <2>3, Locals
    <2>5. Past(r, 0, 0) = 0
      BY Zero
    <2>6. \E m \in 0 .. nlist :
            /\ Local(get_cell) = [addr |-> <<>>, vecs |-> <<>>, probe |-> 0, iter_num |-> it]
            /\ Tables(<<>>, <<>>, m) /\ (0 > 0 => m = nlist)
            /\ rd[s_nlist_start_addr] = m /\ rd[s_nlist_num_vecs] = m
            /\ 0 = 0 \/ (0 > 0 /\ 0 \in 1 .. Len(CellsOf(r, 0 + 1)))
            /\ rd[s_cell_ID_get] = Past(r, 0, 0) /\ wr[s_scanned_entries] = Past(r, 0, 0)
            /\ wr[s_last_valid_PE_ID] = Past(r, 0, 0) /\ wr[s_start_addr] = Past(r, 0, 0)
            /\ wr[s_control_iter_num] = 0
      <3> HIDE DEF it
      <3> QED BY <2>1, <2>2, <2>4, <2>5, Zenon
    <2> QED BY <2>6, Zenon DEF GetCellBody
  <1>3. EntriesBody(r, 0, Local(replicate_entries), rd, wr)
    <2>1. /\ rd[s_scanned_entries] = 0 /\ wr[s_entries_load] = 0
          /\ \A i \in PE : wr[s_entries_ADC(i)] = 0
      BY <1>0, Wiring, PEWiring DEF s_scanned_entries, s_entries_load, s_entries_ADC, s_kernel_network_in
    <2> QED BY <2>1, Zero, Locals DEF EntriesBody
  <1>4. LoadBody(r, 0, 0, Local(load_codes), rd, wr)
    <2>1. /\ rd[s_cell_ID_load] = 0 /\ rd[s_entries_load] = 0
          /\ rd[s_last_valid_PE_ID] = 0 /\ rd[s_start_addr] = 0
          /\ \A i \in PE : wr[s_PQ_codes(i)] = 0
      BY <1>0, Wiring, PEWiring DEF s_cell_ID_load, s_entries_load, s_last_valid_PE_ID, s_start_addr,
         s_PQ_codes, s_kernel_network_in
    <2>2. Loads(rd, Past(r, 0, 0)) /\ \A i \in PE : wr[s_PQ_codes(i)] = EntryTotal(r)[Past(r, 0, 0)]
      BY <2>1, Zero DEF Loads
    <2> DEFINE c == [rounds |-> 0]
    <2>3. Local(load_codes) = [probe |-> 0, round |-> 0, cell |-> c] /\ c.rounds = 0
      BY Locals
    <2> HIDE DEF c
    <2> QED BY <2>2, <2>3, Zero, Zenon DEF LoadBody
  <1>5. LUTBody(r, 0, 0, Local(LUT_construction), rd[s_query_vectors], rd[s_center_vectors],
                wr[s_distance_LUT(0)])
    <2>1. rd[s_query_vectors] = 0 /\ rd[s_center_vectors] = 0 /\ wr[s_distance_LUT(0)] = 0
      BY <1>0, Wiring, EndWiring DEF s_query_vectors, s_center_vectors, s_distance_LUT, s_kernel_network_in
    <2> DEFINE q == <<>>
               c == <<>>
    <2>2. NoRow = [query |-> q, center |-> c]
      BY DEF NoRow
    <2>3. 0 \in 0 .. LUT_ENTRY_NUM - 1 /\ 0 = 0 + 0
      BY Positive
    <2> HIDE DEF q, c
    <2>4. LUTAt(r, 0, 0, Local(LUT_construction), 0, 0, 0, 0, q, c, 0)
      <3>1. Local(LUT_construction) = [phase |-> "query", source |-> [query |-> q, center |-> c],
                                       probe |-> 0, row |-> 0]
        BY <2>2, Locals
      <3>2. 0 = RowTotal(r)[Past(r, 0, 0)] + 0 /\ 0 = Past(r, 0, 0)
        BY Zero
      <3> QED BY <2>3, <3>1, <3>2, Zero, Zenon DEF LUTAt
    <2> QED BY <2>1, <2>4, Zenon DEF LUTBody
  <1>6. ASSUME NEW i \in PE PROVE ADCBody(r, i, 0, 0, Local(ADC(i)), rd, wr)
    <2>1. /\ rd[s_entries_ADC(i)] = 0 /\ rd[s_distance_LUT(i)] = 0 /\ rd[s_PQ_codes(i)] = 0
          /\ wr[s_distance_LUT(i + 1)] = 0 /\ wr[s_PQ_result(i)] = 0
      BY <1>0, PEWiring DEF s_entries_ADC, s_distance_LUT, s_PQ_codes, s_PQ_result, s_kernel_network_in
    <2> DEFINE t == NoRows
               l == Local(ADC(i))
    <2>2. l = ADCLocal(0, "entries", 0, 0, t) /\ \A s \in {0, 1} : DOMAIN t[s] = 1 .. LUT_ENTRY_NUM
      <3>1. [s \in {0, 1} |-> t[s]] = t
        BY DEF NoRows
      <3> QED BY <3>1, Locals DEF ADCLocal, NoRows
    <2>3. /\ Spot(r, 0, 0) /\ 0 \in Nat /\ Past(r, 0, 0) = 0 /\ ~ (0 > 0)
          /\ RowTotal(r)[0] = 0 /\ EntryTotal(r)[0] = 0
      BY Zero
    <2> HIDE DEF t, l
    <2>4. SingleAt(r, 0, 0, l, 0, 0, 0, 0, t, 0)
      BY <2>2, <2>3, Zenon DEF SingleAt
    <2>5. DoubleAt(r, 0, 0, l, 0, 0, 0, 0, t, 0)
      BY <2>2, <2>3, Zenon DEF DoubleAt
    <2>6. SingleBody(r, 0, 0, l, 0, 0, 0) /\ DoubleBody(r, 0, 0, l, 0, 0, 0)
      BY <2>4, <2>5, Zenon DEF SingleBody, DoubleBody
    <2> QED BY <2>1, <2>6 DEF ADCBody, l
  <1>7. SelectBody(r, 0, 0, Local(K_selection), rd, wr)
    <2>1. /\ rd[s_control_iter_num] = 0
          /\ \A i \in PE : wr[s_selected(i)] = 0 /\ rd[s_selected(i)] = 0 /\ rd[s_PQ_result(i)] = 0
      BY <1>0, Wiring, PEWiring DEF s_control_iter_num, s_selected, s_PQ_result, s_kernel_network_in
    <2> DEFINE todo == [i \in PE |-> 0]
    <2>2. DOMAIN todo = PE /\ \A i \in PE : todo[i] = 0
      OBVIOUS
    <2>3. Local(K_selection) = [query |-> 0 + 1, todo |-> todo]
      BY Locals
    <2> HIDE DEF todo
    <2>4. \A i \in PE : /\ wr[s_selected(i)] = rd[s_PQ_result(i)] /\ rd[s_selected(i)] = 0
                        /\ todo[i] = 0 /\ rd[s_PQ_result(i)] = EntryTotal(r)[Past(r, 0, 0)]
      BY <2>1, <2>2, Zero
    <2> QED BY <2>1, <2>2, <2>3, <2>4, Zenon DEF SelectBody
  <1> QED BY <1>1, <1>2, <1>3, <1>4, <1>5, <1>6, <1>7, Zenon DEF StageBody

\* The invariant holds at first.
LEMMA InitInv == Init => ScanInv
  <1> SUFFICES ASSUME Init PROVE ScanInv
    OBVIOUS
  <1> DEFINE s == Words(request)
  <1>0. PICK r : r \in Requests /\ request = r
    BY DEF Init
  <1>1. /\ fifo = [c \in Stream |-> IF c = s_kernel_network_in THEN s ELSE <<>>]
        /\ left = [p \in Process |-> 0] /\ nprobe = [p \in Process |-> 0]
        /\ at = [p \in Process |-> Local(p)]
    BY DEF Init, FlowInit
  <1>2. /\ IsSequence(s) /\ Len(s) = BatchNum(r) + 1 + WordTotal(r)[QueryNum(r)]
    BY <1>0, InputWords DEF WordsInOrder
  <1> DEFINE rd == [c \in Stream |-> 0]
             wr == [c \in Stream |-> IF c = s_kernel_network_in THEN Len(s) ELSE 0]
  <1>3. Fresh(r, rd, wr)
    <2> HIDE DEF s
    <2> QED BY <1>2, Wiring DEF Fresh
  <1>4. FlowInv(History(r), Stream, rd, wr)
    <2>1. ASSUME NEW c \in Stream
          PROVE  /\ rd[c] \in Nat /\ wr[c] \in Nat
                 /\ IsSequence(fifo[c]) /\ wr[c] = rd[c] + Len(fifo[c])
                 /\ InOrder(History(r)[c], fifo[c], rd[c])
      <3>1. CASE c = s_kernel_network_in
        <4>1. fifo[c] = s /\ rd[c] = 0 /\ wr[c] = Len(s) /\ Len(s) \in Nat
          <5>1. Len(s) \in Nat
            BY <1>2, Sequences
          <5> HIDE DEF s
          <5> QED BY <1>1, <3>1, <5>1
        <4>2. ASSUME NEW j \in 1 .. Len(s) PROVE s[j] = History(r)[c][0 + j]
          <5>1. j \in Nat /\ 0 + j = j
            BY <4>1
          <5>2. History(r)[s_kernel_network_in][j] = Words(r)[j]
            BY <5>1, Values
          <5> QED BY <1>0, <3>1, <5>1, <5>2
        <4> HIDE DEF s, rd, wr
        <4> QED BY <1>2, <4>1, <4>2 DEF InOrder
      <3>2. CASE c # s_kernel_network_in
        <4>1. fifo[c] = <<>> /\ rd[c] = 0 /\ wr[c] = 0
          BY <1>1, <3>2
        <4>2. IsSequence(<<>>)
          BY DEF IsSequence
        <4> HIDE DEF rd, wr
        <4> QED BY <4>1, <4>2, NoneInOrder
      <3> QED BY <3>1, <3>2
    <2>2. DOMAIN fifo = Stream
      BY <1>1
    <2> HIDE DEF rd, wr
    <2> QED BY <2>1, <2>2 DEF FlowInv
  <1> HIDE DEF s, rd, wr
  <1>5. ASSUME NEW p \in Process
        PROVE  ProcessInv(r, p, left[p], nprobe[p], at[p], rd, wr)
    <2>1. left[p] = 0 /\ nprobe[p] = 0 /\ at[p] = Local(p)
      BY <1>1
    <2>2. \A c \in Stream \ {s_kernel_network_in} : rd[c] = 0 /\ wr[c] = 0
      BY <1>3 DEF Fresh
    <2>3. \A q \in Stages : rd[s_batch_header(q)] = 0 /\ wr[s_batch_header(q)] = 0
      BY <2>2, HeaderWiring DEF s_batch_header, s_kernel_network_in
    <2>4. rd[s_batch_header(replicate)] = 0 /\ wr[s_batch_header(replicate)] = 0
      BY <2>2, HeaderWiring DEF s_batch_header, s_kernel_network_in
    <2>5. Serves(r, 0, 0, 0, 0)
      BY <1>0, Zero
    <2>6. ASSUME p = network_input
          PROVE  /\ wr[s_kernel_network_in] = BatchNum(r) + 1 + WordTotal(r)[QueryNum(r)]
                 /\ \E n : /\ Serves(r, wr[s_batch_header(replicate)], 0, 0, n)
                           /\ NetworkBody(r, wr[s_batch_header(replicate)], n, 0, Local(p),
                                          rd[s_kernel_network_in],
                                          wr[s_cell_ID], wr[s_query_vectors], wr[s_center_vectors])
      <3>1. /\ rd[s_kernel_network_in] = 0 /\ wr[s_cell_ID] = 0 /\ wr[s_query_vectors] = 0
            /\ wr[s_center_vectors] = 0
        <4>1. rd[s_kernel_network_in] = 0
          BY <1>3, Wiring DEF Fresh
        <4> QED BY <2>2, <4>1, Wiring DEF s_cell_ID, s_query_vectors, s_center_vectors, s_kernel_network_in
      <3>2. Past(r, 0, 0) = 0 /\ 0 = 0 + WordTotal(r)[0]
        BY <1>0, Zero
      <3>3. Local(p) = [phase |-> "cells", pos |-> 0, word |-> <<>>]
        BY <2>6, Locals
      <3>4. NetworkBody(r, 0, 0, 0, Local(p), 0, 0, 0, 0)
        BY <3>2, <3>3, Zenon DEF NetworkBody
      <3>5. wr[s_kernel_network_in] = BatchNum(r) + 1 + WordTotal(r)[QueryNum(r)]
        BY <1>3 DEF Fresh
      <3> QED BY <2>4, <2>5, <3>1, <3>4, <3>5
    <2>7. ASSUME p = replicate
          PROVE  \A q \in Stages : wr[s_batch_header(q)] = rd[s_batch_header(replicate)]
      BY <2>3, <2>4
    <2>8. ASSUME p = load_meta PROVE MetaBody(Local(p), wr)
      <3>1. /\ wr[s_nlist_start_addr] = 0 /\ wr[s_nlist_num_vecs] = 0
            /\ wr[s_nlist_vec_ID_start_addr] = 0
        BY <2>2, Wiring DEF s_nlist_start_addr, s_nlist_num_vecs, s_nlist_vec_ID_start_addr,
           s_kernel_network_in
      <3>2. Local(p) = [pos |-> 0]
        BY <2>8, Locals
      <3> QED BY <3>1, <3>2 DEF MetaBody
    <2>9. ASSUME p \in Stages PROVE StageInv(r, p, 0, 0, Local(p), rd, wr)
      <3>1. StageBody(r, p, 0, 0, Local(p), rd, wr)
        BY <1>0, <1>3, <2>9, FreshBody
      <3> QED BY <2>3, <2>5, <2>9, <3>1 DEF StageInv
    <2> QED BY <2>1, <2>6, <2>7, <2>8, <2>9, Zenon DEF ProcessInv
  <1>6. DOMAIN at = Process /\ DOMAIN left = Process /\ DOMAIN nprobe = Process
    BY <1>1
  <1>7. At(r, rd, wr)
    BY <1>0, <1>4, <1>5, <1>6 DEF At
  <1> QED BY <1>7 DEF ScanInv

\* Every step keeps the invariant.
LEMMA NextInv == ScanInv /\ [Next]_vars => ScanInv'
  <1> SUFFICES ASSUME ScanInv, [Next]_vars PROVE ScanInv'
    OBVIOUS
  <1>0. PICK r, rd, wr : At(r, rd, wr)
    BY DEF ScanInv
  <1>1. ASSUME UNCHANGED vars PROVE ScanInv'
    <2>1. fifo' = fifo /\ left' = left /\ nprobe' = nprobe /\ at' = at /\ request' = request
      BY <1>1 DEF vars, flowVars
    <2>2. At(r, rd, wr)'
      BY <1>0, <2>1 DEF At, FlowInv
    <2> QED BY <2>2 DEF ScanInv
  <1>2. CASE Control
    <2>1. UNCHANGED <<at, request>>
      BY <1>2 DEF Control
    <2>2. CASE replicate_s_batch_header(replicate, Stages)
      BY <1>0, <2>1, <2>2, ReplicateStep
    <2>3. ASSUME NEW p \in Stages, Loaded(p), read_header(p) PROVE ScanInv'
      BY <1>0, <2>1, <2>3, HeaderStep
    <2> QED BY <1>2, <2>2, <2>3 DEF Control
  <1>3. CASE Body
    <2>1. CASE network_input_processing
      BY <1>0, <2>1, NetHeaderStep, NetCellWordStep, NetCellStep, NetQueryStep, NetCenterStep
         DEF network_input_processing
    <2>2. CASE load_meta_data
      BY <1>0, <2>2, MetaStep
    <2>3. CASE replicate_s_cell_ID
      BY <1>0, <2>3, CellStep
    <2>4. CASE get_cell_addr_and_size
      BY <1>0, <2>4, GetCellInitStep, GetCellProbeStep, GetCellIterStep DEF get_cell_addr_and_size
    <2>5. CASE replicate_s_scanned_entries_every_cell
      BY <1>0, <2>5, EntriesStep
    <2>6. CASE load_PQ_codes
      BY <1>0, <2>6, LoadCellStep, LoadRoundStep DEF load_PQ_codes
    <2>7. CASE LUT_vectors
      <3> DEFINE l == at[LUT_construction]
      <3>1. /\ left[LUT_construction] > 0 /\ Continues /\ UNCHANGED request
            /\ \/ /\ l.phase = "query" /\ fifo[s_query_vectors] # <<>>
                  /\ Transfer({s_query_vectors}, Nothing)
                  /\ SetAt(LUT_construction, [l EXCEPT
                       !.phase = "center", !.source.query = Head(fifo[s_query_vectors])])
               \/ /\ l.phase = "center" /\ fifo[s_center_vectors] # <<>>
                  /\ Transfer({s_center_vectors}, Nothing)
                  /\ SetAt(LUT_construction, [l EXCEPT
                       !.phase = "rows", !.source.center = Head(fifo[s_center_vectors])])
        BY <2>7 DEF LUT_vectors
      <3> QED BY <1>0, <3>1, LUTQueryStep, LUTCenterStep
    <2>8. CASE LUT_row
      BY <1>0, <2>8, LUTRowStep
    <2>9. ASSUME NEW i \in PE, PQ_lookup_computation(i) PROVE ScanInv'
      BY <1>0, <2>9, ADCEntriesStep, ADCCopyStep, ADCScanStep DEF PQ_lookup_computation
    <2>10. ASSUME NEW i \in PE, PQ_lookup_computation_double_buffer(i) PROVE ScanInv'
      BY <1>0, <2>10, DoubleEntriesStep, DoubleIterationStep DEF PQ_lookup_computation_double_buffer
    <2>11. CASE dummy_distance_LUT_consumer
      BY <1>0, <2>11, ConsumerStep
    <2>12. CASE select_query
      BY <1>0, <2>12, SelectQueryStep
    <2>13. ASSUME NEW i \in PE, select_result(i) PROVE ScanInv'
      BY <1>0, <2>13, SelectResultStep
    <2> QED BY <1>3, <2>1, <2>2, <2>3, <2>4, <2>5, <2>6, <2>7, <2>8, <2>9, <2>10, <2>11, <2>12,
               <2>13, Zenon DEF Body
  <1>4. CASE Finished
    BY <1>1, <1>4 DEF Finished
  <1> QED BY <1>1, <1>2, <1>3, <1>4 DEF Next

-----------------------------------------------------------------------------
(* What the K-selection was given. *)

\* w[i] values of PE i in all, those of the first n queries among them; the
\* j-th is the result of its round j.
HasSelected(r, w, n) ==
  /\ r \in Requests /\ request = r /\ n \in 0 .. QueryNum(r)
  /\ at[K_selection].query = n + 1
  /\ \A i \in PE :
       /\ DOMAIN fifo[s_selected(i)] = 1 .. w[i]
       /\ w[i] \in EntryTotal(r)[ProbeTotal(r)[n]] .. EntryTotal(r)[ProbeNum(r)]
       /\ \A j \in 1 .. w[i] : fifo[s_selected(i)][j] =
            [query |-> Probe(r)[Round(r)[j][1]][1], result |-> ResultOf(r, i, j)]

\* The invariant says what every PE has delivered.
LEMMA Selected ==
  ASSUME ScanInv
  PROVE  \E r, w, n : HasSelected(r, w, n)
  <1>1. PICK r, rd, wr : At(r, rd, wr)
    BY DEF ScanInv
  <1> DEFINE p == K_selection
             h == rd[s_batch_header(p)]
             lf == left[p]
             np == nprobe[p]
             l == at[p]
             E == EntryTotal(r)
             P == ProbeTotal(r)
             N == ProbeNum(r)
             w == [i \in PE |-> wr[s_selected(i)]]
  <1>2. PICK n : r \in Requests /\ request = r /\ Serves(r, h, lf, np, n) /\ SelectBody(r, n, lf, l, rd, wr)
    BY <1>1, StagesAre, StageAt, Bodies
  <1>3. Served(r, h, lf, np, n)
    BY <1>2, Serving
  <1>4. PICK todo :
          /\ l = [query |-> n + 1, todo |-> todo] /\ DOMAIN todo = PE
          /\ \A i \in PE : wr[s_selected(i)] = rd[s_PQ_result(i)] /\ rd[s_selected(i)] = 0
          /\ \/ /\ rd[s_control_iter_num] = n
                /\ \A i \in PE : todo[i] = 0 /\ rd[s_PQ_result(i)] = E[Past(r, n, 0)]
             \/ /\ lf > 0 /\ rd[s_control_iter_num] = n + 1
                /\ \A i \in PE : /\ todo[i] \in 0 .. IterNum(r, n + 1)
                                 /\ rd[s_PQ_result(i)] + todo[i] = E[Past(r, n + 1, 0)]
                /\ \E i \in PE : todo[i] # 0
    BY <1>2, Zenon DEF SelectBody
  <1>5. /\ n \in 0 .. QueryNum(r) /\ P[n] \in 0 .. N /\ N \in Nat
        /\ lf > 0 => n \in Nat /\ n + 1 \in 1 .. QueryNum(r)
    BY <1>3 DEF Served
  <1>6. Past(r, n, 0) = P[n]
    BY <1>5 DEF Past
  <1>7. E[P[n]] \in Nat /\ E[P[n]] <= E[N] /\ E[N] \in Nat
    <2>1. N \in 0 .. N /\ P[n] <= N
      BY <1>5
    <2> HIDE DEF E, P, N
    <2>2. /\ \A g \in 0 .. N : E[g] \in Nat
          /\ \A f, g \in 0 .. N : f <= g => E[f] <= E[g]
      BY <1>2, RoundFacts DEF E, N
    <2> QED BY <1>5, <2>1, <2>2
  <1>8. lf > 0 => /\ IterNum(r, n + 1) \in Nat
                  /\ E[Past(r, n + 1, 0)] = E[P[n]] + IterNum(r, n + 1)
                  /\ E[Past(r, n + 1, 0)] <= E[N]
    <2> SUFFICES ASSUME lf > 0
                 PROVE  /\ IterNum(r, n + 1) \in Nat
                        /\ E[Past(r, n + 1, 0)] = E[P[n]] + IterNum(r, n + 1)
                        /\ E[Past(r, n + 1, 0)] <= E[N]
      OBVIOUS
    <2> DEFINE m == n + 1
    <2>1. /\ IterNum(r, n + 1) \in Nat
          /\ E[Past(r, n + 1, 0)] = E[Past(r, n, 0)] + IterNum(r, n + 1)
      BY <1>2, <1>5, QueryRounds
    <2>2. m \in 0 .. QueryNum(r)
      BY <1>5
    <2> HIDE DEF m
    <2>3. P[m] \in 0 .. N
      BY <1>2, <2>2, ProbeFacts
    <2>4. Past(r, m, 0) = P[m]
      BY <2>3 DEF Past
    <2>5. E[P[m]] <= E[N]
      <3>1. N \in 0 .. N /\ P[m] <= N
        BY <1>5, <2>3
      <3> HIDE DEF E, P, N
      <3>2. \A f, g \in 0 .. N : f <= g => E[f] <= E[g]
        BY <1>2, RoundFacts DEF E, N
      <3> QED BY <2>3, <3>1, <3>2
    <2> QED BY <1>6, <2>1, <2>4, <2>5 DEF m
  <1>9. ASSUME NEW i \in PE
        PROVE  /\ DOMAIN fifo[s_selected(i)] = 1 .. w[i] /\ w[i] \in E[P[n]] .. E[N]
               /\ \A j \in 1 .. w[i] : fifo[s_selected(i)][j] =
                    [query |-> Probe(r)[Round(r)[j][1]][1], result |-> ResultOf(r, i, j)]
    <2> DEFINE c == s_selected(i)
               v == rd[s_PQ_result(i)]
    <2>1. c \in Stream /\ s_PQ_result(i) \in Stream
      BY PEWiring
    <2>2. wr[c] = v /\ rd[c] = 0 /\ w[i] = wr[c]
      BY <1>4
    <2>3. /\ rd[c] \in Nat /\ wr[c] \in Nat /\ IsSequence(fifo[c]) /\ wr[c] = rd[c] + Len(fifo[c])
          /\ InOrder(History(r)[c], fifo[c], rd[c])
      BY <1>1, <2>1 DEF At, FlowInv
    <2>4. Len(fifo[c]) \in Nat
      BY <2>3, Sequences
    <2>5. v \in E[P[n]] .. E[N]
      <3>1. CASE v = E[P[n]]
        <4> HIDE DEF v, E, P, N
        <4> QED BY <1>7, <3>1
      <3>2. CASE lf > 0 /\ todo[i] \in 0 .. IterNum(r, n + 1) /\ v + todo[i] = E[Past(r, n + 1, 0)]
        <4>1. v \in Nat
          BY <2>2, <2>3
        <4> HIDE DEF v, E, P, N, lf
        <4> QED BY <1>7, <1>8, <3>2, <4>1
      <3>3. \/ v = E[P[n]]
            \/ lf > 0 /\ todo[i] \in 0 .. IterNum(r, n + 1) /\ v + todo[i] = E[Past(r, n + 1, 0)]
        <4> HIDE DEF E, P, lf
        <4> QED BY <1>4, <1>6
      <3> QED BY <3>1, <3>2, <3>3, Zenon
    <2>6. Len(fifo[c]) = w[i] /\ DOMAIN fifo[c] = 1 .. w[i]
      <3>1. Len(fifo[c]) = w[i]
        <4> HIDE DEF w, c, v
        <4> QED BY <2>2, <2>3, <2>4
      <3>2. DOMAIN fifo[c] = 1 .. Len(fifo[c])
        BY <2>3 DEF IsSequence
      <3> QED BY <3>1, <3>2
    <2>7. ASSUME NEW j \in 1 .. w[i]
          PROVE  fifo[c][j] = [query |-> Probe(r)[Round(r)[j][1]][1], result |-> ResultOf(r, i, j)]
      <3> DEFINE y == [query |-> Probe(r)[Round(r)[j][1]][1], result |-> ResultOf(r, i, j)]
      <3>1. j \in Nat /\ 0 + j = j
        <4>1. w[i] \in Nat
          BY <2>2, <2>3
        <4> HIDE DEF w
        <4> QED BY <4>1
      <3>2. History(r)[c][j] = y
        BY <3>1, PEValues
      <3>3. fifo[c][j] = History(r)[c][0 + j]
        <4> HIDE DEF c, w
        <4> QED BY <2>2, <2>3, <2>6 DEF InOrder
      <3> HIDE DEF y, c
      <3>4. fifo[c][j] = y
        BY <3>1, <3>2, <3>3
      <3> QED BY <3>4 DEF y
    <2> HIDE DEF w
    <2> QED BY <2>2, <2>5, <2>6, <2>7 DEF c
  <1>10. at[K_selection].query = n + 1
    BY <1>4
  <1> HIDE DEF w
  <1>11. HasSelected(r, w, n)
    BY <1>2, <1>5, <1>9, <1>10 DEF HasSelected
  <1> QED BY <1>11

\* The numbers used here are those the properties use.
LEMMA Names ==
  ASSUME NEW r \in Requests, request = r
  PROVE  /\ QueryOf = Query(r)
         /\ \A n : Cells(n) = CellsOf(r, n)
         /\ \A n, k : TableRow(n, k) = [query |-> QueryWord(Query(r)[n][1], Query(r)[n][2]),
                                        center |-> CenterWord(Query(r)[n][1], Query(r)[n][2], k)]
  <1> DEFINE B == BatchNum(r)
             f == [j \in 1 .. B |-> [k \in 1 .. QueryLens(r)[j] |-> <<j, k>>]]
             g == [b \in DOMAIN r.batches |->
                     [q \in DOMAIN r.batches[b].queries |-> <<b, q>>]]
  <1>1. DOMAIN r.batches = 1 .. B /\ B \in Nat
    BY Batches
  <1>2. \A b \in 1 .. B : DOMAIN r.batches[b].queries = 1 .. Size(r, b)
    BY Batches
  <1>3. \A b \in 1 .. B : QueryLens(r)[b] = Size(r, b)
    <2> HIDE DEF B
    <2>1. \A b \in 1 .. B : b \in 1 .. B + 1
      BY <1>1
    <2> QED BY <2>1 DEF QueryLens, B
  <1>4. f = g
    <2> HIDE DEF B
    <2> QED BY <1>1, <1>2, <1>3
  <1>5. Query(r) = FlattenSeq(f)
    BY DEF Query, PairsOf
  <1>6. QueryOf = FlattenSeq(g)
    BY DEF QueryOf
  <1>7. QueryOf = Query(r)
    <2> HIDE DEF f, g
    <2> QED BY <1>4, <1>5, <1>6
  <1> QED BY <1>7 DEF Cells, CellsOf, TableRow

\* A round belongs to one probed cell, and that to one query.
Belongs(r, x, g, j, n, k) ==
  /\ g \in 1 .. ProbeNum(r) /\ j \in 1 .. Entries(r, g)
  /\ x = EntryTotal(r)[g - 1] + j /\ Round(r)[x] = <<g, j>>
  /\ n \in 1 .. QueryNum(r) /\ k \in 1 .. Len(CellsOf(r, n)) /\ DOMAIN CellsOf(r, n) = 1 .. Len(CellsOf(r, n))
  /\ g = ProbeTotal(r)[n - 1] + k /\ Probe(r)[g] = <<n, k>>
  /\ CellAt(r, g) = CellsOf(r, n)[k] /\ CellAt(r, g) \in Cell

\* Every round has a cell and a query.
LEMMA Rounds ==
  ASSUME NEW r \in Requests, NEW x \in 1 .. EntryTotal(r)[ProbeNum(r)]
  PROVE  \E g, j, n, k : Belongs(r, x, g, j, n, k)
  <1>1. PICK g \in 1 .. ProbeNum(r) : \E j \in 1 .. Entries(r, g) : x = EntryTotal(r)[g - 1] + j
    BY RoundFacts
  <1>2. PICK j \in 1 .. Entries(r, g) : x = EntryTotal(r)[g - 1] + j
    BY <1>1
  <1>3. Round(r)[EntryTotal(r)[g - 1] + j] = <<g, j>>
    BY RoundFacts
  <1>4. PICK n \in 1 .. QueryNum(r) : \E k \in 1 .. Len(CellsOf(r, n)) : g = ProbeTotal(r)[n - 1] + k
    BY ProbeFacts
  <1>5. PICK k \in 1 .. Len(CellsOf(r, n)) : g = ProbeTotal(r)[n - 1] + k
    BY <1>4
  <1>6. Probe(r)[ProbeTotal(r)[n - 1] + k] = <<n, k>>
    BY ProbeFacts
  <1>7. DOMAIN CellsOf(r, n) = 1 .. Len(CellsOf(r, n))
    BY CellsFacts
  <1>8. Round(r)[x] = <<g, j>>
    BY <1>2, <1>3
  <1>9. Probe(r)[g] = <<n, k>>
    BY <1>5, <1>6
  <1>10. CellAt(r, g) = CellsOf(r, n)[k]
    BY <1>9 DEF CellAt
  <1>11. CellAt(r, g) \in Cell
    BY ProbedFacts
  <1> QED BY <1>2, <1>5, <1>7, <1>8, <1>9, <1>10, <1>11 DEF Belongs

\* The vector PE i scans in round j of a cell, if there is one.
Vector(j, i) == (j - 1) * ADC_PE_NUM + i

\* The PEs past the last vector are the ones whose results are not valid.
LEMMA LastValid ==
  ASSUME NEW m \in Nat, NEW i \in PE, NEW j \in 1 .. scanned_entries_every_cell(m)
  PROVE  /\ Vector(j, i) \in Nat
         /\ ~ (j - 1 = scanned_entries_every_cell(m) - 1 /\ i > last_valid_PE_ID(m))
              <=> Vector(j, i) < m
  <1> DEFINE M == ADC_PE_NUM
             e == Ceil(m, M)
             d == m \div M
             u == m % M
             a == j - 1
             v == last_valid_PE_ID(m)
  <1>1. M \in Nat \ {0} /\ i \in 0 .. M - 1 /\ e = scanned_entries_every_cell(m)
    BY Positive DEF PE, scanned_entries_every_cell
  <1>2. d \in Nat /\ u \in 0 .. M - 1 /\ m = d * M + u
    <2> HIDE DEF M
    <2> QED BY <1>1, Quotient
  <1>3. v = IF u = 0 THEN M - 1 ELSE u - 1
    BY DEF last_valid_PE_ID
  <1>4. e \in Nat
    <2> HIDE DEF M
    <2> QED BY <1>1, RoundingUp
  <1>5. e = IF u = 0 THEN d ELSE d + 1
    <2> HIDE DEF M, d, u
    <2>1. CASE u = 0
      <3>1. m + M - 1 = d * M + (M - 1) /\ M - 1 \in 0 .. M - 1
        BY <1>1, <1>2, <2>1
      <3>2. (d * M + (M - 1)) \div M = d
        BY <1>1, <1>2, <3>1, Division
      <3> QED BY <2>1, <3>1, <3>2 DEF Ceil
    <2>2. CASE u # 0
      <3> DEFINE c == d + 1
      <3>1. c * M = d * M + M
        BY <1>1, <1>2
      <3>2. m + M - 1 = c * M + (u - 1) /\ u - 1 \in 0 .. M - 1 /\ c \in Nat
        <4> HIDE DEF c
        <4>1. c \in Nat
          BY <1>2 DEF c
        <4>2. d * M \in Nat
          BY <1>1, <1>2
        <4> DEFINE dm == d * M
                   cm == c * M
        <4> HIDE DEF dm, cm
        <4>3. cm = dm + M /\ m = dm + u /\ dm \in Nat
          BY <1>2, <3>1, <4>2 DEF dm, cm
        <4>4. m + M - 1 = cm + (u - 1) /\ u - 1 \in 0 .. M - 1
          BY <1>1, <1>2, <2>2, <4>3
        <4> QED BY <4>1, <4>4 DEF cm
      <3> HIDE DEF c
      <3>3. (c * M + (u - 1)) \div M = c
        BY <1>1, <3>2, Division
      <3>4. e = c
        BY <3>2, <3>3 DEF Ceil
      <3> QED BY <2>2, <3>4 DEF c
    <2> QED BY <2>1, <2>2
  <1>6. a \in Nat /\ a \in 0 .. e - 1
    <2> HIDE DEF e
    <2> QED BY <1>1, <1>4
  <1>7. Vector(j, i) = a * M + i
    BY DEF Vector
  <1> HIDE DEF M, e, d, u, a, v
  <1>8. a * M \in Nat /\ a * M + i \in Nat
    BY <1>1, <1>6
  <1>9. CASE a < d
    <2>1. (a + 1) * M <= d * M /\ (a + 1) * M = a * M + M
      <3>1. PICK t \in Nat : d = (a + 1) + t
        <4>1. d - (a + 1) \in Nat /\ d = (a + 1) + (d - (a + 1))
          BY <1>2, <1>6, <1>9
        <4> QED BY <4>1
      <3>2. d * M = (a + 1) * M + t * M /\ t * M \in Nat /\ (a + 1) * M = a * M + M
        BY <1>1, <1>6, <3>1
      <3> QED BY <1>1, <1>6, <1>8, <3>2
    <2> DEFINE am == a * M
               dm == d * M
               bm == (a + 1) * M
    <2>2. am \in Nat /\ dm \in Nat /\ bm = am + M /\ bm <= dm /\ m = dm + u
      BY <1>1, <1>2, <1>8, <2>1
    <2> HIDE DEF am, dm, bm
    <2>3. am + i < m
      BY <1>1, <1>2, <2>2
    <2>4. ~ (a = e - 1 /\ i > v)
      BY <1>1, <1>2, <1>3, <1>5, <1>6, <1>9
    <2>5. a * M + i < m
      BY <2>3 DEF am
    <2> QED BY <1>1, <1>7, <1>8, <2>4, <2>5 DEF a, v
  <1>10. CASE a = d
    <2>1. u # 0 /\ a = e - 1 /\ v = u - 1
      BY <1>1, <1>2, <1>3, <1>4, <1>5, <1>6, <1>10
    <2> DEFINE am == a * M
    <2>2. am \in Nat /\ m = am + u
      BY <1>2, <1>8, <1>10
    <2> HIDE DEF am
    <2>3. am + i < m <=> ~ (i > v)
      BY <1>1, <1>2, <2>1, <2>2
    <2>4. a * M + i < m <=> ~ (i > v)
      BY <2>3 DEF am
    <2> QED BY <1>1, <1>7, <1>8, <2>1, <2>4 DEF a, v
  <1>11. a < d \/ a = d
    BY <1>2, <1>4, <1>5, <1>6
  <1> QED BY <1>9, <1>10, <1>11, Zenon

\* The result of a round.
LEMMA ResultIs ==
  ASSUME NEW r \in Requests, NEW i \in PE, NEW x, NEW g, NEW j, NEW n, NEW k,
         Belongs(r, x, g, j, n, k)
  PROVE  /\ Vector(j, i) \in Nat
         /\ ResultOf(r, i, x).code =
              <<i \div ADC_PE_PER_CHANNEL, start_addr[CellAt(r, g)] + (j - 1), i % ADC_PE_PER_CHANNEL>>
         /\ IF Vector(j, i) < num_vecs[CellAt(r, g)]
            THEN /\ ResultOf(r, i, x).cell = CellAt(r, g)
                 /\ ResultOf(r, i, x).offset = (j - 1) * ADC_PE_PER_CHANNEL + (i % ADC_PE_PER_CHANNEL)
                 /\ ResultOf(r, i, x).dist = {Row(r, g)}
            ELSE ResultOf(r, i, x).cell = -1 /\ ResultOf(r, i, x).dist = {}
  <1> DEFINE cell == CellAt(r, g)
             m == num_vecs[cell]
             c == PQ_code(ReadCell(r, g), j - 1, i)
             table == [z \in 1 .. LUT_ENTRY_NUM |-> Row(r, g)]
             valid == ~ (j - 1 = scanned_entries_every_cell(m) - 1 /\ i > last_valid_PE_ID(m))
  <1>1. /\ g \in 1 .. ProbeNum(r) /\ j \in 1 .. Entries(r, g) /\ Round(r)[x] = <<g, j>> /\ cell \in Cell
    BY DEF Belongs
  <1>2. ResultOf(r, i, x) = ADC_result(c, table)
    BY <1>1 DEF ResultOf, CodeAt
  <1>3. m \in Nat /\ j \in 1 .. scanned_entries_every_cell(m)
    BY <1>1, ScanAssumption DEF Entries
  <1>4. Vector(j, i) \in Nat /\ (valid <=> Vector(j, i) < m)
    <2> HIDE DEF m
    <2> QED BY <1>3, LastValid
  <1>5. /\ c.valid = valid /\ c.cell = cell
        /\ c.offset = (j - 1) * ADC_PE_PER_CHANNEL + (i % ADC_PE_PER_CHANNEL)
        /\ c.code = <<i \div ADC_PE_PER_CHANNEL, start_addr[cell] + (j - 1), i % ADC_PE_PER_CHANNEL>>
    <2>1. /\ ReadCell(r, g).ID = cell /\ ReadCell(r, g).rounds = scanned_entries_every_cell(m)
          /\ ReadCell(r, g).last_valid = last_valid_PE_ID(m) /\ ReadCell(r, g).addr = start_addr[cell]
      BY DEF ReadCell, Entries
    <2>2. c = [valid |-> ~ (j - 1 = ReadCell(r, g).rounds - 1 /\ i > ReadCell(r, g).last_valid),
               cell |-> ReadCell(r, g).ID,
               offset |-> (j - 1) * ADC_PE_PER_CHANNEL + (i % ADC_PE_PER_CHANNEL),
               code |-> <<i \div ADC_PE_PER_CHANNEL, ReadCell(r, g).addr + (j - 1), i % ADC_PE_PER_CHANNEL>>]
      BY DEF PQ_code
    <2> HIDE DEF c, m, cell
    <2> QED BY <2>1, <2>2
  <1>6. {table[z] : z \in DOMAIN table} = {Row(r, g)}
    <2>1. LUT_ENTRY_NUM \in Nat \ {0}
      BY Positive
    <2>2. 1 \in DOMAIN table /\ \A z \in DOMAIN table : table[z] = Row(r, g)
      BY <2>1
    <2> HIDE DEF table
    <2> QED BY <2>2
  <1> HIDE DEF c, table, m, cell
  <1>7. ADC_result(c, table).code = c.code
    BY DEF ADC_result
  <1>8. c.valid => /\ ADC_result(c, table).cell = c.cell /\ ADC_result(c, table).offset = c.offset
                   /\ ADC_result(c, table).dist = {Row(r, g)}
    BY <1>6 DEF ADC_result
  <1>9. ~ c.valid => ADC_result(c, table).cell = -1 /\ ADC_result(c, table).dist = {}
    BY DEF ADC_result
  <1> HIDE DEF valid
  <1> QED BY <1>2, <1>4, <1>5, <1>7, <1>8, <1>9 DEF m, cell

-----------------------------------------------------------------------------
(* What the results say. *)

\* Value j of PE i: the result of a round of a cell of a query.
LEMMA ResultAtRound ==
  ASSUME NEW r, NEW w, NEW n, HasSelected(r, w, n), NEW i \in PE,
         NEW x \in DOMAIN fifo[s_selected(i)]
  PROVE  /\ x \in 1 .. EntryTotal(r)[ProbeNum(r)]
         /\ fifo[s_selected(i)][x].result = ResultOf(r, i, x)
         /\ \E g, j, m, k : Belongs(r, x, g, j, m, k)
         /\ \A g, j, m, k : Belongs(r, x, g, j, m, k) => fifo[s_selected(i)][x].query = m
  <1>1. /\ DOMAIN fifo[s_selected(i)] = 1 .. w[i] /\ r \in Requests
        /\ w[i] \in EntryTotal(r)[ProbeTotal(r)[n]] .. EntryTotal(r)[ProbeNum(r)]
        /\ \A j \in 1 .. w[i] : fifo[s_selected(i)][j] =
             [query |-> Probe(r)[Round(r)[j][1]][1], result |-> ResultOf(r, i, j)]
        /\ n \in 0 .. QueryNum(r)
    BY DEF HasSelected
  <1>2. x \in 1 .. EntryTotal(r)[ProbeNum(r)]
    <2>1. ProbeTotal(r)[n] \in 0 .. ProbeNum(r) /\ ProbeNum(r) \in Nat
      BY <1>1, ProbeFacts
    <2>2. EntryTotal(r)[ProbeTotal(r)[n]] \in Nat /\ EntryTotal(r)[ProbeNum(r)] \in Nat
      BY <1>1, <2>1, RoundFacts
    <2> QED BY <1>1, <2>2
  <1>3. fifo[s_selected(i)][x] =
          [query |-> Probe(r)[Round(r)[x][1]][1], result |-> ResultOf(r, i, x)]
    BY <1>1
  <1>4. ASSUME NEW g, NEW j, NEW m, NEW k, Belongs(r, x, g, j, m, k)
        PROVE  fifo[s_selected(i)][x].query = m
    <2>1. Round(r)[x] = <<g, j>> /\ Probe(r)[g] = <<m, k>>
      BY <1>4 DEF Belongs
    <2> QED BY <1>3, <2>1
  <1>5. fifo[s_selected(i)][x].result = ResultOf(r, i, x)
    BY <1>3
  <1>6. \E g, j, m, k : Belongs(r, x, g, j, m, k)
    BY <1>1, <1>2, Rounds
  <1> QED BY <1>2, <1>4, <1>5, <1>6

\* The offset of a result is the place its code was read from.
LEMMA OffsetMatches == ScanInv => OffsetMatchesCode
  <1> SUFFICES ASSUME ScanInv, NEW i \in PE, NEW x \in DOMAIN fifo[s_selected(i)],
                      fifo[s_selected(i)][x].result.cell # -1
               PROVE  LET y == fifo[s_selected(i)][x].result
                      IN  y.code = <<i \div ADC_PE_PER_CHANNEL,
                                     start_addr[y.cell] + y.offset \div ADC_PE_PER_CHANNEL,
                                     y.offset % ADC_PE_PER_CHANNEL>>
    BY DEF OffsetMatchesCode
  <1>1. PICK r, w, n : HasSelected(r, w, n)
    BY Selected
  <1> DEFINE y == fifo[s_selected(i)][x].result
             A == ADC_PE_PER_CHANNEL
  <1>2. PICK g, j, m, k : Belongs(r, x, g, j, m, k)
    BY <1>1, ResultAtRound
  <1>3. y = ResultOf(r, i, x)
    BY <1>1, ResultAtRound
  <1>4. /\ y.code = <<i \div A, start_addr[CellAt(r, g)] + (j - 1), i % A>>
        /\ y.cell = CellAt(r, g) /\ y.offset = (j - 1) * A + (i % A)
    <2>1. r \in Requests
      BY <1>1 DEF HasSelected
    <2>2. /\ ResultOf(r, i, x).code =
              <<i \div ADC_PE_PER_CHANNEL, start_addr[CellAt(r, g)] + (j - 1), i % ADC_PE_PER_CHANNEL>>
          /\ IF Vector(j, i) < num_vecs[CellAt(r, g)]
             THEN /\ ResultOf(r, i, x).cell = CellAt(r, g)
                  /\ ResultOf(r, i, x).offset = (j - 1) * ADC_PE_PER_CHANNEL + (i % ADC_PE_PER_CHANNEL)
                  /\ ResultOf(r, i, x).dist = {Row(r, g)}
             ELSE ResultOf(r, i, x).cell = -1 /\ ResultOf(r, i, x).dist = {}
      BY <1>2, <2>1, ResultIs
    <2> QED BY <1>3, <2>2
  <1>5. j - 1 \in Nat /\ A \in Nat \ {0} /\ i % A \in 0 .. A - 1
    <2>1. A \in Nat \ {0} /\ i \in Nat
      BY Positive DEF PE
    <2>2. j - 1 \in Nat
      BY <1>2 DEF Belongs
    <2> HIDE DEF A
    <2> QED BY <2>1, <2>2
  <1> DEFINE u == i % A
             a == j - 1
  <1>6. (a * A + u) \div A = a /\ (a * A + u) % A = u
    <2> HIDE DEF A, u, a
    <2>1. a \in Nat /\ A \in Nat \ {0} /\ u \in 0 .. A - 1
      BY <1>5 DEF u, a
    <2> QED BY <2>1, Division
  <1>7. y.offset \div A = a /\ y.offset % A = u
    BY <1>4, <1>6
  <1> HIDE DEF y, A, u, a
  <1>8. y.code = <<i \div A, start_addr[y.cell] + y.offset \div A, y.offset % A>>
    BY <1>4, <1>7 DEF u, a
  <1> QED BY <1>8 DEF y, A

\* A result was computed with the table of its own cell and query.
LEMMA TableMatches == ScanInv => OwnTable
  <1> SUFFICES ASSUME ScanInv, NEW i \in PE, NEW x \in DOMAIN fifo[s_selected(i)],
                      fifo[s_selected(i)][x].result.cell # -1
               PROVE  LET y == fifo[s_selected(i)][x]
                      IN  \E k \in DOMAIN Cells(y.query) :
                            /\ Cells(y.query)[k] = y.result.cell
                            /\ y.result.dist = {TableRow(y.query, k)}
    BY DEF OwnTable
  <1>1. PICK r, w, n : HasSelected(r, w, n)
    BY Selected
  <1> DEFINE y == fifo[s_selected(i)][x]
  <1>2. PICK g, j, m, k : Belongs(r, x, g, j, m, k)
    BY <1>1, ResultAtRound
  <1>3. r \in Requests /\ request = r
    BY <1>1 DEF HasSelected
  <1>4. y.result = ResultOf(r, i, x) /\ y.query = m
    BY <1>1, <1>2, ResultAtRound
  <1>5. y.result.cell = CellAt(r, g) /\ y.result.dist = {Row(r, g)}
    <2>1. IF Vector(j, i) < num_vecs[CellAt(r, g)]
          THEN /\ ResultOf(r, i, x).cell = CellAt(r, g)
               /\ ResultOf(r, i, x).offset = (j - 1) * ADC_PE_PER_CHANNEL + (i % ADC_PE_PER_CHANNEL)
               /\ ResultOf(r, i, x).dist = {Row(r, g)}
          ELSE ResultOf(r, i, x).cell = -1 /\ ResultOf(r, i, x).dist = {}
      BY <1>2, <1>3, ResultIs
    <2> QED BY <1>4, <2>1
  <1>6. /\ k \in DOMAIN CellsOf(r, m) /\ CellsOf(r, m)[k] = CellAt(r, g) /\ Probe(r)[g] = <<m, k>>
    BY <1>2 DEF Belongs
  <1>7. Row(r, g) = TableRow(m, k) /\ Cells(m) = CellsOf(r, m)
    BY <1>3, <1>6, Names DEF Row
  <1> HIDE DEF y
  <1>8. /\ k \in DOMAIN Cells(y.query) /\ Cells(y.query)[k] = y.result.cell
        /\ y.result.dist = {TableRow(y.query, k)}
    BY <1>4, <1>5, <1>6, <1>7
  <1> QED BY <1>8 DEF y

\* What was scanned of a cell of a complete query: the results of its own
\* rounds, those of the PEs that had a vector.
LEMMA ScannedIs ==
  ASSUME NEW r, NEW w, NEW n, HasSelected(r, w, n), NEW m \in 1 .. n, NEW k \in DOMAIN Cells(m)
  PROVE  /\ Past(r, m - 1, k) \in 1 .. ProbeNum(r)
         /\ CellAt(r, Past(r, m - 1, k)) = Cells(m)[k]
         /\ \A z \in Scanned(m, k) :
              \E i \in PE : \E j \in 1 .. Entries(r, Past(r, m - 1, k)) :
                /\ z = <<i, EntryTotal(r)[Past(r, m - 1, k) - 1] + j>>
                /\ Vector(j, i) < num_vecs[CellAt(r, Past(r, m - 1, k))]
                /\ Belongs(r, z[2], Past(r, m - 1, k), j, m, k)
                /\ ResultAt(z) = ResultOf(r, i, z[2])
         /\ \A i \in PE : \A j \in 1 .. Entries(r, Past(r, m - 1, k)) :
              Vector(j, i) < num_vecs[CellAt(r, Past(r, m - 1, k))]
                => <<i, EntryTotal(r)[Past(r, m - 1, k) - 1] + j>> \in Scanned(m, k)
  <1> DEFINE P == ProbeTotal(r)
             N == ProbeNum(r)
             E == EntryTotal(r)
             Q == QueryNum(r)
             g == Past(r, m - 1, k)
  <1>1. /\ r \in Requests /\ request = r /\ n \in 0 .. Q /\ Q \in Nat
        /\ m \in 1 .. Q /\ m \in 0 .. Q /\ m <= n
    BY QueryFacts DEF HasSelected
  <1>0. g = P[m - 1] + k
    BY DEF Past
  <1>2. Cells(m) = CellsOf(r, m) /\ DOMAIN CellsOf(r, m) = 1 .. Len(CellsOf(r, m))
    BY <1>1, Names, CellsFacts
  <1>3. /\ g \in 1 .. N /\ Probe(r)[g] = <<m, k>>
        /\ P[m] = P[m - 1] + Len(CellsOf(r, m)) /\ P[m] <= P[n] /\ P[n] \in 0 .. N /\ N \in Nat
        /\ P[m - 1] \in 0 .. N /\ P[m] \in 0 .. N
    <2> HIDE DEF P, N, Q, g
    <2>1. /\ P[m - 1] + k \in 1 .. N /\ Probe(r)[P[m - 1] + k] = <<m, k>>
          /\ P[m] = P[m - 1] + Len(CellsOf(r, m)) /\ P[m] <= P[n] /\ P[n] \in 0 .. N /\ N \in Nat
      BY <1>1, <1>2, ProbeFacts DEF P, N, Q
    <2>2. m - 1 \in 0 .. Q
      BY <1>1
    <2>3. \A j \in 0 .. Q : P[j] \in 0 .. N
      BY <1>1, ProbeFacts DEF P, N, Q
    <2> QED BY <1>0, <1>1, <2>1, <2>2, <2>3
  <1>4. CellAt(r, g) = CellsOf(r, m)[k] /\ CellAt(r, g) \in Cell
    <2>1. CellAt(r, g) \in Cell
      <3> HIDE DEF g
      <3> QED BY <1>1, <1>3, ProbedFacts
    <2> QED BY <1>3, <2>1 DEF CellAt
  <1>5. g <= P[n]
    <2>1. k \in 1 .. Len(CellsOf(r, m))
      BY <1>2
    <2> HIDE DEF P, N
    <2> QED BY <1>0, <1>3, <2>1
  <1>6. Row(r, g) = TableRow(m, k)
    BY <1>1, <1>3, Names DEF Row
  <1> HIDE DEF g, P, N, Q
  <1>7. /\ E[g] <= E[P[n]] /\ E[g - 1] \in Nat /\ E[g] \in Nat /\ E[P[n]] \in Nat
        /\ E[g] = E[g - 1] + Entries(r, g) /\ Entries(r, g) \in Nat
        /\ \A j \in 1 .. Entries(r, g) : Round(r)[E[g - 1] + j] = <<g, j>>
    <2>1. g \in 0 .. N /\ g - 1 \in 0 .. N /\ g \in 1 .. N
      BY <1>3
    <2>2. Entries(r, g) \in Nat
      BY <1>1, <1>3, ProbedFacts DEF N
    <2> HIDE DEF E
    <2>3. /\ \A h \in 0 .. N : E[h] \in Nat
          /\ \A f, h \in 0 .. N : f <= h => E[f] <= E[h]
          /\ \A h \in 1 .. N : E[h] = E[h - 1] + Entries(r, h)
          /\ \A h \in 1 .. N : \A j \in 1 .. Entries(r, h) : Round(r)[E[h - 1] + j] = <<h, j>>
      BY <1>1, RoundFacts DEF E, N
    <2> QED BY <1>3, <1>5, <2>1, <2>2, <2>3
  <1>8. ASSUME NEW z, z \in Scanned(m, k)
        PROVE  \E i \in PE : \E j \in 1 .. Entries(r, g) :
                 /\ z = <<i, E[g - 1] + j>> /\ Vector(j, i) < num_vecs[CellAt(r, g)]
                 /\ Belongs(r, z[2], g, j, m, k) /\ ResultAt(z) = ResultOf(r, i, z[2])
    <2>1. PICK i \in PE : \E x \in DOMAIN fifo[s_selected(i)] : z = <<i, x>>
      BY <1>8 DEF Scanned
    <2>2. PICK x \in DOMAIN fifo[s_selected(i)] : z = <<i, x>>
      BY <2>1
    <2>3. fifo[s_selected(i)][x].query = m /\ fifo[s_selected(i)][x].result.dist = {TableRow(m, k)}
      BY <1>8, <2>2 DEF Scanned
    <2>4. PICK g2, j, m2, k2 : Belongs(r, x, g2, j, m2, k2)
      BY ResultAtRound
    <2>5. fifo[s_selected(i)][x].result = ResultOf(r, i, x) /\ fifo[s_selected(i)][x].query = m2
      BY <2>4, ResultAtRound
    <2>6. /\ Vector(j, i) < num_vecs[CellAt(r, g2)] /\ Row(r, g2) = TableRow(m, k)
      <3>1. IF Vector(j, i) < num_vecs[CellAt(r, g2)]
            THEN /\ ResultOf(r, i, x).cell = CellAt(r, g2)
                 /\ ResultOf(r, i, x).offset = (j - 1) * ADC_PE_PER_CHANNEL + (i % ADC_PE_PER_CHANNEL)
                 /\ ResultOf(r, i, x).dist = {Row(r, g2)}
            ELSE ResultOf(r, i, x).cell = -1 /\ ResultOf(r, i, x).dist = {}
        BY <1>1, <2>4, ResultIs
      <3> QED BY <2>3, <2>5, <3>1
    <2>7. k2 = k /\ m2 = m
      <3>1. Row(r, g2).center.probe = k2
        BY <2>4 DEF Belongs, Row, CenterWord
      <3>2. TableRow(m, k).center.probe = k
        BY DEF TableRow, CenterWord
      <3> QED BY <2>3, <2>5, <2>6, <3>1, <3>2
    <2>8. g2 = g
      BY <1>0, <2>4, <2>7 DEF Belongs, P
    <2>9. j \in 1 .. Entries(r, g) /\ x = E[g - 1] + j /\ z[2] = x
      BY <2>2, <2>4, <2>8 DEF Belongs
    <2>10. ResultAt(z) = ResultOf(r, i, z[2])
      BY <2>2, <2>5 DEF ResultAt
    <2> HIDE DEF E
    <2> QED BY <2>2, <2>4, <2>6, <2>7, <2>8, <2>9, <2>10
  <1>9. ASSUME NEW z, NEW i \in PE, NEW j \in 1 .. Entries(r, g),
               z = <<i, E[g - 1] + j>>, Vector(j, i) < num_vecs[CellAt(r, g)]
        PROVE  z \in Scanned(m, k)
    <2> DEFINE x == E[g - 1] + j
    <2>1. /\ DOMAIN fifo[s_selected(i)] = 1 .. w[i] /\ w[i] \in Nat /\ E[P[n]] <= w[i]
      <3>1. /\ DOMAIN fifo[s_selected(i)] = 1 .. w[i]
            /\ w[i] \in E[P[n]] .. E[N]
        BY DEF HasSelected, P, N
      <3> HIDE DEF E
      <3> QED BY <1>7, <3>1
    <2>2. x \in 1 .. w[i]
      <3> HIDE DEF E
      <3> QED BY <1>7, <2>1
    <2>3. Belongs(r, x, g, j, m, k)
      <3>1. Round(r)[x] = <<g, j>>
        BY <1>7
      <3>2. k \in 1 .. Len(CellsOf(r, m))
        BY <1>2
      <3> QED BY <1>0, <1>1, <1>2, <1>3, <1>4, <3>1, <3>2 DEF Belongs, P, N, Q
    <2> HIDE DEF x, E
    <2>4. fifo[s_selected(i)][x].result = ResultOf(r, i, x) /\ fifo[s_selected(i)][x].query = m
      BY <2>1, <2>2, <2>3, ResultAtRound
    <2>5. ResultOf(r, i, x).dist = {Row(r, g)}
      <3>1. IF Vector(j, i) < num_vecs[CellAt(r, g)]
            THEN /\ ResultOf(r, i, x).cell = CellAt(r, g)
                 /\ ResultOf(r, i, x).offset = (j - 1) * ADC_PE_PER_CHANNEL + (i % ADC_PE_PER_CHANNEL)
                 /\ ResultOf(r, i, x).dist = {Row(r, g)}
            ELSE ResultOf(r, i, x).cell = -1 /\ ResultOf(r, i, x).dist = {}
        BY <1>1, <2>3, ResultIs
      <3> QED BY <1>9, <3>1
    <2>6. z = <<i, x>> /\ x \in DOMAIN fifo[s_selected(i)]
      BY <1>9, <2>1, <2>2 DEF x
    <2>7. z[1] = i /\ z[2] = x /\ z \in UNION {{<<i2, j2>> : j2 \in DOMAIN fifo[s_selected(i2)]} : i2 \in PE}
      BY <2>6
    <2>8. fifo[s_selected(z[1])][z[2]].query = m /\ fifo[s_selected(z[1])][z[2]].result.dist = {TableRow(m, k)}
      BY <1>6, <2>4, <2>5, <2>7
    <2> QED BY <2>7, <2>8 DEF Scanned
  <1>10. g \in 1 .. N /\ CellAt(r, g) = Cells(m)[k]
    BY <1>2, <1>3, <1>4
  <1> QED BY <1>8, <1>9, <1>10 DEF g, N

\* The vectors of a cell, one for each of them.
LEMMA ScannedAll ==
  ASSUME NEW r, NEW w, NEW n, HasSelected(r, w, n), NEW m \in 1 .. n, NEW k \in DOMAIN Cells(m)
  PROVE  Cardinality(Scanned(m, k)) = num_vecs[Cells(m)[k]]
  <1> DEFINE g == Past(r, m - 1, k)
             e == EntryTotal(r)[g - 1]
             M == ADC_PE_NUM
             S == Scanned(m, k)
             V == num_vecs[CellAt(r, g)]
             f == [v \in 0 .. V - 1 |-> <<v % M, e + ((v \div M) + 1)>>]
  <1>1. r \in Requests
    BY DEF HasSelected
  <1>2. /\ g \in 1 .. ProbeNum(r) /\ CellAt(r, g) = Cells(m)[k]
        /\ \A z \in S : \E i \in PE : \E j \in 1 .. Entries(r, g) :
             z = <<i, EntryTotal(r)[g - 1] + j>> /\ Vector(j, i) < num_vecs[CellAt(r, g)]
        /\ \A i \in PE : \A j \in 1 .. Entries(r, g) :
             Vector(j, i) < num_vecs[CellAt(r, g)] => <<i, EntryTotal(r)[g - 1] + j>> \in S
    <2>1. \A z \in S :
              \E i \in PE : \E j \in 1 .. Entries(r, g) :
                /\ z = <<i, EntryTotal(r)[g - 1] + j>>
                /\ Vector(j, i) < num_vecs[CellAt(r, g)]
                /\ Belongs(r, z[2], g, j, m, k)
                /\ ResultAt(z) = ResultOf(r, i, z[2])
      BY ScannedIs
    <2>2. \A i \in PE : \A j \in 1 .. Entries(r, g) :
              Vector(j, i) < num_vecs[CellAt(r, g)]
                => <<i, EntryTotal(r)[g - 1] + j>> \in S
      BY ScannedIs
    <2>3. g \in 1 .. ProbeNum(r) /\ CellAt(r, g) = Cells(m)[k]
      BY ScannedIs
    <2> HIDE DEF g, S
    <2> QED BY <2>1, <2>2, <2>3
  <1>3. CellAt(r, g) \in Cell
    <2> HIDE DEF g
    <2> QED BY <1>1, <1>2, ProbedFacts
  <1>4. V \in Nat /\ Entries(r, g) = Ceil(V, M) /\ M \in Nat \ {0} /\ PE = 0 .. M - 1
    BY <1>3, ScanAssumption, Positive DEF Entries, scanned_entries_every_cell, PE
  <1>5. e \in Nat
    <2>1. g - 1 \in 0 .. ProbeNum(r)
      <3>1. ProbeNum(r) \in Nat
        BY <1>1, ProbeFacts
      <3> HIDE DEF g
      <3> QED BY <1>2, <3>1
    <2> HIDE DEF g
    <2> QED BY <1>1, <2>1, RoundFacts
  <1> HIDE DEF g, e, M, S, V
  <1>6. ASSUME NEW v \in 0 .. V - 1
        PROVE  /\ v % M \in PE /\ (v \div M) + 1 \in 1 .. Entries(r, g) /\ v \div M \in Nat
               /\ v = (v \div M) * M + (v % M)
    <2>1. v \in Nat
      BY <1>4
    <2>2. v \div M \in Nat /\ v % M \in 0 .. M - 1 /\ v = (v \div M) * M + (v % M)
      BY <1>4, <2>1, Quotient
    <2>3. Ceil(V, M) \in Nat /\ v \div M \in 0 .. Ceil(V, M) - 1
      BY <1>4, RoundingUp
    <2> DEFINE d == v \div M
               c == Ceil(V, M)
    <2> HIDE DEF d, c
    <2>4. d \in 0 .. c - 1 /\ c \in Nat /\ c = Entries(r, g)
      BY <1>4, <2>3 DEF d, c
    <2>5. d + 1 \in 1 .. Entries(r, g)
      BY <2>4
    <2> QED BY <1>4, <2>2, <2>5 DEF d
  <1>7. ASSUME NEW v \in 0 .. V - 1 PROVE f[v] \in S
    <2> DEFINE i == v % M
               j == (v \div M) + 1
               x == e + j
    <2>1. f[v] = <<i, x>>
      OBVIOUS
    <2>2. i \in PE /\ j \in 1 .. Entries(r, g) /\ j - 1 = v \div M
      BY <1>6
    <2>3. Vector(j, i) = v
      <3> HIDE DEF i, j
      <3>1. Vector(j, i) = (v \div M) * M + i
        BY <2>2 DEF Vector, M
      <3> QED BY <1>6, <3>1 DEF i
    <2>4. Vector(j, i) < V
      BY <1>4, <2>3
    <2> HIDE DEF i, j
    <2>5. <<i, x>> \in S
      <3>1. x = EntryTotal(r)[g - 1] + j /\ Vector(j, i) < num_vecs[CellAt(r, g)]
        BY <2>4 DEF e, V
      <3> QED BY <1>2, <2>2, <3>1
    <2> HIDE DEF x, f
    <2> QED BY <2>1, <2>5
  <1>8. ASSUME NEW u \in 0 .. V - 1, NEW v \in 0 .. V - 1, f[u] = f[v] PROVE u = v
    <2> DEFINE du == u \div M
               dv == v \div M
    <2>1. /\ du \in Nat /\ dv \in Nat /\ u = du * M + (u % M) /\ v = dv * M + (v % M)
      BY <1>6
    <2>2. u % M = v % M /\ e + (du + 1) = e + (dv + 1)
      BY <1>8
    <2> HIDE DEF du, dv
    <2>3. du = dv
      BY <1>5, <2>1, <2>2
    <2> QED BY <2>1, <2>2, <2>3
  <1>9. ASSUME NEW z \in S PROVE \E v \in 0 .. V - 1 : f[v] = z
    <2>1. PICK i \in PE : \E j \in 1 .. Entries(r, g) :
            z = <<i, EntryTotal(r)[g - 1] + j>> /\ Vector(j, i) < num_vecs[CellAt(r, g)]
      BY <1>2
    <2>2. PICK j \in 1 .. Entries(r, g) :
            z = <<i, EntryTotal(r)[g - 1] + j>> /\ Vector(j, i) < num_vecs[CellAt(r, g)]
      BY <2>1
    <2> DEFINE a == j - 1
               v == a * M + i
    <2>3. z = <<i, e + j>> /\ v < V /\ a \in Nat /\ i \in 0 .. M - 1 /\ a + 1 = j
      BY <1>4, <2>2 DEF e, V, Vector, M
    <2> HIDE DEF a
    <2>4. v \in Nat
      <3>1. a * M \in Nat
        BY <1>4, <2>3
      <3> QED BY <1>4, <2>3, <3>1
    <2>5. v % M = i /\ v \div M = a
      BY <1>4, <2>3, Division
    <2> HIDE DEF v
    <2>6. v \in 0 .. V - 1
      BY <1>4, <2>3, <2>4
    <2>7. f[v] = <<i, e + (a + 1)>>
      BY <2>5, <2>6
    <2> HIDE DEF f
    <2> QED BY <2>3, <2>6, <2>7
  <1>10. f \in Bijection(0 .. V - 1, S)
    <2>1. f \in [0 .. V - 1 -> S]
      <3>1. DOMAIN f = 0 .. V - 1 /\ f = [v \in 0 .. V - 1 |-> f[v]]
        OBVIOUS
      <3> HIDE DEF f
      <3> QED BY <1>7, <3>1
    <2> HIDE DEF f
    <2>2. \A u, v \in 0 .. V - 1 : f[u] = f[v] => u = v
      BY <1>8
    <2>3. \A z \in S : \E v \in 0 .. V - 1 : f[v] = z
      BY <1>9
    <2> QED BY <2>1, <2>2, <2>3 DEF Bijection, Injection, Surjection, IsInjective
  <1> HIDE DEF f
  <1>11. Cardinality(S) = Cardinality(0 .. V - 1)
    <2>1. ExistsBijection(0 .. V - 1, S)
      BY <1>10 DEF ExistsBijection
    <2>2. IsFiniteSet(0 .. V - 1)
      BY <1>4, FS_Interval
    <2> QED BY <2>1, <2>2, FS_Bijection
  <1>12. Cardinality(0 .. V - 1) = V
    <2> DEFINE b == V - 1
    <2>1. b \in Int /\ 0 \in Int
      BY <1>4
    <2> HIDE DEF b
    <2>2. Cardinality(0 .. b) = IF 0 > b THEN 0 ELSE b - 0 + 1
      BY <2>1, FS_Interval
    <2> QED BY <1>4, <2>2 DEF b
  <1> QED BY <1>2, <1>11, <1>12 DEF S, V

\* Every vector of a complete query was scanned, and once.
LEMMA EachOnce == ScanInv => EachVectorOnce
  <1> SUFFICES ASSUME ScanInv, NEW m \in 1 .. at[K_selection].query - 1, NEW k \in DOMAIN Cells(m)
               PROVE  /\ Cardinality(Scanned(m, k)) = num_vecs[Cells(m)[k]]
                      /\ \A x, y \in Scanned(m, k) : ResultAt(x).code = ResultAt(y).code => x = y
    BY DEF EachVectorOnce
  <1>1. PICK r, w, n : HasSelected(r, w, n)
    BY Selected
  <1>2. m \in 1 .. n /\ r \in Requests
    <2>1. at[K_selection].query = n + 1 /\ n \in 0 .. QueryNum(r) /\ r \in Requests
      BY <1>1 DEF HasSelected
    <2>2. QueryNum(r) \in Nat
      BY <2>1, QueryFacts
    <2> QED BY <2>1, <2>2
  <1>3. Cardinality(Scanned(m, k)) = num_vecs[Cells(m)[k]]
    BY <1>1, <1>2, ScannedAll
  <1> DEFINE g == Past(r, m - 1, k)
             e == EntryTotal(r)[g - 1]
             A == ADC_PE_PER_CHANNEL
             Place(z, i, j) == /\ z = <<i, e + j>> /\ j \in Nat
                               /\ ResultAt(z).code =
                                    <<i \div A, start_addr[CellAt(r, g)] + (j - 1), i % A>>
  <1>4. ASSUME NEW z \in Scanned(m, k)
        PROVE  \E i \in PE : \E j : Place(z, i, j)
    <2>1. PICK i \in PE : \E j \in 1 .. Entries(r, g) :
             /\ z = <<i, EntryTotal(r)[g - 1] + j>>
             /\ Vector(j, i) < num_vecs[CellAt(r, g)]
             /\ Belongs(r, z[2], g, j, m, k) /\ ResultAt(z) = ResultOf(r, i, z[2])
      BY <1>1, <1>2, ScannedIs
    <2>2. PICK j \in 1 .. Entries(r, g) :
             /\ z = <<i, EntryTotal(r)[g - 1] + j>>
             /\ Belongs(r, z[2], g, j, m, k) /\ ResultAt(z) = ResultOf(r, i, z[2])
      BY <2>1
    <2>3. ResultOf(r, i, z[2]).code =
            <<i \div ADC_PE_PER_CHANNEL, start_addr[CellAt(r, g)] + (j - 1), i % ADC_PE_PER_CHANNEL>>
      <3> HIDE DEF g
      <3> QED BY <1>2, <2>2, ResultIs
    <2>4. j \in Nat
      OBVIOUS
    <2> QED BY <2>2, <2>3, <2>4
  <1>5. start_addr[CellAt(r, g)] \in Nat /\ A \in Nat \ {0} /\ PE \in SUBSET Nat
    <2>1. g \in 1 .. ProbeNum(r)
      BY <1>1, <1>2, ScannedIs
    <2>2. CellAt(r, g) \in Cell
      <3> HIDE DEF g
      <3> QED BY <1>2, <2>1, ProbedFacts
    <2> QED BY <2>2, ScanAssumption, Positive DEF PE
  <1>6. ASSUME NEW x \in Scanned(m, k), NEW y \in Scanned(m, k), ResultAt(x).code = ResultAt(y).code
        PROVE  x = y
    <2>1. PICK i \in PE : \E j : Place(x, i, j)
      BY <1>4
    <2>2. PICK j : Place(x, i, j)
      BY <2>1
    <2>3. PICK i2 \in PE : \E j2 : Place(y, i2, j2)
      BY <1>4
    <2>4. PICK j2 : Place(y, i2, j2)
      BY <2>3
    <2> DEFINE s == start_addr[CellAt(r, g)]
               p == i \div A
               q == i2 \div A
               u == i % A
               v == i2 % A
    <2>5. p = q /\ s + (j - 1) = s + (j2 - 1) /\ u = v
      <3>1. ResultAt(x).code = <<p, s + (j - 1), u>> /\ ResultAt(y).code = <<q, s + (j2 - 1), v>>
        BY <2>2, <2>4
      <3> HIDE DEF p, q, u, v, s
      <3>2. <<p, s + (j - 1), u>> = <<q, s + (j2 - 1), v>>
        BY <1>6, <3>1
      <3> QED BY <3>2
    <2>6. j = j2
      <3>1. s \in Nat /\ j \in Nat /\ j2 \in Nat
        BY <1>5, <2>2, <2>4
      <3> HIDE DEF s
      <3> QED BY <2>5, <3>1
    <2>7. i = p * A + u /\ i2 = q * A + v
      <3>1. i \in Nat /\ i2 \in Nat /\ A \in Nat \ {0}
        BY <1>5
      <3> HIDE DEF A
      <3> QED BY <3>1, Quotient
    <2>8. i = i2
      <3> HIDE DEF p, q, u, v
      <3> QED BY <2>5, <2>7
    <2> QED BY <2>2, <2>4, <2>6, <2>8
  <1> QED BY <1>3, <1>6

-----------------------------------------------------------------------------
(* The theorems *)

\* However the processes interleave and whatever the depths of the streams,
\* every process is where the values it has read and written say, and every
\* stream holds the next values of its history.
THEOREM ScanInvariant == Spec => []ScanInv
  <1>1. Init => ScanInv
    BY InitInv
  <1>2. ScanInv /\ [Next]_vars => ScanInv'
    BY NextInv
  <1> QED BY <1>1, <1>2, PTL DEF Spec

\* The offset by which the K-selection will look up the number of a vector is
\* the place in DRAM load_PQ_codes read its code from, for any number of banks
\* and of PEs per bank.
THEOREM OffsetMatchesCodeHolds == Spec => []OffsetMatchesCode
  <1>1. Spec => []ScanInv
    BY ScanInvariant
  <1>2. ScanInv => OffsetMatchesCode
    BY OffsetMatches
  <1> QED BY <1>1, <1>2, PTL

\* No PE computes a distance with a table that still holds a row of another
\* cell or query, with one table or with two, and every result is counted for
\* its own query.
THEOREM OwnTableHolds == Spec => []OwnTable
  <1>1. Spec => []ScanInv
    BY ScanInvariant
  <1>2. ScanInv => OwnTable
    BY TableMatches
  <1> QED BY <1>1, <1>2, PTL

\* When the K-selection is done with a query, the PEs have scanned every vector
\* of every probed cell, none of them twice, for any sizes of the cells.
THEOREM EachVectorOnceHolds == Spec => []EachVectorOnce
  <1>1. Spec => []ScanInv
    BY ScanInvariant
  <1>2. ScanInv => EachVectorOnce
    BY EachOnce
  <1> QED BY <1>1, <1>2, PTL
=============================================================================
