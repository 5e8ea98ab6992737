---------------------------- MODULE LUTConstruction ----------------------------
(***************************************************************************)
(* The construction of the lookup tables (LUT_construction.hpp): for every *)
(* query and every probed cell the squared distances between each of the M *)
(* sub-vectors of the residual (query minus centre) and the LUT_ENTRY_NUM  *)
(* sub-quantizers.  Sub-vector m is the work of PE m % SUB_PE_NUM; the     *)
(* vectors are dealt out element by element, interleaved over the PEs, and *)
(* the columns the PEs return are gathered into rows.                      *)
(*                                                                         *)
(* A float is the place it comes from, <<vector, index>>; a residual is    *)
(* the pair of its terms, and a distance the set of the differences that   *)
(* are squared and summed, the empty set when they are undefined.          *)
(***************************************************************************)
EXTENDS Dataflow

CONSTANTS D, M,           \* dimensions, and sub-vectors they are divided into
          LUT_ENTRY_NUM,  \* rows of a table
          SUB_PE_NUM,     \* LUT_CONSTR_SUB_PE_NUM
          FLOATS,         \* floats in a packet: 512 bits, 16 of them
          Requests        \* inputs: sequences of batches [queries, nprobe]

ASSUME LUTAssumption ==
  /\ {D, M, LUT_ENTRY_NUM, SUB_PE_NUM, FLOATS} \subseteq Nat \ {0}
  /\ D % M = 0 /\ M % SUB_PE_NUM = 0
  \* A query probes at least one cell.
  /\ Requests \subseteq Seq([queries : Nat, nprobe : Nat \ {0}])

SubDim == D \div M              \* elements of a sub-vector
PerPE == M \div SUB_PE_NUM      \* sub-vectors of a PE
PE == 0 .. SUB_PE_NUM - 1

VARIABLES at,       \* process -> where it is in its body, and its local data
          request,  \* the input of this behaviour
          wraps     \* the circuit built: does an index past the end of a fully
                    \* partitioned array wrap around?

vars == <<flowVars, at, request, wraps>>

-----------------------------------------------------------------------------
(* Processes and streams *)

quantizer == <<"quantizer", 0>>
replicate == <<"replicate", 0>>
query_dispatcher == <<"query_dispatcher", 0>>
center_dispatcher == <<"center_dispatcher", 0>>
sub_PE(i) == <<"sub_PE", i>>
gather == <<"gather", 0>>
extra_FIFO == <<"extra_FIFO", 0>>

Stages == {query_dispatcher, center_dispatcher, gather, extra_FIFO}
            \cup {sub_PE(i) : i \in PE}
Process == {quantizer, replicate} \cup Stages

s_product_quantizer_init == <<"s_product_quantizer_init", 0>>
s_query_vectors == <<"s_query_vectors", 0>>
s_center_vectors == <<"s_center_vectors", 0>>
s_product_quantizer_init_sub_PE(i) == <<"s_product_quantizer_init_sub_PE", i>>
s_sub_query_vectors(i) == <<"s_sub_query_vectors", i>>
s_sub_center_vectors(i) == <<"s_sub_center_vectors", i>>
s_partial_distance_LUT(i) == <<"s_partial_distance_LUT", i>>
s_distance_LUT_buffer == <<"s_distance_LUT_buffer", 0>>
s_distance_LUT == <<"s_distance_LUT", 0>>

Stream ==
  {s_batch_header(p) : p \in Stages \cup {replicate}}
    \cup {s_product_quantizer_init, s_query_vectors, s_center_vectors,
          s_distance_LUT_buffer, s_distance_LUT}
    \cup UNION {{s_product_quantizer_init_sub_PE(i), s_sub_query_vectors(i),
                 s_sub_center_vectors(i), s_partial_distance_LUT(i)} : i \in PE}

-----------------------------------------------------------------------------
(* The input *)

\* The queries of all batches in turn, a query being its nprobe.
QueryProbes ==
  FlattenSeq([b \in DOMAIN request |-> [q \in 1 .. request[b].queries |-> request[b].nprobe]])

Vectors(n) == <<"query", n>>
Centers(n) == [k \in 1 .. QueryProbes[n] |-> <<"center", n, k>>]

\* Element e of vector v; the last packet is padded with zeros.
Element(v, e) == IF e < D THEN <<v, e>> ELSE <<<<"zero">>, 0>>
size_vector == IF D % FLOATS = 0 THEN D \div FLOATS ELSE D \div FLOATS + 1
Packets(v) ==
  [w \in 1 .. size_vector |-> [j \in 1 .. FLOATS |-> Element(v, (w - 1) * FLOATS + j - 1)]]

\* M sub-quantizers x LUT_ENTRY_NUM rows x sub-vectors.
Quantizer(m, k, j) == <<"quantizer", m, k, j>>
product_quantizer ==
  [t \in 1 .. D * LUT_ENTRY_NUM |->
     Quantizer((t - 1) \div (SubDim * LUT_ENTRY_NUM),
               ((t - 1) \div SubDim) % LUT_ENTRY_NUM, (t - 1) % SubDim)]

Headers ==
  [b \in DOMAIN request |-> Header(request[b].queries, request[b].nprobe)]
    \o <<TerminateHeader>>

Queries == DOMAIN QueryProbes
Input(c) ==
  CASE c = s_batch_header(replicate) -> Headers
    [] c = s_product_quantizer_init -> product_quantizer
    [] c = s_query_vectors -> FlattenSeq([n \in Queries |-> Packets(Vectors(n))])
    [] c = s_center_vectors ->
         FlattenSeq([n \in Queries |->
           FlattenSeq([k \in DOMAIN Centers(n) |-> Packets(Centers(n)[k])])])
    [] OTHER -> <<>>

\* The arrays of a PE, one value per dimension of its sub-vectors.
Unset == [e \in 0 .. PerPE * SubDim - 1 |-> <<>>]

Local(p) ==
  CASE p \in {query_dispatcher, center_dispatcher} -> [vector_buffer |-> <<>>, pos |-> 0, vec |-> 0]
    [] p[1] = "sub_PE" ->
         [phase |-> "init", pos |-> 0, probe |-> 0,
          quantizer |-> [k \in 0 .. LUT_ENTRY_NUM - 1 |-> Unset],
          query |-> Unset, residual |-> Unset]
    [] p = gather -> [pos |-> 0, row |-> <<>>]
    [] OTHER -> [pos |-> 0]

Init ==
  /\ request \in Requests
  /\ wraps \in BOOLEAN
  /\ FlowInit([c \in Stream |-> Input(c)], Process)
  /\ at = [p \in Process |-> Local(p)]

Same == UNCHANGED <<request, wraps>>
SetAt(p, local) == at' = [at EXCEPT ![p] = local]

-----------------------------------------------------------------------------
(* Dispatchers *)

\* The PE whose work sub-vector m is.
PE_of(m) == m % SUB_PE_NUM

product_quantizer_dispatcher ==
  LET t == at[quantizer].pos
      m == t \div (SubDim * LUT_ENTRY_NUM)
  IN  /\ quantizer \notin ended
      /\ fifo[s_product_quantizer_init] # <<>>
      /\ Transfer({s_product_quantizer_init},
           To(s_product_quantizer_init_sub_PE(PE_of(m)), Head(fifo[s_product_quantizer_init])))
      /\ SetAt(quantizer, [pos |-> t + 1])
      /\ ended' = IF t + 1 = D * LUT_ENTRY_NUM THEN ended \cup {quantizer} ELSE ended
      /\ UNCHANGED <<left, nprobe>> /\ Same

\* A vector is read packet by packet.
load_vector(p, in) ==
  /\ left[p] > 0 /\ Len(at[p].vector_buffer) < D
  /\ fifo[in] # <<>>
  /\ Transfer({in}, Nothing)
  /\ at' = [at EXCEPT ![p].vector_buffer = @ \o Head(fifo[in])]
  /\ Continues /\ Same

\* Mutant: sub-vector after sub-vector, while the PEs read interleaved ones.
Bug_dealt(t) == [m |-> t \div SubDim, i |-> t % SubDim]
\* The t-th element to be dealt out: the first of every sub-vector, then the
\* second of every sub-vector, ...
dealt(t) == [m |-> t % M, i |-> t \div M]

\* Process p deals out its vector to the streams called out; a query has vecs
\* vectors.
dispatch_vector(p, out, vecs) ==
  LET l == at[p]
      e == dealt(l.pos)
      last == l.pos + 1 = D
  IN  /\ left[p] > 0 /\ Len(l.vector_buffer) >= D
      /\ Transfer({}, To(<<out, PE_of(e.m)>>, l.vector_buffer[e.m * SubDim + e.i + 1]))
      /\ SetAt(p, IF last THEN [vector_buffer |-> <<>>, pos |-> 0, vec |-> (l.vec + 1) % vecs]
                  ELSE [l EXCEPT !.pos = @ + 1])
      /\ Finish(p, last /\ l.vec + 1 = vecs)
      /\ Same

query_vector_dispatcher ==
  \/ load_vector(query_dispatcher, s_query_vectors)
  \/ dispatch_vector(query_dispatcher, "s_sub_query_vectors", 1)
center_vector_dispatcher ==
  \/ load_vector(center_dispatcher, s_center_vectors)
  \/ dispatch_vector(center_dispatcher, "s_sub_center_vectors", nprobe[center_dispatcher])

-----------------------------------------------------------------------------
(* LUT_construction_sub_PE *)

\* Where the t-th element of its sub-vectors that a PE reads is kept.
place(t) == (t % PerPE) * SubDim + t \div PerPE

\* The sub-quantizers, read once.
sub_quantizer(i) ==
  LET l == at[sub_PE(i)]
      c == s_product_quantizer_init_sub_PE(i)
      k == (l.pos \div SubDim) % LUT_ENTRY_NUM
      e == (l.pos \div (SubDim * LUT_ENTRY_NUM)) * SubDim + (l.pos % SubDim)
      last == l.pos + 1 = PerPE * SubDim * LUT_ENTRY_NUM
  IN  /\ l.phase = "init" /\ fifo[c] # <<>>
      /\ Transfer({c}, Nothing)
      /\ SetAt(sub_PE(i), [l EXCEPT !.quantizer[k][e] = Head(fifo[c]),
                                    !.pos = IF last THEN 0 ELSE @ + 1,
                                    !.phase = IF last THEN "query" ELSE "init"])
      /\ Continues /\ Same

sub_query_vector(i) ==
  LET l == at[sub_PE(i)]
      c == s_sub_query_vectors(i)
      last == l.pos + 1 = PerPE * SubDim
  IN  /\ left[sub_PE(i)] > 0 /\ l.phase = "query" /\ fifo[c] # <<>>
      /\ Transfer({c}, Nothing)
      /\ SetAt(sub_PE(i), [l EXCEPT !.query[place(l.pos)] = Head(fifo[c]),
                                    !.pos = IF last THEN 0 ELSE @ + 1,
                                    !.phase = IF last THEN "center" ELSE "query"])
      /\ Continues /\ Same

sub_residual_vector(i) ==
  LET l == at[sub_PE(i)]
      c == s_sub_center_vectors(i)
      last == l.pos + 1 = PerPE * SubDim
  IN  /\ l.phase = "center" /\ fifo[c] # <<>>
      /\ Transfer({c}, Nothing)
      /\ SetAt(sub_PE(i), [l EXCEPT
           !.residual[place(l.pos)] = <<l.query[place(l.pos)], Head(fifo[c])>>,
           !.pos = IF last THEN 0 ELSE @ + 1,
           !.phase = IF last THEN "rows" ELSE "center"])
      /\ Continues /\ Same

\* The distance of sub-vector m_per_PE to its sub-quantizer k.  L1_dist has D / M
\* places and is written from place m_per_PE * (D / M) on: unless the index
\* wraps, every sub-vector but the first sums places that were not written.
L2_dist(l, k, m_per_PE) ==
  IF m_per_PE = 0 \/ wraps
  THEN {<<l.residual[j], l.quantizer[k][j]>> :
          j \in m_per_PE * SubDim .. (m_per_PE + 1) * SubDim - 1}
  ELSE {}

partial_distance(i) ==
  LET p == sub_PE(i)
      l == at[p]
      full == l.pos + 1 = PerPE * LUT_ENTRY_NUM
      done == full /\ l.probe + 1 = nprobe[p]
  IN  /\ l.phase = "rows"
      /\ Transfer({}, To(s_partial_distance_LUT(i), L2_dist(l, l.pos \div PerPE, l.pos % PerPE)))
      /\ SetAt(p, [l EXCEPT !.pos = IF full THEN 0 ELSE @ + 1,
                            !.probe = IF done THEN 0 ELSE IF full THEN @ + 1 ELSE @,
                            !.phase = IF done THEN "query" ELSE IF full THEN "center" ELSE @])
      /\ Finish(p, done)
      /\ Same

LUT_construction_sub_PE(i) ==
  sub_quantizer(i) \/ sub_query_vector(i) \/ sub_residual_vector(i) \/ partial_distance(i)

-----------------------------------------------------------------------------
(* Gathering the columns into rows *)

Rows(p) == nprobe[p] * LUT_ENTRY_NUM   \* of one query

\* One distance of every PE, in the order of the PEs; a full row goes out.
gather_LUT_results ==
  LET l == at[gather]
      row == l.row \o [i \in 1 .. SUB_PE_NUM |-> Head(fifo[s_partial_distance_LUT(i - 1)])]
      full == Len(row) = M
      columns == {s_partial_distance_LUT(i) : i \in PE}
  IN  /\ left[gather] > 0
      /\ \A c \in columns : fifo[c] # <<>>
      /\ Transfer(columns, IF full THEN To(s_distance_LUT_buffer, row) ELSE Nothing)
      /\ SetAt(gather, IF full THEN [pos |-> (l.pos + 1) % Rows(gather), row |-> <<>>]
                       ELSE [l EXCEPT !.row = row])
      /\ Finish(gather, full /\ l.pos + 1 = Rows(gather))
      /\ Same

\* Mutant: one table per query, whatever nprobe is.
Bug_extra_LUT_FIFO ==
  LET p == at[extra_FIFO].pos
  IN  /\ left[extra_FIFO] > 0
      /\ fifo[s_distance_LUT_buffer] # <<>>
      /\ Transfer({s_distance_LUT_buffer}, To(s_distance_LUT, Head(fifo[s_distance_LUT_buffer])))
      /\ SetAt(extra_FIFO, [pos |-> (p + 1) % LUT_ENTRY_NUM])
      /\ Finish(extra_FIFO, p + 1 = LUT_ENTRY_NUM)
      /\ Same

extra_LUT_FIFO ==
  LET p == at[extra_FIFO].pos
  IN  /\ left[extra_FIFO] > 0
      /\ fifo[s_distance_LUT_buffer] # <<>>
      /\ Transfer({s_distance_LUT_buffer}, To(s_distance_LUT, Head(fifo[s_distance_LUT_buffer])))
      /\ SetAt(extra_FIFO, [pos |-> (p + 1) % Rows(extra_FIFO)])
      /\ Finish(extra_FIFO, p + 1 = Rows(extra_FIFO))
      /\ Same

-----------------------------------------------------------------------------
\* A PE looks for a header once its sub-quantizers are loaded.
Loaded(p) == p[1] = "sub_PE" => at[p].phase # "init"

Control ==
  /\ \/ replicate_s_batch_header(replicate, Stages)
     \/ \E p \in Stages : Loaded(p) /\ read_header(p)
  /\ UNCHANGED at /\ Same

Body ==
  \/ product_quantizer_dispatcher \/ query_vector_dispatcher \/ center_vector_dispatcher
  \/ \E i \in PE : LUT_construction_sub_PE(i)
  \/ gather_LUT_results \/ extra_LUT_FIFO

Finished == Drained(Process, {"s_distance_LUT"}) /\ UNCHANGED vars

Next == Control \/ Body \/ Finished

Spec == Init /\ [][Next]_vars

\* The processes are circuits: as long as one of them can move, one moves.
FairSpec == Spec /\ WF_vars(Next)

-----------------------------------------------------------------------------
(* Properties *)

\* The tables in the order in which the compute PEs expect them.
Tables ==
  FlattenSeq([n \in Queries |-> [k \in DOMAIN Centers(n) |-> [query |-> Vectors(n), center |-> Centers(n)[k]]]])

Distance(t, k, m) ==
  {<<<<<<t.query, m * SubDim + j>>, <<t.center, m * SubDim + j>>>>, Quantizer(m, k, j)>> :
     j \in 0 .. SubDim - 1}

\* The rows leave table by table, and column m of row k is the distance of the
\* m-th sub-vector of that query and centre to the k-th entry of the m-th
\* sub-quantizer, in whatever order the PEs ran: no element of an earlier
\* vector is left in an array, and no column changes places.  Where the
\* index of L1_dist does not wrap this is so for the first column of each PE
\* only.
RowsAreDistances ==
  \A r \in DOMAIN fifo[s_distance_LUT] : \A m \in 0 .. M - 1 :
    LET t == Tables[(r - 1) \div LUT_ENTRY_NUM + 1]
        k == (r - 1) % LUT_ENTRY_NUM
    IN  m < SUB_PE_NUM \/ wraps =>
          fifo[s_distance_LUT][r][m + 1] = Distance(t, k, m)

\* Every batch is worked off: all its tables leave, complete, the terminate
\* header reaches every process, and nothing is left in a stream.
LUTEnds ==
  <>(/\ Drained(Process, {"s_distance_LUT"})
     /\ Len(fifo[s_distance_LUT]) = Len(Tables) * LUT_ENTRY_NUM)
=============================================================================
