--------------------------- MODULE HierarchicalQueue ---------------------------
(***************************************************************************)
(* The K-selection of the accelerator (hierarchical_priority_queue.hpp).   *)
(* The results of each compute PE are split over two level-1 queues; what  *)
(* these keep is looked up, first the start address of its cell, then the  *)
(* vector number in the DRAM of the PE's bank, merged into one stream and  *)
(* inserted into the level-2 queue, whose registers answer the query.      *)
(*                                                                         *)
(* A result of a PE is [cell, offset, dist]; a padded one has cell and     *)
(* offset -1 and the distance LARGE_NUM.  The vector at address a of the   *)
(* DRAM of bank b is <<b, a>>.                                             *)
(***************************************************************************)
EXTENDS Dataflow

CONSTANTS DDR_BANK_NUM, ADC_PE_PER_CHANNEL,
          PRIORITY_QUEUE_LEN_L1, TOPK,
          nlist,        \* number of cells
          LARGE_NUM,    \* the distance of padding and of an empty register
          Undefined,    \* what a read outside an array returns
          start_addr,   \* cell -> its start address in the vec_ID arrays
          Requests      \* the inputs to choose from: a sequence of batches,
                        \* each a sequence of queries, each a sequence of rows,
                        \* a row being one result of every compute PE

ADC_PE_NUM == DDR_BANK_NUM * ADC_PE_PER_CHANNEL
PRIORITY_QUEUE_NUM_L1 == 2 * ADC_PE_NUM
PRIORITY_QUEUE_PER_BANK == PRIORITY_QUEUE_NUM_L1 \div DDR_BANK_NUM

PE == 0 .. ADC_PE_NUM - 1
Q1 == 0 .. PRIORITY_QUEUE_NUM_L1 - 1

L1 == INSTANCE CompareSwap WITH queue_size <- PRIORITY_QUEUE_LEN_L1
L2 == INSTANCE CompareSwap WITH queue_size <- TOPK

VARIABLES at,       \* process -> where it is in its body, and its local data
          request   \* the input of this behaviour

vars == <<flowVars, at, request>>

-----------------------------------------------------------------------------
(* Processes and streams *)

replicate == <<"replicate", 0>>
split_wrapper == <<"split_wrapper", 0>>
replicate_scanned == <<"replicate_scanned", 0>>
split(i) == <<"split", i>>
priority_queue_L1(s) == <<"L1", s>>
convert_offset == <<"convert_offset", 0>>
convert_addr == <<"convert_addr", 0>>
merge == <<"merge", 0>>
send_iter == <<"send_iter", 0>>
priority_queue_L2 == <<"L2", 0>>

Splitters == {replicate_scanned} \cup {split(i) : i \in PE}
Stages == {split_wrapper} \cup {priority_queue_L1(s) : s \in Q1}
            \cup {convert_offset, convert_addr, merge, send_iter, priority_queue_L2}
Process == {replicate} \cup Stages \cup Splitters

s_scanned_entries == <<"s_scanned_entries", 0>>
s_vec_ID_start_addr == <<"s_vec_ID_start_addr", 0>>
s_input(i) == <<"s_input", i>>
s_replicated(i) == <<"s_replicated", i>>
s_insertion_L1(s) == <<"s_insertion_L1", s>>
s_splitted(s) == <<"s_splitted", s>>
s_with_offset(s) == <<"s_with_offset", s>>
s_with_addr(s) == <<"s_with_addr", s>>
s_with_vec_ID(s) == <<"s_with_vec_ID", s>>
s_merged == <<"s_merged", 0>>
s_insertion_L2 == <<"s_insertion_L2", 0>>
output_stream == <<"output_stream", 0>>

Stream ==
  {s_batch_header(p) : p \in Process}
    \cup UNION {{s_input(i), s_replicated(i)} : i \in PE}
    \cup UNION {{s_insertion_L1(s), s_splitted(s), s_with_offset(s),
                 s_with_addr(s), s_with_vec_ID(s)} : s \in Q1}
    \cup {s_scanned_entries, s_vec_ID_start_addr, s_merged, s_insertion_L2,
          output_stream}

-----------------------------------------------------------------------------
(* The input *)

Batches(r) == [b \in DOMAIN r |-> Header(Len(r[b]), 0)] \o <<TerminateHeader>>
Queries(r) == FlattenSeq(r)
Rows(r) == FlattenSeq(Queries(r))

\* The streams that enter the region hold the whole input at once: each comes
\* from a process that waits for nothing in the region.
InputStream(r) ==
  [c \in Stream |->
     CASE c = s_batch_header(replicate) -> Batches(r)
       [] c = s_scanned_entries ->
            [q \in DOMAIN Queries(r) |-> Len(Queries(r)[q])]
       [] c = s_vec_ID_start_addr -> [k \in 1 .. nlist |-> start_addr[k - 1]]
       [] c[1] = "s_input" -> [k \in DOMAIN Rows(r) |-> Rows(r)[k][c[2]]]
       [] OTHER -> <<>>]

\* The registers are not initialised: c is the cell they happen to hold, one
\* in the table or one outside it.
Local(p, c) ==
  CASE p[1] = "split" -> [todo |-> 0]
    [] p[1] = "L1" -> [phase |-> "idle", todo |-> 0, queue |->
         [i \in L1!Idx |-> [cell |-> c, offset |-> 0, dist |-> LARGE_NUM]]]
    [] p[1] = "L2" -> [phase |-> "idle", todo |-> 0, queue |->
         [i \in L2!Idx |-> [vec_ID |-> Undefined, dist |-> LARGE_NUM]]]
    [] p[1] = "convert_offset" -> [cell_ID_to_addr |-> <<>>, pos |-> 0]
    [] OTHER -> [pos |-> 0]

Init ==
  /\ request \in Requests
  /\ FlowInit(InputStream(request), Process)
  /\ \E c \in {-1, 0} : at = [p \in Process |-> Local(p, c)]

-----------------------------------------------------------------------------
(* Splitting the results of a PE over two queues *)

replicate_scanned_entries ==
  /\ left[replicate_scanned] > 0
  /\ fifo[s_scanned_entries] # <<>>
  /\ Transfer({s_scanned_entries},
       ToAll({s_replicated(i) : i \in PE}, Head(fifo[s_scanned_entries])))
  /\ QueryDone(replicate_scanned)
  /\ UNCHANGED <<at, request>>

\* Mutant: the counts are halves of the total, the extra result still goes to A.
Bug_split_begin(i) ==
  /\ left[split(i)] > 0 /\ at[split(i)].todo = 0
  /\ fifo[s_replicated(i)] # <<>>
  /\ LET n == Head(fifo[s_replicated(i)])
         half == n \div 2
     IN  /\ IF n % 2 = 1
            THEN /\ fifo[s_input(i)] # <<>>
                 /\ Transfer({s_replicated(i), s_input(i)},
                      To(s_insertion_L1(2 * i), half)
                        ++ To(s_insertion_L1(2 * i + 1), half + 1)
                        ++ To(s_splitted(2 * i), Head(fifo[s_input(i)])))
            ELSE Transfer({s_replicated(i)},
                   To(s_insertion_L1(2 * i), half)
                     ++ To(s_insertion_L1(2 * i + 1), half))
         /\ at' = [at EXCEPT ![split(i)].todo = 2 * half]
         /\ Finish(split(i), half = 0)
  /\ UNCHANGED request

\* Start of a query: with an odd number of results the first goes to queue A.
split_begin(i) ==
  /\ left[split(i)] > 0 /\ at[split(i)].todo = 0
  /\ fifo[s_replicated(i)] # <<>>
  /\ LET n == Head(fifo[s_replicated(i)])
         half == n \div 2
     IN  /\ IF n % 2 = 1
            THEN /\ fifo[s_input(i)] # <<>>
                 /\ Transfer({s_replicated(i), s_input(i)},
                      To(s_insertion_L1(2 * i), half + 1)
                        ++ To(s_insertion_L1(2 * i + 1), half)
                        ++ To(s_splitted(2 * i), Head(fifo[s_input(i)])))
            ELSE Transfer({s_replicated(i)},
                   To(s_insertion_L1(2 * i), half)
                     ++ To(s_insertion_L1(2 * i + 1), half))
         /\ at' = [at EXCEPT ![split(i)].todo = 2 * half]
         /\ Finish(split(i), half = 0)
  /\ UNCHANGED request

\* The rest alternates between queue A and queue B.
split_forward(i) ==
  LET todo == at[split(i)].todo
  IN  /\ todo > 0
      /\ fifo[s_input(i)] # <<>>
      /\ Transfer({s_input(i)},
           To(s_splitted(2 * i + (todo % 2)), Head(fifo[s_input(i)])))
      /\ at' = [at EXCEPT ![split(i)].todo = todo - 1]
      /\ Finish(split(i), todo = 1)
      /\ UNCHANGED request

-----------------------------------------------------------------------------
(* insert_wrapper of a queue at either level: process p reads the number of *)
(* insertions and resets the distances, inserts, writes its registers.      *)

Input(q, inputs) == [q EXCEPT ![0] = Head(fifo[inputs])]
Insert1(q, inputs) ==
  L1!compare_swap_array_step_B(L1!compare_swap_array_step_A(Input(q, inputs)))
Insert2(q, inputs) ==
  L2!compare_swap_array_step_B(L2!compare_swap_array_step_A(Input(q, inputs)))

\* Mutant: the distances are not reset.
Bug_queue_init(p, counts, size) ==
  /\ left[p] > 0 /\ at[p].phase = "idle"
  /\ fifo[counts] # <<>>
  /\ Transfer({counts}, Nothing)
  /\ LET n == Head(fifo[counts])
     IN  at' = [at EXCEPT ![p].phase = IF n = 0 THEN "write" ELSE "insert",
                          ![p].todo = IF n = 0 THEN size ELSE n]
  /\ Continues /\ UNCHANGED request

queue_init(p, counts, size) ==
  /\ left[p] > 0 /\ at[p].phase = "idle"
  /\ fifo[counts] # <<>>
  /\ Transfer({counts}, Nothing)
  /\ LET n == Head(fifo[counts])
     IN  at' = [at EXCEPT
           ![p].phase = IF n = 0 THEN "write" ELSE "insert",
           ![p].todo = IF n = 0 THEN size ELSE n,
           ![p].queue = [i \in DOMAIN @ |-> [@[i] EXCEPT !.dist = LARGE_NUM]]]
  /\ Continues /\ UNCHANGED request

queue_insert(p, inputs, inserted, size) ==
  /\ at[p].phase = "insert"
  /\ Transfer({inputs}, Nothing)
  /\ LET last == at[p].todo = 1
     IN  at' = [at EXCEPT
           ![p].phase = IF last THEN "write" ELSE "insert",
           ![p].todo = IF last THEN size ELSE @ - 1,
           ![p].queue = inserted]
  /\ Continues /\ UNCHANGED request

queue_write(p, outputs, size) ==
  LET todo == at[p].todo
  IN  /\ at[p].phase = "write"
      /\ Transfer({}, To(outputs, at[p].queue[size + 1 - todo]))
      /\ at' = [at EXCEPT ![p].phase = IF todo = 1 THEN "idle" ELSE "write",
                          ![p].todo = todo - 1]
      /\ Finish(p, todo = 1)
      /\ UNCHANGED request

queue_L1(s) ==
  LET p == priority_queue_L1(s)
      q == at[p].queue
  IN  \/ queue_init(p, s_insertion_L1(s), PRIORITY_QUEUE_LEN_L1)
      \/ queue_insert(p, s_splitted(s), Insert1(q, s_splitted(s)), PRIORITY_QUEUE_LEN_L1)
      \/ queue_write(p, s_with_offset(s), PRIORITY_QUEUE_LEN_L1)

queue_L2 ==
  \/ queue_init(priority_queue_L2, s_insertion_L2, TOPK)
  \/ queue_insert(priority_queue_L2, s_merged,
                  Insert2(at[priority_queue_L2].queue, s_merged), TOPK)
  \/ queue_write(priority_queue_L2, output_stream, TOPK)

-----------------------------------------------------------------------------
(* From (cell, offset) to the number of the vector *)

load_start_addr ==
  /\ Len(at[convert_offset].cell_ID_to_addr) < nlist
  /\ fifo[s_vec_ID_start_addr] # <<>>
  /\ Transfer({s_vec_ID_start_addr}, Nothing)
  /\ at' = [at EXCEPT ![convert_offset].cell_ID_to_addr =
              Append(@, Head(fifo[s_vec_ID_start_addr]))]
  /\ Continues /\ UNCHANGED request

\* cell_ID_to_addr[cell] + offset.  A padded result has cell -1, a register no
\* input reached has whatever it held before: the read may leave the array.
vec_ID_addr(reg) ==
  LET table == at[convert_offset].cell_ID_to_addr
  IN  IF reg.cell + 1 \in DOMAIN table
      THEN table[reg.cell + 1] + reg.offset
      ELSE Undefined

\* vec_ID_DRAM_b[addr]
vec_ID(b, addr) == IF addr = Undefined THEN Undefined ELSE <<b, addr>>

\* The next step of process p, which goes n times round its loop for a query.
Advance(p, n) ==
  /\ at' = [at EXCEPT ![p].pos = (@ + 1) % n]
  /\ Finish(p, at[p].pos = n - 1)
  /\ UNCHANGED request

Registers == PRIORITY_QUEUE_LEN_L1 * PRIORITY_QUEUE_NUM_L1

\* For each register the queues in turn, as the streams are written.
convert_vec_ID_offset_to_addr ==
  LET s == at[convert_offset].pos % PRIORITY_QUEUE_NUM_L1
  IN  /\ left[convert_offset] > 0
      /\ fifo[s_with_offset(s)] # <<>>
      /\ LET reg == Head(fifo[s_with_offset(s)])
         IN  Transfer({s_with_offset(s)},
               To(s_with_addr(s), [addr |-> vec_ID_addr(reg), dist |-> reg.dist]))
      /\ Advance(convert_offset, Registers)

\* The stream of queue s of bank b.
bank_stream(b, s) == s + b * PRIORITY_QUEUE_PER_BANK

convert_addr_to_vec_ID ==
  LET s == at[convert_addr].pos % PRIORITY_QUEUE_PER_BANK
      Bank == 0 .. DDR_BANK_NUM - 1
      in(b) == s_with_addr(bank_stream(b, s))
      BankOf(c) == CHOOSE b \in Bank : bank_stream(b, s) = c[2]
  IN  /\ left[convert_addr] > 0
      /\ \A b \in Bank : fifo[in(b)] # <<>>
      /\ Transfer({in(b) : b \in Bank},
           [c \in {s_with_vec_ID(bank_stream(b, s)) : b \in Bank} |->
              LET x == Head(fifo[in(BankOf(c))])
              IN  [vec_ID |-> vec_ID(BankOf(c), x.addr), dist |-> x.dist]])
      /\ Advance(convert_addr, PRIORITY_QUEUE_LEN_L1 * PRIORITY_QUEUE_PER_BANK)

merge_streams ==
  LET s == at[merge].pos % PRIORITY_QUEUE_NUM_L1
  IN  /\ left[merge] > 0
      /\ fifo[s_with_vec_ID(s)] # <<>>
      /\ Transfer({s_with_vec_ID(s)}, To(s_merged, Head(fifo[s_with_vec_ID(s)])))
      /\ Advance(merge, Registers)

\* Mutant: level 2 is told the length of one queue.
Bug_send_iter_num ==
  /\ left[send_iter] > 0
  /\ Transfer({}, To(s_insertion_L2, PRIORITY_QUEUE_LEN_L1))
  /\ QueryDone(send_iter)
  /\ UNCHANGED <<at, request>>

send_iter_num ==
  /\ left[send_iter] > 0
  /\ Transfer({}, To(s_insertion_L2, Registers))
  /\ QueryDone(send_iter)
  /\ UNCHANGED <<at, request>>

-----------------------------------------------------------------------------
\* A process reads its next header once its initialisation is over.
Loaded(p) == p = convert_offset =>
  Len(at[convert_offset].cell_ID_to_addr) = nlist

Worker == Process \ {replicate, split_wrapper}

Control ==
  /\ \/ replicate_s_batch_header(replicate, Stages)
     \/ replicate_s_batch_header(split_wrapper, Splitters)
     \/ \E p \in Worker : Loaded(p) /\ read_header(p)
  /\ UNCHANGED <<at, request>>

Body ==
  \/ replicate_scanned_entries
  \/ \E i \in PE : split_begin(i) \/ split_forward(i)
  \/ \E s \in Q1 : queue_L1(s)
  \/ load_start_addr \/ convert_vec_ID_offset_to_addr
  \/ convert_addr_to_vec_ID
  \/ merge_streams
  \/ send_iter_num
  \/ queue_L2

Finished == Drained(Process, {"output_stream"}) /\ UNCHANGED vars

Next == Control \/ Body \/ Finished

Spec == Init /\ [][Next]_vars

\* The processes are circuits: as long as one of them can move, one moves.
FairSpec == Spec /\ WF_vars(Next)

-----------------------------------------------------------------------------
(* Properties *)

Out == fifo[output_stream]
QueryIndex(k) == (k - 1) \div TOPK + 1   \* the query answered by Out[k]
Complete == {q \in DOMAIN Queries(request) : Len(Out) >= q * TOPK}
AnswerTo(q) == {k \in DOMAIN Out : QueryIndex(k) = q}

\* The valid results the compute PEs deliver for query q: <<row, PE>>.
Valid(q) ==
  LET rows == Queries(request)[q]
  IN  {x \in (DOMAIN rows) \X PE : rows[x[1]][x[2]].cell # -1}
Result(q, x) == Queries(request)[q][x[1]][x[2]]
VectorOf(q, x) ==
  <<x[2] \div ADC_PE_PER_CHANNEL, start_addr[Result(q, x).cell] + Result(q, x).offset>>

\* Every answer closer than padding is a vector that a PE computed for this
\* query, with its distance, and no vector is answered twice: neither the
\* registers an earlier query left behind nor the reads outside the tables
\* reach an answer.
AnswersBelong ==
  /\ \A k \in DOMAIN Out : Out[k].dist < LARGE_NUM =>
       \E x \in Valid(QueryIndex(k)) :
         /\ Out[k].vec_ID = VectorOf(QueryIndex(k), x)
         /\ Out[k].dist = Result(QueryIndex(k), x).dist
  /\ \A k, l \in DOMAIN Out :
       (/\ k # l /\ QueryIndex(k) = QueryIndex(l)
        /\ Out[k].dist < LARGE_NUM /\ Out[l].dist < LARGE_NUM)
       => Out[k].vec_ID # Out[l].vec_ID

\* The level-1 queue of its PE, A (0) or B (1), that result x of query q goes to: an
\* odd number of results starts with one more for A.
QueueOf(q, x) ==
  LET todo == Len(Queries(request)[q]) - x[1] + 1
  IN  IF x[1] = 1 THEN 0 ELSE todo % 2

\* The two levels are an approximation, but a bounded one: a result is missing
\* from the answer of its query only when TOPK answers are at least as close,
\* or when PRIORITY_QUEUE_LEN_L1 other results of the level-1 queue it went to are.
MissedOnlyIfCrowded ==
  \A q \in Complete : \A x \in Valid(q) :
    LET d == Result(q, x).dist
        Rivals == {y \in Valid(q) \ {x} : /\ y[2] = x[2] /\ QueueOf(q, y) = QueueOf(q, x)
                                         /\ Result(q, y).dist <= d}
    IN  \/ \E k \in AnswerTo(q) : Out[k].vec_ID = VectorOf(q, x)
        \/ \A k \in AnswerTo(q) : Out[k].dist <= d
        \/ Cardinality(Rivals) >= PRIORITY_QUEUE_LEN_L1

\* The region answers every query of every batch, passes the terminate header
\* to all its processes and leaves nothing in a stream, however little the
\* streams hold and in whatever order the processes move.
Answered ==
  <>(/\ Drained(Process, {"output_stream"})
     /\ Len(Out) = TOPK * Len(Queries(request)))
=============================================================================
