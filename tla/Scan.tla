--------------------------------- MODULE Scan ---------------------------------
(***************************************************************************)
(* The front end of the accelerator (accelerator_D1024_M64_batch.cpp,      *)
(* DRAM_utils.hpp, helpers.hpp, ADC.hpp): the words from the network are   *)
(* decoded into headers, cell numbers, query and centre vectors; each      *)
(* probed cell is turned into a start address and a number of rounds, its  *)
(* PQ codes are read from DRAM, one per compute PE and round, and each PE  *)
(* computes the distances with the lookup table of that query and cell.    *)
(*                                                                         *)
(* A word is [kind, ...]; a lookup-table row is the pair of query and      *)
(* centre vector it was built from, and stands for the distance as well.   *)
(* The code in slot a of address x of bank b is <<b, x, a>>.               *)
(***************************************************************************)
EXTENDS Dataflow

CONSTANTS DDR_BANK_NUM, ADC_PE_PER_CHANNEL,
          LUT_ENTRY_NUM,    \* rows of a lookup table
          CELLS_PER_WORD,   \* cell numbers in a word of the network stream
          nlist,            \* number of cells
          start_addr,       \* cell -> address of its codes, the same in all banks
          num_vecs,         \* cell -> number of its vectors
          Requests          \* inputs: [double_buffer, batches], a batch being
                            \* [nprobe, queries], a query its probed cells

ADC_PE_NUM == DDR_BANK_NUM * ADC_PE_PER_CHANNEL
PE == 0 .. ADC_PE_NUM - 1
Cell == 0 .. nlist - 1

\* Every query of a batch probes nprobe cells, one at least.
ASSUME ScanAssumption ==
  /\ {DDR_BANK_NUM, ADC_PE_PER_CHANNEL, LUT_ENTRY_NUM, CELLS_PER_WORD, nlist}
       \subseteq Nat \ {0}
  /\ start_addr \in [Cell -> Nat] /\ num_vecs \in [Cell -> Nat]
  /\ \A r \in Requests :
       /\ r.batches \in Seq([nprobe : Nat \ {0}, queries : Seq(Seq(Cell))])
       /\ \A b \in DOMAIN r.batches : \A q \in DOMAIN r.batches[b].queries :
            Len(r.batches[b].queries[q]) = r.batches[b].nprobe

VARIABLES at,       \* process -> where it is in its body, and its local data
          request   \* the input of this behaviour

vars == <<flowVars, at, request>>

-----------------------------------------------------------------------------
(* Processes and streams *)

network_input == <<"network_input", 0>>
replicate == <<"replicate", 0>>
load_meta == <<"load_meta", 0>>
LUT_construction == <<"LUT_construction", 0>>
replicate_cell == <<"replicate_cell", 0>>
get_cell == <<"get_cell", 0>>
replicate_entries == <<"replicate_entries", 0>>
load_codes == <<"load_codes", 0>>
ADC(i) == <<"ADC", i>>
LUT_consumer == <<"LUT_consumer", 0>>
K_selection == <<"K_selection", 0>>

Stages == {LUT_construction, replicate_cell, get_cell, replicate_entries, load_codes}
            \cup {ADC(i) : i \in PE} \cup {LUT_consumer, K_selection}
Process == {network_input, replicate, load_meta} \cup Stages

s_kernel_network_in == <<"s_kernel_network_in", 0>>
s_query_vectors == <<"s_query_vectors", 0>>
s_center_vectors == <<"s_center_vectors", 0>>
s_cell_ID == <<"s_cell_ID", 0>>
s_cell_ID_get == <<"s_cell_ID_get", 0>>
s_cell_ID_load == <<"s_cell_ID_load", 0>>
s_nlist_start_addr == <<"s_nlist_start_addr", 0>>
s_nlist_num_vecs == <<"s_nlist_num_vecs", 0>>
s_nlist_vec_ID_start_addr == <<"s_nlist_vec_ID_start_addr", 0>>
s_scanned_entries == <<"s_scanned_entries", 0>>
s_entries_load == <<"s_entries_load", 0>>
s_entries_ADC(i) == <<"s_entries_ADC", i>>
s_last_valid_PE_ID == <<"s_last_valid_PE_ID", 0>>
s_start_addr == <<"s_start_addr", 0>>
s_control_iter_num == <<"s_control_iter_num", 0>>
s_distance_LUT(i) == <<"s_distance_LUT", i>>
s_PQ_codes(i) == <<"s_PQ_codes", i>>
s_PQ_result(i) == <<"s_PQ_result", i>>
s_selected(i) == <<"s_selected", i>>

Stream ==
  {s_batch_header(p) : p \in Stages \cup {replicate}}
    \cup {s_kernel_network_in, s_query_vectors, s_center_vectors, s_cell_ID,
          s_cell_ID_get, s_cell_ID_load, s_nlist_start_addr, s_nlist_num_vecs,
          s_nlist_vec_ID_start_addr, s_scanned_entries, s_entries_load,
          s_last_valid_PE_ID, s_start_addr, s_control_iter_num,
          s_distance_LUT(ADC_PE_NUM)}
    \cup UNION {{s_entries_ADC(i), s_distance_LUT(i), s_PQ_codes(i),
                 s_PQ_result(i), s_selected(i)} : i \in PE}

-----------------------------------------------------------------------------
(* The input: the words of a batch, as the coordinator lays them out *)

Ceil(n, d) == (n + d - 1) \div d

\* The cell numbers of a query, padded to whole words.
CellWords(cells) ==
  [w \in 1 .. Ceil(Len(cells), CELLS_PER_WORD) |->
     [kind |-> "cells", cells |->
        [j \in 1 .. CELLS_PER_WORD |->
           LET n == (w - 1) * CELLS_PER_WORD + j
           IN  IF n <= Len(cells) THEN cells[n] ELSE 0]]]

QueryWord(b, q) == [kind |-> "query", batch |-> b, query |-> q]
CenterWord(b, q, n) == [kind |-> "center", batch |-> b, query |-> q, probe |-> n]

QueryWords(b, q, cells) ==
  CellWords(cells) \o <<QueryWord(b, q)>>
    \o [n \in DOMAIN cells |-> CenterWord(b, q, n)]

BatchWords(b, batch) ==
  <<[kind |-> "header", header |-> Header(Len(batch.queries), batch.nprobe)]>>
    \o FlattenSeq([q \in DOMAIN batch.queries |-> QueryWords(b, q, batch.queries[q])])

Words(r) ==
  FlattenSeq([b \in DOMAIN r.batches |-> BatchWords(b, r.batches[b])])
    \o <<[kind |-> "header", header |-> TerminateHeader]>>

\* Three arrays of nlist numbers: the start addresses of the codes, those of
\* the vector numbers (for the K-selection, abstracted), the cell sizes.
meta_data_init ==
  [k \in 0 .. 3 * nlist - 1 |->
     CASE k \div nlist = 0 -> start_addr[k]
       [] k \div nlist = 1 -> "vec_ID"
       [] OTHER -> num_vecs[k - 2 * nlist]]

NoRow == [query |-> <<>>, center |-> <<>>]   \* before a row is loaded

Local(p) ==
  CASE p = network_input -> [phase |-> "cells", pos |-> 0, word |-> <<>>]
    [] p = LUT_construction -> [phase |-> "query", source |-> NoRow, probe |-> 0, row |-> 0]
    [] p = get_cell -> [addr |-> <<>>, vecs |-> <<>>, probe |-> 0, iter_num |-> 0]
    [] p = load_codes -> [probe |-> 0, round |-> 0, cell |-> [rounds |-> 0]]
    [] p[1] = "ADC" -> [probe |-> 0, phase |-> "entries", entries |-> 0, pos |-> 0,
                        LUT |-> [s \in {0, 1} |-> [k \in 1 .. LUT_ENTRY_NUM |-> NoRow]]]
    [] p = K_selection -> [query |-> 1, todo |-> [i \in PE |-> 0]]
    [] OTHER -> [pos |-> 0]

Init ==
  /\ request \in Requests
  /\ FlowInit([c \in Stream |->
                 IF c = s_kernel_network_in THEN Words(request) ELSE <<>>], Process)
  /\ at = [p \in Process |-> Local(p)]

-----------------------------------------------------------------------------
(* network_input_processing *)

Input == Head(fifo[s_kernel_network_in])
SetAt(p, local) == at' = [at EXCEPT ![p] = local]

net_header ==
  /\ network_input \notin ended /\ left[network_input] = 0
  /\ fifo[s_kernel_network_in] # <<>>
  /\ LET h == Input.header
     IN  /\ Transfer({s_kernel_network_in}, To(s_batch_header(replicate), h))
         /\ left' = [left EXCEPT ![network_input] = h.batch_size]
         /\ nprobe' = [nprobe EXCEPT ![network_input] = h.nprobe]
         /\ ended' = IF h.terminate THEN ended \cup {network_input} ELSE ended
  /\ UNCHANGED <<at, request>>

\* The next word of cell numbers is read, then those below nprobe are written.
net_cell_word ==
  LET l == at[network_input]
  IN  /\ left[network_input] > 0 /\ l.phase = "cells" /\ l.word = <<>>
      /\ Transfer({s_kernel_network_in}, Nothing)
      /\ SetAt(network_input, [l EXCEPT !.word = Input.cells])
      /\ Continues /\ UNCHANGED request

net_cell ==
  LET l == at[network_input]
      next == l.pos + 1
      last == next = nprobe[network_input]
  IN  /\ l.phase = "cells" /\ l.word # <<>>
      /\ Transfer({}, To(s_cell_ID, l.word[(l.pos % CELLS_PER_WORD) + 1]))
      /\ SetAt(network_input,
           [phase |-> IF last THEN "query" ELSE "cells",
            pos |-> IF last THEN 0 ELSE next,
            word |-> IF last \/ next % CELLS_PER_WORD = 0 THEN <<>> ELSE l.word])
      /\ Continues /\ UNCHANGED request

\* The query vector, one word standing for size_query_vector.
net_query ==
  /\ at[network_input].phase = "query"
  /\ fifo[s_kernel_network_in] # <<>>
  /\ Transfer({s_kernel_network_in}, To(s_query_vectors, Input))
  /\ at' = [at EXCEPT ![network_input].phase = "center"]
  /\ Continues /\ UNCHANGED request

\* The centre vectors of its cells.
net_center ==
  LET l == at[network_input]
      last == l.pos + 1 = nprobe[network_input]
  IN  /\ l.phase = "center"
      /\ fifo[s_kernel_network_in] # <<>>
      /\ Transfer({s_kernel_network_in}, To(s_center_vectors, Input))
      /\ SetAt(network_input,
           [l EXCEPT !.phase = IF last THEN "cells" ELSE "center",
                     !.pos = IF last THEN 0 ELSE @ + 1])
      /\ Finish(network_input, last)
      /\ UNCHANGED request

network_input_processing ==
  net_header \/ net_cell_word \/ net_cell \/ net_query \/ net_center

-----------------------------------------------------------------------------
(* From cell numbers to codes *)

\* Mutant: the sizes are taken from the array of the start addresses.
Bug_load_meta_data ==
  LET i == at[load_meta].pos
  IN  /\ load_meta \notin ended
      /\ Transfer({}, To(s_nlist_start_addr, meta_data_init[2 * nlist + i])
                        ++ To(s_nlist_vec_ID_start_addr, meta_data_init[nlist + i])
                        ++ To(s_nlist_num_vecs, meta_data_init[2 * nlist + i]))
      /\ at' = [at EXCEPT ![load_meta].pos = i + 1]
      /\ ended' = IF i + 1 = nlist THEN ended \cup {load_meta} ELSE ended
      /\ UNCHANGED <<left, nprobe, request>>

load_meta_data ==
  LET i == at[load_meta].pos
  IN  /\ load_meta \notin ended
      /\ Transfer({}, To(s_nlist_start_addr, meta_data_init[i])
                        ++ To(s_nlist_vec_ID_start_addr, meta_data_init[nlist + i])
                        ++ To(s_nlist_num_vecs, meta_data_init[2 * nlist + i]))
      /\ at' = [at EXCEPT ![load_meta].pos = i + 1]
      /\ ended' = IF i + 1 = nlist THEN ended \cup {load_meta} ELSE ended
      /\ UNCHANGED <<left, nprobe, request>>

\* The next probed cell of the query process p is at.
NextProbe(p) == (at[p].probe + 1) % nprobe[p]

replicate_s_cell_ID ==
  /\ left[replicate_cell] > 0
  /\ fifo[s_cell_ID] # <<>>
  /\ Transfer({s_cell_ID}, ToAll({s_cell_ID_get, s_cell_ID_load}, Head(fifo[s_cell_ID])))
  /\ at' = [at EXCEPT ![replicate_cell].pos = (@ + 1) % nprobe[replicate_cell]]
  /\ Finish(replicate_cell, at[replicate_cell].pos + 1 = nprobe[replicate_cell])
  /\ UNCHANGED request

get_cell_init ==
  /\ Len(at[get_cell].addr) < nlist
  /\ fifo[s_nlist_start_addr] # <<>> /\ fifo[s_nlist_num_vecs] # <<>>
  /\ Transfer({s_nlist_start_addr, s_nlist_num_vecs}, Nothing)
  /\ at' = [at EXCEPT
       ![get_cell].addr = Append(@, Head(fifo[s_nlist_start_addr])),
       ![get_cell].vecs = Append(@, Head(fifo[s_nlist_num_vecs]))]
  /\ Continues /\ UNCHANGED request

\* Rounds in which every PE scans one vector, and the last PE with a vector in
\* the last round.
scanned_entries_every_cell(num_vec) == Ceil(num_vec, ADC_PE_NUM)
\* Mutant: off by one.
Bug_last_valid_PE_ID(num_vec) ==
  IF num_vec % ADC_PE_NUM = 0 THEN ADC_PE_NUM - 1 ELSE num_vec % ADC_PE_NUM
last_valid_PE_ID(num_vec) ==
  IF num_vec % ADC_PE_NUM = 0 THEN ADC_PE_NUM - 1 ELSE (num_vec % ADC_PE_NUM) - 1

get_cell_probe ==
  LET l == at[get_cell]
      cell == Head(fifo[s_cell_ID_get])
      num_vec == l.vecs[cell + 1]
      entries == scanned_entries_every_cell(num_vec)
  IN  /\ left[get_cell] > 0 /\ l.probe < nprobe[get_cell]
      /\ fifo[s_cell_ID_get] # <<>>
      /\ Transfer({s_cell_ID_get}, To(s_scanned_entries, entries)
                                     ++ To(s_last_valid_PE_ID, last_valid_PE_ID(num_vec))
                                     ++ To(s_start_addr, l.addr[cell + 1]))
      /\ SetAt(get_cell, [l EXCEPT !.probe = @ + 1, !.iter_num = @ + entries])
      /\ Continues /\ UNCHANGED request

\* Mutant: the count goes on from query to query.
Bug_get_cell_iter_num ==
  LET l == at[get_cell]
  IN  /\ left[get_cell] > 0 /\ l.probe = nprobe[get_cell]
      /\ Transfer({}, To(s_control_iter_num, l.iter_num))
      /\ SetAt(get_cell, [l EXCEPT !.probe = 0])
      /\ QueryDone(get_cell)
      /\ UNCHANGED request

\* The number of rounds of the query, known after its last cell.
get_cell_iter_num ==
  LET l == at[get_cell]
  IN  /\ left[get_cell] > 0 /\ l.probe = nprobe[get_cell]
      /\ Transfer({}, To(s_control_iter_num, l.iter_num))
      /\ SetAt(get_cell, [l EXCEPT !.probe = 0, !.iter_num = 0])
      /\ QueryDone(get_cell)
      /\ UNCHANGED request

get_cell_addr_and_size == get_cell_init \/ get_cell_probe \/ get_cell_iter_num

replicate_s_scanned_entries_every_cell ==
  /\ left[replicate_entries] > 0
  /\ fifo[s_scanned_entries] # <<>>
  /\ Transfer({s_scanned_entries},
       ToAll({s_entries_load} \cup {s_entries_ADC(i) : i \in PE},
             Head(fifo[s_scanned_entries])))
  /\ at' = [at EXCEPT ![replicate_entries].pos = (@ + 1) % nprobe[replicate_entries]]
  /\ Finish(replicate_entries, at[replicate_entries].pos + 1 = nprobe[replicate_entries])
  /\ UNCHANGED request

\* A cell to scan; one without vectors needs no round.
load_cell ==
  LET l == at[load_codes]
      In == {s_cell_ID_load, s_entries_load, s_last_valid_PE_ID, s_start_addr}
      rounds == Head(fifo[s_entries_load])
  IN  /\ left[load_codes] > 0 /\ l.cell.rounds = 0
      /\ \A c \in In : fifo[c] # <<>>
      /\ Transfer(In, Nothing)
      /\ SetAt(load_codes,
           [probe |-> IF rounds = 0 THEN NextProbe(load_codes) ELSE l.probe,
            round |-> 0,
            cell |-> [ID |-> Head(fifo[s_cell_ID_load]), rounds |-> rounds,
                      last_valid |-> Head(fifo[s_last_valid_PE_ID]),
                      addr |-> Head(fifo[s_start_addr])]])
      /\ Finish(load_codes, rounds = 0 /\ NextProbe(load_codes) = 0)
      /\ UNCHANGED request

\* One code for every PE; those past the end of the cell are not valid.
PQ_code(cell, round, i) ==
  LET slot == i % ADC_PE_PER_CHANNEL
  IN  [valid |-> ~ (round = cell.rounds - 1 /\ i > cell.last_valid),
       cell |-> cell.ID,
       offset |-> round * ADC_PE_PER_CHANNEL + slot,
       code |-> <<i \div ADC_PE_PER_CHANNEL, cell.addr + round, slot>>]

load_round ==
  LET l == at[load_codes]
      last == l.round + 1 = l.cell.rounds
  IN  /\ l.cell.rounds > 0
      /\ Transfer({}, [c \in {s_PQ_codes(i) : i \in PE} |-> PQ_code(l.cell, l.round, c[2])])
      /\ SetAt(load_codes,
           IF last THEN [probe |-> NextProbe(load_codes), round |-> 0, cell |-> [rounds |-> 0]]
           ELSE [l EXCEPT !.round = @ + 1])
      /\ Finish(load_codes, last /\ NextProbe(load_codes) = 0)
      /\ UNCHANGED request

load_PQ_codes == load_cell \/ load_round

-----------------------------------------------------------------------------
(* The lookup tables; the processes of LUT_construction.hpp are taken as one *)

LUT_vectors ==
  LET l == at[LUT_construction]
  IN  /\ left[LUT_construction] > 0
      /\ \/ /\ l.phase = "query" /\ fifo[s_query_vectors] # <<>>
            /\ Transfer({s_query_vectors}, Nothing)
            /\ SetAt(LUT_construction, [l EXCEPT
                 !.phase = "center", !.source.query = Head(fifo[s_query_vectors])])
         \/ /\ l.phase = "center" /\ fifo[s_center_vectors] # <<>>
            /\ Transfer({s_center_vectors}, Nothing)
            /\ SetAt(LUT_construction, [l EXCEPT
                 !.phase = "rows", !.source.center = Head(fifo[s_center_vectors])])
      /\ Continues /\ UNCHANGED request

LUT_row ==
  LET l == at[LUT_construction]
      full == l.row + 1 = LUT_ENTRY_NUM
      done == full /\ NextProbe(LUT_construction) = 0
  IN  /\ l.phase = "rows"
      /\ Transfer({}, To(s_distance_LUT(0), l.source))
      /\ SetAt(LUT_construction, [l EXCEPT
           !.phase = IF done THEN "query" ELSE IF full THEN "center" ELSE "rows",
           !.source = IF done THEN NoRow ELSE @,
           !.probe = IF full THEN NextProbe(LUT_construction) ELSE @,
           !.row = IF full THEN 0 ELSE @ + 1])
      /\ Finish(LUT_construction, done)
      /\ UNCHANGED request

-----------------------------------------------------------------------------
(* The compute PEs: each passes the rows of its table on to the next one *)

\* The distance of a code: the rows of the table it is the sum over.
ADC_result(c, table) ==
  IF c.valid
  THEN [cell |-> c.cell, offset |-> c.offset, code |-> c.code,
        dist |-> {table[k] : k \in DOMAIN table}]
  ELSE [cell |-> -1, offset |-> -1, code |-> c.code, dist |-> {}]

ADC_entries(i) ==
  LET l == at[ADC(i)]
  IN  /\ ~ request.double_buffer
      /\ left[ADC(i)] > 0 /\ l.phase = "entries"
      /\ fifo[s_entries_ADC(i)] # <<>>
      /\ Transfer({s_entries_ADC(i)}, Nothing)
      /\ SetAt(ADC(i), [l EXCEPT !.phase = "LUT", !.entries = Head(fifo[s_entries_ADC(i)])])
      /\ Continues /\ UNCHANGED request

\* PE i has finished a cell.
ADC_next(i, l) == [l EXCEPT !.phase = "entries", !.entries = 0, !.pos = 0,
                            !.probe = NextProbe(ADC(i))]

ADC_copy_row(i) ==
  LET l == at[ADC(i)]
      row == Head(fifo[s_distance_LUT(i)])
      full == l.pos + 1 = LUT_ENTRY_NUM
      loaded == [l EXCEPT !.LUT[0][l.pos + 1] = row, !.pos = IF full THEN 0 ELSE @ + 1,
                          !.phase = IF full THEN "scan" ELSE "LUT"]
      empty == full /\ l.entries = 0
  IN  /\ ~ request.double_buffer /\ l.phase = "LUT"
      /\ fifo[s_distance_LUT(i)] # <<>>
      /\ Transfer({s_distance_LUT(i)}, To(s_distance_LUT(i + 1), row))
      /\ SetAt(ADC(i), IF empty THEN ADC_next(i, loaded) ELSE loaded)
      /\ Finish(ADC(i), empty /\ NextProbe(ADC(i)) = 0)
      /\ UNCHANGED request

ADC_scan(i) ==
  LET l == at[ADC(i)]
      last == l.pos + 1 = l.entries
  IN  /\ ~ request.double_buffer /\ l.phase = "scan"
      /\ fifo[s_PQ_codes(i)] # <<>>
      /\ Transfer({s_PQ_codes(i)},
           To(s_PQ_result(i), ADC_result(Head(fifo[s_PQ_codes(i)]), l.LUT[0])))
      /\ SetAt(ADC(i), IF last THEN ADC_next(i, l) ELSE [l EXCEPT !.pos = @ + 1])
      /\ Finish(ADC(i), last /\ NextProbe(ADC(i)) = 0)
      /\ UNCHANGED request

PQ_lookup_computation(i) == ADC_entries(i) \/ ADC_copy_row(i) \/ ADC_scan(i)

\* With two buffers the table of a cell is loaded while the cell before it is
\* scanned: nprobe + 1 rounds, the first only loads, the last only scans.
double_entries(i) ==
  LET l == at[ADC(i)]
  IN  /\ request.double_buffer
      /\ left[ADC(i)] > 0 /\ l.phase = "entries"
      /\ IF l.probe = 0 THEN Transfer({}, Nothing)
         ELSE fifo[s_entries_ADC(i)] # <<>> /\ Transfer({s_entries_ADC(i)}, Nothing)
      /\ SetAt(ADC(i), [l EXCEPT !.phase = "both",
           !.entries = IF l.probe = 0 THEN 0 ELSE Head(fifo[s_entries_ADC(i)])])
      /\ Continues /\ UNCHANGED request

\* Mutant: a cell is scanned with the buffer that is being loaded.
Bug_scanned_buffer(probe) == probe % 2
loaded_buffer(probe) == probe % 2
scanned_buffer(probe) == (probe + 1) % 2

double_iteration(i) ==
  LET l == at[ADC(i)]
      np == nprobe[ADC(i)]
      loads == l.probe < np /\ l.pos < LUT_ENTRY_NUM
      scans == l.probe > 0 /\ l.pos < l.entries
      row == Head(fifo[s_distance_LUT(i)])
      last == l.pos + 1 >= l.entries /\ l.pos + 1 >= LUT_ENTRY_NUM
      loaded == IF loads THEN [l EXCEPT !.LUT[loaded_buffer(l.probe)][l.pos + 1] = row]
                ELSE l
      result == ADC_result(Head(fifo[s_PQ_codes(i)]), l.LUT[scanned_buffer(l.probe)])
  IN  /\ request.double_buffer /\ l.phase = "both"
      /\ loads => fifo[s_distance_LUT(i)] # <<>>
      /\ scans => fifo[s_PQ_codes(i)] # <<>>
      /\ Transfer((IF loads THEN {s_distance_LUT(i)} ELSE {})
                    \cup (IF scans THEN {s_PQ_codes(i)} ELSE {}),
                  (IF loads THEN To(s_distance_LUT(i + 1), row) ELSE Nothing)
                    ++ (IF scans THEN To(s_PQ_result(i), result) ELSE Nothing))
      /\ SetAt(ADC(i),
           IF last THEN [loaded EXCEPT !.phase = "entries", !.entries = 0, !.pos = 0,
                                       !.probe = (@ + 1) % (np + 1)]
           ELSE [loaded EXCEPT !.pos = @ + 1])
      /\ Finish(ADC(i), last /\ l.probe = np)
      /\ UNCHANGED request

PQ_lookup_computation_double_buffer(i) == double_entries(i) \/ double_iteration(i)

\* The rows that left the last PE.
dummy_distance_LUT_consumer ==
  LET p == at[LUT_consumer].pos
      rows == nprobe[LUT_consumer] * LUT_ENTRY_NUM
  IN  /\ left[LUT_consumer] > 0
      /\ Transfer({s_distance_LUT(ADC_PE_NUM)}, Nothing)
      /\ at' = [at EXCEPT ![LUT_consumer].pos = (p + 1) % rows]
      /\ Finish(LUT_consumer, p + 1 = rows)
      /\ UNCHANGED request

-----------------------------------------------------------------------------
(* What the K-selection (HierarchicalQueue) takes: the number of results of a *)
(* query first, then that many results of every PE.                           *)

NextQuery(l) == [l EXCEPT !.query = @ + 1]

select_query ==
  LET n == Head(fifo[s_control_iter_num])
      l == at[K_selection]
  IN  /\ left[K_selection] > 0 /\ \A i \in PE : l.todo[i] = 0
      /\ fifo[s_control_iter_num] # <<>>
      /\ Transfer({s_control_iter_num}, Nothing)
      /\ SetAt(K_selection, IF n = 0 THEN NextQuery(l)
                            ELSE [l EXCEPT !.todo = [i \in PE |-> n]])
      /\ Finish(K_selection, n = 0)
      /\ UNCHANGED request

select_result(i) ==
  LET l == at[K_selection]
      taken == [l EXCEPT !.todo[i] = @ - 1]
      last == \A j \in PE : taken.todo[j] = 0
  IN  /\ l.todo[i] > 0
      /\ fifo[s_PQ_result(i)] # <<>>
      /\ Transfer({s_PQ_result(i)},
           To(s_selected(i), [query |-> l.query, result |-> Head(fifo[s_PQ_result(i)])]))
      /\ SetAt(K_selection, IF last THEN NextQuery(taken) ELSE taken)
      /\ Finish(K_selection, last)
      /\ UNCHANGED request

-----------------------------------------------------------------------------
Loaded(p) == p = get_cell => Len(at[get_cell].addr) = nlist

Control ==
  /\ \/ replicate_s_batch_header(replicate, Stages)
     \/ \E p \in Stages : Loaded(p) /\ read_header(p)
  /\ UNCHANGED <<at, request>>

Body ==
  \/ network_input_processing \/ load_meta_data
  \/ replicate_s_cell_ID \/ get_cell_addr_and_size
  \/ replicate_s_scanned_entries_every_cell \/ load_PQ_codes
  \/ LUT_vectors \/ LUT_row
  \/ \E i \in PE : PQ_lookup_computation(i) \/ PQ_lookup_computation_double_buffer(i)
  \/ dummy_distance_LUT_consumer
  \/ select_query \/ \E i \in PE : select_result(i)

Outputs == {"s_selected", "s_nlist_vec_ID_start_addr"}
Finished == Drained(Process, Outputs) /\ UNCHANGED vars

Next == Control \/ Body \/ Finished

Spec == Init /\ [][Next]_vars

\* The processes are circuits: as long as one of them can move, one moves.
FairSpec == Spec /\ WF_vars(Next)

-----------------------------------------------------------------------------
(* Properties *)

\* The queries of all batches in turn: <<batch, index in the batch>>.
QueryOf ==
  FlattenSeq([b \in DOMAIN request.batches |->
                [q \in DOMAIN request.batches[b].queries |-> <<b, q>>]])
Cells(n) == request.batches[QueryOf[n][1]].queries[QueryOf[n][2]]
TableRow(n, k) == [query |-> QueryWord(QueryOf[n][1], QueryOf[n][2]),
                   center |-> CenterWord(QueryOf[n][1], QueryOf[n][2], k)]

\* The vectors the PEs delivered for cell k of query n: <<PE, position>>.
Scanned(n, k) ==
  {x \in UNION {{<<i, j>> : j \in DOMAIN fifo[s_selected(i)]} : i \in PE} :
     LET y == fifo[s_selected(x[1])][x[2]]
     IN  y.query = n /\ y.result.dist = {TableRow(n, k)}}
ResultAt(x) == fifo[s_selected(x[1])][x[2]].result

\* A vector of a cell is scanned with the complete table of that cell and of
\* the query it is counted for: no row of an earlier cell or query is left,
\* and the counts of a query match its results.
OwnTable ==
  \A i \in PE : \A j \in DOMAIN fifo[s_selected(i)] :
    LET y == fifo[s_selected(i)][j]
    IN  y.result.cell # -1 =>
          \E k \in DOMAIN Cells(y.query) :
            /\ Cells(y.query)[k] = y.result.cell
            /\ y.result.dist = {TableRow(y.query, k)}

\* The offset a result carries, by which the K-selection will look up the
\* number of the vector, is the place its code was read from.
OffsetMatchesCode ==
  \A i \in PE : \A j \in DOMAIN fifo[s_selected(i)] :
    LET r == fifo[s_selected(i)][j].result
    IN  r.cell # -1 =>
          r.code = <<i \div ADC_PE_PER_CHANNEL,
                     start_addr[r.cell] + r.offset \div ADC_PE_PER_CHANNEL,
                     r.offset % ADC_PE_PER_CHANNEL>>

\* When a query is complete every probed cell was scanned: as many vectors as
\* it has, none of them twice.
EachVectorOnce ==
  \A n \in 1 .. at[K_selection].query - 1 : \A k \in DOMAIN Cells(n) :
    LET S == Scanned(n, k)
    IN  /\ Cardinality(S) = num_vecs[Cells(n)[k]]
        /\ \A x, y \in S : ResultAt(x).code = ResultAt(y).code => x = y

\* The number of results of a query is known only after its last cell, while
\* results are held up until it is known: the cells of a query have to fit into
\* the streams between get_cell_addr_and_size and load_PQ_codes.
ProbesFit ==
  \A b \in DOMAIN request.batches :
    request.batches[b].nprobe <= depth["s_start_addr"] + 1

\* If they fit, every batch is scanned to the end, the terminate header reaches
\* every process and nothing is left in a stream.
ScanEnds == ProbesFit => <>Drained(Process, Outputs)
=============================================================================
