-------------------------------- MODULE MCScan --------------------------------
EXTENDS Scan

\* The streams inside the accelerator, of depth 8 or 512 in the code.
MCdepth ==
  [c \in {"s_query_vectors", "s_center_vectors", "s_cell_ID", "s_cell_ID_get",
          "s_cell_ID_load", "s_nlist_start_addr", "s_nlist_num_vecs",
          "s_scanned_entries", "s_entries_load", "s_entries_ADC",
          "s_last_valid_PE_ID", "s_start_addr", "s_control_iter_num",
          "s_batch_header", "s_distance_LUT", "s_PQ_codes", "s_PQ_result"} |-> 1]

\* The first cell has an odd number of vectors, the second none.
MCstart_addr == 0 :> 0 @@ 1 :> 2
MCnum_vecs == 0 :> 3 @@ 1 :> 0

Batch(n, q) == [nprobe |-> n, queries |-> q]
Request(double, batches) == [double_buffer |-> double, batches |-> batches]

\* An empty cell before one with vectors; the same cell probed twice, with two
\* buffers; two queries of one batch, the second without a vector to scan.
MCRequests ==
  { Request(FALSE, <<Batch(2, << <<1, 0>> >>)>>),
    Request(TRUE, <<Batch(2, << <<0, 0>> >>)>>),
    Request(FALSE, <<Batch(1, << <<0>>, <<1>> >>)>>) }
=============================================================================
