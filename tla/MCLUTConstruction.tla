--------------------------- MODULE MCLUTConstruction ---------------------------
EXTENDS LUTConstruction

\* The streams inside the region, of depth 2, 8 or 256 in the code.
MCdepth ==
  [c \in {"s_batch_header", "s_product_quantizer_init_sub_PE", "s_sub_query_vectors",
          "s_sub_center_vectors", "s_partial_distance_LUT", "s_distance_LUT_buffer"} |-> 1]

Batch(n, np) == [queries |-> n, nprobe |-> np]

\* Two cells of one query; two queries of one batch; two batches.
MCRequests == { <<Batch(1, 2)>>, <<Batch(2, 1)>>, <<Batch(1, 1), Batch(1, 1)>> }
=============================================================================
