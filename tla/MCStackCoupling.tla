---------------------------- MODULE MCStackCoupling ----------------------------
EXTENDS StackCoupling

\* Streams, but for the one to the search, of depth 1.
MCdepth(words) ==
  [c \in {"notification", "read_pkg", "rx_meta", "rx_data", "nextRxPacketLength",
          "s_consumeDataReady", "s_batch_header", "s_output", "s_kernel_network_out",
          "tx_meta", "tx_status"} |-> 1]
  @@ "s_kernel_network_in" :> words

MCdepth1 == MCdepth(1)
MCdepth2 == MCdepth(2)

Input(safe, segments, zeros, pkg, count, window, queries) ==
  [safe |-> safe, segments |-> segments, zeros |-> zeros, window |-> window,
   queries |-> queries, pkgWordCount |-> pkg, expectedTxPkgCnt |-> count,
   open |-> TRUE, retries |-> 1]

\* Two units to a word, two words to a query, and answers of four words: the
\* header, two words of vector numbers, one of distances.  pkgWordCount of 1 and
\* 2 divide an answer; with 3 the last words of an answer wait for the next query.
\* expectedTxPkgCnt is met exactly or never.
MCRequests ==
  { Input(FALSE, <<2, 2>>, 1, 1, 12, 2, 3),
    Input(FALSE, <<4>>, 0, 2, 9, 2, 3),
    Input(TRUE, <<2, 2>>, 0, 2, 6, 2, 3),
    Input(TRUE, <<4>>, 1, 1, 9, 2, 2),
    Input(FALSE, <<3, 1>>, 0, 3, 9, 2, 2),
    [Input(FALSE, <<4>>, 0, 1, 9, 1, 2) EXCEPT !.open = FALSE] }

\* A host seven queries ahead, for words and answers of the smallest size.
MCAhead == { [Input(FALSE, <<1, 1>>, 0, 1, 21, 7, 7) EXCEPT !.retries = 0] }
=============================================================================
