-------------------------- MODULE MCHierarchicalQueue --------------------------
EXTENDS HierarchicalQueue

MCdepth == [c \in {"s_batch_header", "s_replicated", "s_insertion_L1", "s_splitted",
                   "s_with_offset", "s_with_addr", "s_with_vec_ID", "s_merged",
                   "s_insertion_L2"} |-> 1]

MCstart_addr == 0 :> 0 @@ 1 :> 2

R(c, o, d) == 0 :> [cell |-> c, offset |-> o, dist |-> d]
Pad == R(-1, -1, LARGE_NUM)

\* Of the five results of the first query the first, second and fourth go to one
\* level-1 queue: the three closest, of which it keeps two.
MCRequests ==
  { << << <<R(0, 0, 2), R(0, 1, 1), R(1, 0, 3), R(0, 2, 1), R(1, 2, 3)>>, <<>> >>,
       << <<R(1, 1, 3)>> >> >>,
    << << <<R(0, 0, 1), R(1, 0, 1), R(0, 1, 1), Pad>>, <<R(0, 0, 2)>> >> >> }
=============================================================================
