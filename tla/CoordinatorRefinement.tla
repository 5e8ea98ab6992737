------------------------ MODULE CoordinatorRefinement ------------------------
(***************************************************************************)
(* The coordinator for GPU and FPGA, seen from the FPGAs, is the index     *)
(* server: receiving a batch takes the place of scanning it, and the ring  *)
(* buffer, the payload and the answer to the GPU are invisible.            *)
(* IndexSearch is thus the abstract specification of what                  *)
(* DisaggregatedSearch does to its FPGAs, as long as no connection is      *)
(* reset.                                                                  *)
(***************************************************************************)
EXTENDS DisaggregatedSearch

\* Where the three threads of the index server are.
index_pc == CASE pcG = "connect" -> "init"
              [] pcG \in {"read", "post"} -> "scan"
              [] OTHER -> pcG
C2F_pc == CASE pcC = "wait_G2C" -> "wait_index"
            [] pcC = "read_slot" -> "window"
            [] OTHER -> pcC
F2C_pc == IF pcF = "answer" THEN "post_batch" ELSE pcF

\* The messages without the payload.
Stripped(m) == IF m.type = "header" THEN m
               ELSE [type |-> "query", query |-> m.query]
StrippedAll(ch) == [i \in 1 .. Len(ch) |-> Stripped(ch[i])]
messages == [n \in FPGA |-> StrippedAll(chan_c2f[n])]

Server == INSTANCE IndexSearch WITH
  start_index <- start_G2C,
  index_scan_batch_id <- g2c_batch_id,
  pcI <- index_pc, pcC <- C2F_pc, pcF <- F2C_pc,
  chan_c2f <- messages, conn_g2c <- "none", chan_g2c <- <<>>, chan_c2g <- <<>>

\* Every behaviour of the coordinator and its FPGAs is one of the index server
\* and its FPGAs: the FPGAs cannot tell which of the two programs drives them.
ImplementsServer == Server!Spec
=============================================================================
