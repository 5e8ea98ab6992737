----------------------------- MODULE IndexSearch -----------------------------
(***************************************************************************)
(* The running system without a GPU: the index server and one FPGA         *)
(* (simulator) process per FPGA.                                           *)
(***************************************************************************)
EXTENDS IndexServer, FPGARetriever, FiniteSets

vars == <<netVars, serverVars, fpgaVars>>

Init == NetInit /\ ServerInit /\ FPGAInit

\* Every program has run to its end, or the server was killed.
Finished == Joined /\ \A n \in FPGA : pcR[n] = "done" /\ pcS[n] = "done"

Halted == (Finished \/ crashed) /\ UNCHANGED vars

Next ==
  \/ ServerNext /\ UNCHANGED fpgaVars
  \/ \E n \in FPGA : FPGANext(n) /\ UNCHANGED serverVars
  \/ Reset /\ UNCHANGED <<serverVars, fpgaVars>>
  \/ Halted

Spec == Init /\ [][Next]_vars

\* Each thread is an operating-system thread, scheduled fairly; each program
\* is started eventually.
Fairness ==
  /\ WF_vars(~crashed /\ thread_index_scan /\ UNCHANGED fpgaVars)
  /\ WF_vars(~crashed /\ thread_C2F /\ UNCHANGED fpgaVars)
  /\ WF_vars(~crashed /\ thread_F2C /\ UNCHANGED fpgaVars)
  /\ \A n \in FPGA :
       /\ WF_vars(start_C2F_F2C_threads(n) /\ UNCHANGED serverVars)
       /\ WF_vars(FPGA_thread_C2F(n) /\ UNCHANGED serverVars)
       /\ WF_vars(FPGA_thread_F2C(n) /\ UNCHANGED serverVars)

FairSpec == Spec /\ Fairness

-----------------------------------------------------------------------------
(* Properties *)

\* Batches the index thread has taken a window slot for, batches the C2F
\* thread has taken over, queries it has taken a window slot for.
BatchesScanned == index_scan_batch_id + (IF pcI = "scan" THEN 1 ELSE 0)
BatchesTaken ==
  c2f_batch_id + (IF pcC \in {"window", "send"} THEN 1 ELSE 0)
QueriesBegun == finish_C2F_query_id + 1 + (IF pcC = "send" THEN 1 ELSE 0)

\* The scan runs at most batch_window_size batches ahead of the answers, the
\* C2F thread at most query_window_size queries, and the C2F thread never
\* takes a batch that is not scanned, whatever send() and read() return.
WithinWindows ==
  /\ BatchesScanned - f2c_batch_id <= batch_window_size
  /\ QueriesBegun - (finish_F2C_query_id + 1) <= query_window_size
  /\ BatchesTaken <= index_scan_batch_id

\* A row of the answer array holds the result for its own query: results are
\* matched to queries by position alone, so this is lost with a connection.
AnswersMatchQueries ==
  resets = 0 /\ pcF = "post_batch" => \A q \in Query :
    vector_ids_buf[q].id = f2c_batch_id * batch_size + q

\* The simulator reads a header where the server wrote a header and a query
\* where it wrote a query, also after a failed broadcast.
FramingInSync ==
  \A n \in FPGA : chan_c2f[n] # <<>> =>
    /\ pcR[n] = "header" => Head(chan_c2f[n]).type = "header"
    /\ pcR[n] = "query" => Head(chan_c2f[n]).type = "query"

\* A reset result connection costs at most one query's answers: for an FPGA
\* whose own connection is up, the queries counted as finished exceed the
\* results read from it by at most the number of connections that failed.
LostAnswersBounded ==
  LET failed == Cardinality({m \in FPGA : conn_f2c[m] = "dead"})
  IN  \A n \in FPGA : conn_f2c[n] = "open" =>
        finish_F2C_query_id - (fpga_finish_F2C_query_id[n] - Len(chan_f2c[n]))
          <= failed

\* All programs end with every query answered, unless a connection was refused
\* or reset.
Termination ==
  <>(Finished \/ resets > 0 \/ \E n \in FPGA : conn_c2f[n] = "dead")
=============================================================================
