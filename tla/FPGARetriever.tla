---------------------------- MODULE FPGARetriever ----------------------------
(***************************************************************************)
(* class FPGARetriever of FPGA_simulator.cpp, one process per FPGA: the    *)
(* C2F thread receives headers and queries, the F2C thread sends one       *)
(* result per received query.  They share two start flags, two counting    *)
(* semaphores and the header array buf_header.                             *)
(***************************************************************************)
EXTENDS Network

CONSTANT InOrder    \* FPGA programs are started in the documented order

ASSUME RetrieverAssumption == InOrder \in BOOLEAN

VARIABLES
  pcR, rcv_query_id,          \* thread_C2F: program counter, loop variable
  pcS, snd_query_id,          \* thread_F2C
  fpga_start_C2F, fpga_start_F2C,
  sem_available_batches, sem_available_results,
  buf_header,                 \* the headers received; C2F_batch_id is Len - 1
  F2C_batch_id,
  fpga_finish_C2F_query_id, fpga_finish_F2C_query_id

rcvVars == <<pcR, rcv_query_id, fpga_start_C2F, buf_header,
             fpga_finish_C2F_query_id>>
sndVars == <<pcS, snd_query_id, fpga_start_F2C, F2C_batch_id,
             fpga_finish_F2C_query_id>>
fpgaVars == <<rcvVars, sndVars, sem_available_batches, sem_available_results>>

FPGAInit ==
  /\ pcR = [n \in FPGA |-> "off"]
  /\ pcS = [n \in FPGA |-> "off"]
  /\ rcv_query_id = [n \in FPGA |-> 0]
  /\ snd_query_id = [n \in FPGA |-> 0]
  /\ fpga_start_C2F = [n \in FPGA |-> FALSE]
  /\ fpga_start_F2C = [n \in FPGA |-> FALSE]
  /\ sem_available_batches = [n \in FPGA |-> 0]
  /\ sem_available_results = [n \in FPGA |-> 0]
  /\ buf_header = [n \in FPGA |-> <<>>]
  /\ F2C_batch_id = [n \in FPGA |-> -1]
  /\ fpga_finish_C2F_query_id = [n \in FPGA |-> -1]
  /\ fpga_finish_F2C_query_id = [n \in FPGA |-> -1]

\* The program of FPGA n is started: both threads begin.  In the documented
\* order the coordinator is already waiting for this FPGA.
start_C2F_F2C_threads(n) ==
  /\ pcR[n] = "off"
  /\ InOrder => conn_f2c[n] = "listen"
  /\ pcR' = [pcR EXCEPT ![n] = "listen"]
  /\ pcS' = [pcS EXCEPT ![n] = "connect"]
  /\ UNCHANGED <<rcv_query_id, snd_query_id, fpga_start_C2F, fpga_start_F2C,
                 sem_available_batches, sem_available_results, buf_header,
                 F2C_batch_id, fpga_finish_C2F_query_id,
                 fpga_finish_F2C_query_id, netVars>>

-----------------------------------------------------------------------------
(* thread_C2F *)

\* socket, bind, listen.
R_listen(n) ==
  /\ pcR[n] = "listen"
  /\ pcR' = [pcR EXCEPT ![n] = "accept"]
  /\ conn_c2f' = [conn_c2f EXCEPT ![n] = IF @ = "none" THEN "listen" ELSE @]
  /\ UNCHANGED <<rcv_query_id, fpga_start_C2F, buf_header,
                 fpga_finish_C2F_query_id, sndVars, sem_available_batches,
                 sem_available_results, conn_f2c, conn_g2c, chan_c2f, chan_f2c,
                 chan_g2c, chan_c2g, resets>>

\* accept, start_C2F = true.
R_accept(n) ==
  /\ pcR[n] = "accept" /\ conn_c2f[n] \in {"open", "reset"}
  /\ pcR' = [pcR EXCEPT ![n] = "wait_F2C"]
  /\ fpga_start_C2F' = [fpga_start_C2F EXCEPT ![n] = TRUE]
  /\ UNCHANGED <<rcv_query_id, buf_header, fpga_finish_C2F_query_id, sndVars,
                 sem_available_batches, sem_available_results, netVars>>

R_wait_F2C(n) ==
  /\ pcR[n] = "wait_F2C" /\ fpga_start_F2C[n]
  /\ pcR' = [pcR EXCEPT ![n] = "header"]
  /\ UNCHANGED <<rcv_query_id, fpga_start_C2F, buf_header,
                 fpga_finish_C2F_query_id, sndVars, sem_available_batches,
                 sem_available_results, netVars>>

\* Store the header at C2F_batch_id + 1, post it, stop after a terminate.
R_header(n) ==
  /\ pcR[n] = "header"
  /\ chan_c2f[n] # <<>>
  /\ LET header == Head(chan_c2f[n])
     IN  /\ header.type = "header"
         /\ buf_header' = [buf_header EXCEPT ![n] = Append(@, header)]
         /\ pcR' = [pcR EXCEPT ![n] = IF header.terminate THEN "done"
                                                           ELSE "query"]
  /\ chan_c2f' = [chan_c2f EXCEPT ![n] = Tail(@)]
  /\ sem_available_batches' = [sem_available_batches EXCEPT ![n] = @ + 1]
  /\ UNCHANGED <<rcv_query_id, fpga_start_C2F, fpga_finish_C2F_query_id,
                 sndVars, sem_available_results, conn_c2f, conn_f2c, conn_g2c,
                 chan_f2c, chan_g2c, chan_c2g, resets>>

\* Mutant: the loop over the queries of a batch stops one query early.
Bug_R_last_query(n) ==
  rcv_query_id[n] = buf_header[n][Len(buf_header[n])].batch_size - 2

R_last_query(n) ==
  rcv_query_id[n] = buf_header[n][Len(buf_header[n])].batch_size - 1

\* Mutant: a query is announced to the F2C thread twice.
Bug_R_query(n) ==
  /\ pcR[n] = "query"
  /\ chan_c2f[n] # <<>> /\ Head(chan_c2f[n]).type = "query"
  /\ chan_c2f' = [chan_c2f EXCEPT ![n] = Tail(@)]
  /\ fpga_finish_C2F_query_id' = [fpga_finish_C2F_query_id EXCEPT ![n] = @ + 1]
  /\ sem_available_results' = [sem_available_results EXCEPT ![n] = @ + 2]
  /\ rcv_query_id' = [rcv_query_id EXCEPT
                        ![n] = IF R_last_query(n) THEN 0 ELSE @ + 1]
  /\ pcR' = [pcR EXCEPT ![n] = IF R_last_query(n) THEN "header" ELSE "query"]
  /\ UNCHANGED <<fpga_start_C2F, buf_header, sndVars, sem_available_batches,
                 conn_c2f, conn_f2c, conn_g2c, chan_f2c, chan_g2c, chan_c2g,
                 resets>>

\* Receive a query of the batch, count it, announce it to the F2C thread.
R_query(n) ==
  /\ pcR[n] = "query"
  /\ chan_c2f[n] # <<>> /\ Head(chan_c2f[n]).type = "query"
  /\ chan_c2f' = [chan_c2f EXCEPT ![n] = Tail(@)]
  /\ fpga_finish_C2F_query_id' = [fpga_finish_C2F_query_id EXCEPT ![n] = @ + 1]
  /\ sem_available_results' = [sem_available_results EXCEPT ![n] = @ + 1]
  /\ rcv_query_id' = [rcv_query_id EXCEPT
                        ![n] = IF R_last_query(n) THEN 0 ELSE @ + 1]
  /\ pcR' = [pcR EXCEPT ![n] = IF R_last_query(n) THEN "header" ELSE "query"]
  /\ UNCHANGED <<fpga_start_C2F, buf_header, sndVars, sem_available_batches,
                 conn_c2f, conn_f2c, conn_g2c, chan_f2c, chan_g2c, chan_c2g,
                 resets>>

\* read() returns -1: the thread returns.
R_fail(n) ==
  /\ pcR[n] \in {"header", "query"}
  /\ chan_c2f[n] = <<>> /\ conn_c2f[n] \in {"reset", "dead"}
  /\ pcR' = [pcR EXCEPT ![n] = "failed"]
  /\ UNCHANGED <<rcv_query_id, fpga_start_C2F, buf_header,
                 fpga_finish_C2F_query_id, sndVars, sem_available_batches,
                 sem_available_results, netVars>>

FPGA_thread_C2F(n) == \/ R_listen(n) \/ R_accept(n) \/ R_wait_F2C(n)
                      \/ R_header(n) \/ R_query(n) \/ R_fail(n)

-----------------------------------------------------------------------------
(* thread_F2C *)

\* connect to the coordinator; refused when it is not listening on this port.
S_connect(n) ==
  LET accepted == conn_f2c[n] = "listen"
  IN  /\ pcS[n] = "connect"
      /\ conn_f2c' = [conn_f2c EXCEPT ![n] = IF accepted THEN "open" ELSE @]
      /\ pcS' = [pcS EXCEPT ![n] = IF accepted THEN "wait_C2F" ELSE "failed"]
      /\ fpga_start_F2C' = [fpga_start_F2C EXCEPT ![n] = accepted]
      /\ UNCHANGED <<rcvVars, snd_query_id, F2C_batch_id,
                     fpga_finish_F2C_query_id, sem_available_batches,
                     sem_available_results, conn_c2f, conn_g2c, chan_c2f,
                     chan_f2c, chan_g2c, chan_c2g, resets>>

\* start_C2F seen; F2C_batch_id++ on entry to the loop.
S_wait_C2F(n) ==
  /\ pcS[n] = "wait_C2F" /\ fpga_start_C2F[n]
  /\ pcS' = [pcS EXCEPT ![n] = "batch"]
  /\ F2C_batch_id' = [F2C_batch_id EXCEPT ![n] = @ + 1]
  /\ UNCHANGED <<rcvVars, snd_query_id, fpga_start_F2C,
                 fpga_finish_F2C_query_id, sem_available_batches,
                 sem_available_results, netVars>>

\* sem_wait for a header, then read it at F2C_batch_id.
S_batch(n) ==
  /\ pcS[n] = "batch" /\ sem_available_batches[n] > 0
  /\ sem_available_batches' = [sem_available_batches EXCEPT ![n] = @ - 1]
  /\ pcS' = [pcS EXCEPT ![n] = IF buf_header[n][F2C_batch_id[n] + 1].terminate
                               THEN "done" ELSE "result"]
  /\ UNCHANGED <<rcvVars, snd_query_id, fpga_start_F2C, F2C_batch_id,
                 fpga_finish_F2C_query_id, sem_available_results, netVars>>

\* Mutant: the F2C thread goes on only once two queries are waiting.
Bug_S_result(n) ==
  /\ pcS[n] = "result" /\ sem_available_results[n] > 1
  /\ sem_available_results' = [sem_available_results EXCEPT ![n] = @ - 1]
  /\ pcS' = [pcS EXCEPT ![n] = "send"]
  /\ UNCHANGED <<rcvVars, snd_query_id, fpga_start_F2C, F2C_batch_id,
                 fpga_finish_F2C_query_id, sem_available_batches, netVars>>

\* sem_wait for a received query.
S_result(n) ==
  /\ pcS[n] = "result" /\ sem_available_results[n] > 0
  /\ sem_available_results' = [sem_available_results EXCEPT ![n] = @ - 1]
  /\ pcS' = [pcS EXCEPT ![n] = "send"]
  /\ UNCHANGED <<rcvVars, snd_query_id, fpga_start_F2C, F2C_batch_id,
                 fpga_finish_F2C_query_id, sem_available_batches, netVars>>

\* Results carry no query number; id is the position the result is sent at.
S_send(n) ==
  LET header == buf_header[n][F2C_batch_id[n] + 1]
      lastQuery == snd_query_id[n] = header.batch_size - 1
  IN  /\ pcS[n] = "send"
      /\ CanSend(conn_f2c[n], chan_f2c[n])
      /\ chan_f2c' = [chan_f2c EXCEPT
            ![n] = Append(@, [fpga |-> n,
                              id |-> fpga_finish_F2C_query_id[n] + 1])]
      /\ fpga_finish_F2C_query_id' =
            [fpga_finish_F2C_query_id EXCEPT ![n] = @ + 1]
      /\ snd_query_id' = [snd_query_id EXCEPT
            ![n] = IF lastQuery THEN 0 ELSE @ + 1]
      /\ pcS' = [pcS EXCEPT ![n] = IF lastQuery THEN "batch" ELSE "result"]
      /\ F2C_batch_id' = [F2C_batch_id EXCEPT
            ![n] = IF lastQuery THEN @ + 1 ELSE @]
      /\ UNCHANGED <<rcvVars, fpga_start_F2C, sem_available_batches,
                     sem_available_results, conn_c2f, conn_f2c, conn_g2c,
                     chan_c2f, chan_g2c, chan_c2g, resets>>

\* send() returns -1: the thread returns.
S_fail(n) ==
  /\ pcS[n] = "send" /\ conn_f2c[n] \in {"reset", "dead"}
  /\ pcS' = [pcS EXCEPT ![n] = "failed"]
  /\ UNCHANGED <<rcvVars, snd_query_id, fpga_start_F2C, F2C_batch_id,
                 fpga_finish_F2C_query_id, sem_available_batches,
                 sem_available_results, netVars>>

FPGA_thread_F2C(n) == \/ S_connect(n) \/ S_wait_C2F(n) \/ S_batch(n)
                      \/ S_result(n) \/ S_send(n) \/ S_fail(n)

FPGANext(n) ==
  start_C2F_F2C_threads(n) \/ FPGA_thread_C2F(n) \/ FPGA_thread_F2C(n)
=============================================================================
