----------------------------- MODULE IndexServer -----------------------------
(***************************************************************************)
(* class CPUCoordinator of CPU_index_server.cpp: the CPU program that      *)
(* scans the index itself.  The index thread scans batch after batch, the  *)
(* C2F thread broadcasts the queries, the F2C thread collects the results. *)
(* There is no GPU and no buffer between the threads: the scan's results   *)
(* are dropped and the C2F thread sends memory nothing has written, so a   *)
(* query on the wire is its position in its batch and nothing more.        *)
(***************************************************************************)
EXTENDS Network

CONSTANTS batch_size, total_batch_num, query_window_size, batch_window_size

ASSUME IndexServerAssumption ==
  /\ batch_size \in Nat \ {0}
  /\ total_batch_num \in Nat \ {0}
  /\ query_window_size \in Nat \ {0}    \* assert in main
  /\ batch_window_size \in Nat \ {0}    \* assert in main

VARIABLES
  start_index, start_C2F, start_F2C,
  sem_batch_window_free_slots, sem_query_window_free_slots,
  sem_available_batches_to_send,
  pcI, index_scan_batch_id,                        \* thread_index_scan
  pcC, c2f_n, c2f_batch_id, c2f_query_id,          \* thread_C2F
  finish_C2F_query_id,
  pcF, f2c_n, f2c_batch_id, f2c_query_id,          \* thread_F2C
  buf_F2C, vector_ids_buf, finish_F2C_query_id,
  crashed                                          \* killed by SIGPIPE

startVars == <<start_index, start_C2F, start_F2C>>
semVars == <<sem_batch_window_free_slots, sem_query_window_free_slots,
             sem_available_batches_to_send>>
indexVars == <<pcI, index_scan_batch_id>>
c2fLoop == <<c2f_n, c2f_batch_id, c2f_query_id, finish_C2F_query_id>>
f2cLoop == <<f2c_n, f2c_batch_id, f2c_query_id, finish_F2C_query_id>>
f2cBufs == <<buf_F2C, vector_ids_buf>>
c2fVars == <<pcC, c2fLoop>>
f2cVars == <<pcF, f2cLoop, f2cBufs>>
serverVars == <<startVars, semVars, indexVars, c2fVars, f2cVars, crashed>>

Query == 0 .. batch_size - 1

\* A result no FPGA has sent yet: uninitialised memory.
NoResult == [fpga |-> -1, id |-> -1]

ServerInit ==
  /\ start_index = FALSE /\ start_C2F = FALSE /\ start_F2C = FALSE
  /\ sem_query_window_free_slots = query_window_size
  /\ sem_batch_window_free_slots = batch_window_size
  /\ sem_available_batches_to_send = 0
  /\ pcI = "init" /\ index_scan_batch_id = 0
  /\ pcC = "wait_F2C" /\ c2f_n = 0 /\ c2f_batch_id = 0 /\ c2f_query_id = 0
  /\ finish_C2F_query_id = -1
  /\ pcF = "listen" /\ f2c_n = 0 /\ f2c_batch_id = 0 /\ f2c_query_id = 0
  /\ buf_F2C = NoResult /\ vector_ids_buf = [q \in Query |-> NoResult]
  /\ finish_F2C_query_id = -1
  /\ crashed = FALSE

-----------------------------------------------------------------------------
(* thread_index_scan *)

\* The index is built, start_index = 1.
I_init ==
  /\ pcI = "init" /\ pcI' = "wait_C2F"
  /\ start_index' = TRUE
  /\ UNCHANGED <<index_scan_batch_id, start_C2F, start_F2C, semVars, c2fVars,
                 f2cVars, crashed, netVars>>

I_wait_C2F ==
  /\ pcI = "wait_C2F" /\ start_C2F
  /\ pcI' = "window"
  /\ UNCHANGED <<index_scan_batch_id, startVars, semVars, c2fVars, f2cVars,
                 crashed, netVars>>

\* Mutant: the index thread does not wait for a slot of the batch window.
Bug_I_window ==
  /\ pcI = "window" /\ pcI' = "scan"
  /\ UNCHANGED <<index_scan_batch_id, startVars, semVars, c2fVars, f2cVars,
                 crashed, netVars>>

\* sem_wait on the batch window.
I_window ==
  /\ pcI = "window" /\ sem_batch_window_free_slots > 0
  /\ sem_batch_window_free_slots' = sem_batch_window_free_slots - 1
  /\ pcI' = "scan"
  /\ UNCHANGED <<index_scan_batch_id, startVars, sem_query_window_free_slots,
                 sem_available_batches_to_send, c2fVars, f2cVars, crashed,
                 netVars>>

\* The scan keeps nothing; sem_post of the batch; the loop over the batches.
I_scan_post ==
  /\ pcI = "scan"
  /\ sem_available_batches_to_send' = sem_available_batches_to_send + 1
  /\ index_scan_batch_id' = index_scan_batch_id + 1
  /\ pcI' = IF index_scan_batch_id + 1 < total_batch_num THEN "window"
                                                         ELSE "done"
  /\ UNCHANGED <<startVars, sem_batch_window_free_slots,
                 sem_query_window_free_slots, c2fVars, f2cVars, crashed,
                 netVars>>

thread_index_scan == I_init \/ I_wait_C2F \/ I_window \/ I_scan_post

-----------------------------------------------------------------------------
(* thread_C2F *)

C2F_wait_F2C ==
  /\ pcC = "wait_F2C" /\ start_F2C
  /\ pcC' = "wait_index"
  /\ UNCHANGED <<c2fLoop, startVars, semVars, indexVars, f2cVars, crashed,
                 netVars>>

C2F_wait_index ==
  /\ pcC = "wait_index" /\ start_index
  /\ pcC' = "connect"
  /\ UNCHANGED <<c2fLoop, startVars, semVars, indexVars, f2cVars, crashed,
                 netVars>>

\* connect() to FPGA c2f_n; a refused one ends connect_C2F, and start_C2F is
\* set all the same.
connect_C2F ==
  LET accepted == conn_c2f[c2f_n] = "listen"
      returns == ~accepted \/ c2f_n = num_FPGA - 1
  IN  /\ pcC = "connect"
      /\ conn_c2f' = [conn_c2f EXCEPT
                        ![c2f_n] = IF accepted THEN "open" ELSE "dead"]
      /\ pcC' = IF returns THEN "header" ELSE "connect"
      /\ c2f_n' = IF returns THEN 0 ELSE c2f_n + 1
      /\ start_C2F' = returns
      /\ UNCHANGED <<c2f_batch_id, c2f_query_id, finish_C2F_query_id,
                     start_index, start_F2C, semVars, indexVars, f2cVars,
                     crashed, conn_f2c, conn_g2c, chan_c2f, chan_f2c,
                     chan_g2c, chan_c2g, resets>>

terminate == c2f_batch_id = total_batch_num

\* One iteration of a broadcast loop, and whether it is the last one.
send_C2F(msg) ==
  \/ /\ CanSend(conn_c2f[c2f_n], chan_c2f[c2f_n])
     /\ chan_c2f' = [chan_c2f EXCEPT ![c2f_n] = Append(@, msg)]
     /\ UNCHANGED conn_c2f
  \/ /\ conn_c2f[c2f_n] = "reset"
     /\ conn_c2f' = [conn_c2f EXCEPT ![c2f_n] = "dead"]
     /\ UNCHANGED chan_c2f

send_returns == c2f_n = num_FPGA - 1 \/ conn_c2f[c2f_n] = "reset"

\* The header of a batch goes out before the batch has been scanned.
send_header ==
  /\ pcC = "header"
  /\ send_C2F([type |-> "header", batch_size |-> batch_size,
               terminate |-> terminate])
  /\ c2f_n' = IF send_returns THEN 0 ELSE c2f_n + 1
  /\ pcC' = CASE ~send_returns -> "header"
              [] send_returns /\ terminate -> "done"
              [] send_returns /\ ~terminate -> "available"
  /\ UNCHANGED <<c2f_batch_id, c2f_query_id, finish_C2F_query_id, startVars,
                 semVars, indexVars, f2cVars, crashed, conn_f2c, conn_g2c,
                 chan_f2c, chan_g2c, chan_c2g, resets>>

\* sem_wait for a scanned batch.
C2F_available ==
  /\ pcC = "available" /\ sem_available_batches_to_send > 0
  /\ sem_available_batches_to_send' = sem_available_batches_to_send - 1
  /\ pcC' = "window"
  /\ UNCHANGED <<c2fLoop, startVars, sem_batch_window_free_slots,
                 sem_query_window_free_slots, indexVars, f2cVars, crashed,
                 netVars>>

\* sem_wait on the query window.
C2F_window ==
  /\ pcC = "window" /\ sem_query_window_free_slots > 0
  /\ sem_query_window_free_slots' = sem_query_window_free_slots - 1
  /\ pcC' = "send"
  /\ UNCHANGED <<c2fLoop, startVars, sem_batch_window_free_slots,
                 sem_available_batches_to_send, indexVars, f2cVars, crashed,
                 netVars>>

\* The query counts as sent whether or not every send() succeeded.
send_query ==
  LET lastQuery == c2f_query_id = batch_size - 1
  IN  /\ pcC = "send"
      /\ send_C2F([type |-> "query", query |-> c2f_query_id])
      /\ c2f_n' = IF send_returns THEN 0 ELSE c2f_n + 1
      /\ IF send_returns
         THEN /\ finish_C2F_query_id' = finish_C2F_query_id + 1
              /\ c2f_query_id' = IF lastQuery THEN 0 ELSE c2f_query_id + 1
              /\ c2f_batch_id' = IF lastQuery THEN c2f_batch_id + 1
                                              ELSE c2f_batch_id
              /\ pcC' = IF lastQuery THEN "header" ELSE "window"
         ELSE UNCHANGED <<pcC, c2f_batch_id, c2f_query_id, finish_C2F_query_id>>
      /\ UNCHANGED <<startVars, semVars, indexVars, f2cVars, crashed, conn_f2c,
                     conn_g2c, chan_f2c, chan_g2c, chan_c2g, resets>>

\* send() on a connection that failed before, or never existed: SIGPIPE.
C2F_sigpipe ==
  /\ pcC \in {"header", "send"} /\ conn_c2f[c2f_n] = "dead"
  /\ crashed' = TRUE
  /\ UNCHANGED <<startVars, semVars, indexVars, c2fVars, f2cVars, netVars>>

thread_C2F == \/ C2F_wait_F2C \/ C2F_wait_index \/ connect_C2F \/ send_header
              \/ C2F_available \/ C2F_window \/ send_query \/ C2F_sigpipe

-----------------------------------------------------------------------------
(* thread_F2C *)

\* connect_F2C serves the FPGAs in order: listen, then accept, one by one.
F2C_listen ==
  /\ pcF = "listen" /\ pcF' = "accept"
  /\ conn_f2c' = [conn_f2c EXCEPT ![f2c_n] = "listen"]
  /\ UNCHANGED <<f2cLoop, f2cBufs, startVars, semVars, indexVars, c2fVars,
                 crashed, conn_c2f, conn_g2c, chan_c2f, chan_f2c, chan_g2c,
                 chan_c2g, resets>>

\* accept(); after the last FPGA start_F2C = 1.
F2C_accept ==
  LET last == f2c_n = num_FPGA - 1
  IN  /\ pcF = "accept" /\ conn_f2c[f2c_n] # "listen"
      /\ pcF' = IF last THEN "wait_C2F" ELSE "listen"
      /\ f2c_n' = IF last THEN 0 ELSE f2c_n + 1
      /\ start_F2C' = last
      /\ UNCHANGED <<f2c_batch_id, f2c_query_id, finish_F2C_query_id, f2cBufs,
                     start_index, start_C2F, semVars, indexVars, c2fVars,
                     crashed, netVars>>

F2C_wait_C2F ==
  /\ pcF = "wait_C2F" /\ start_C2F
  /\ pcF' = "read"
  /\ UNCHANGED <<f2cLoop, f2cBufs, startVars, semVars, indexVars, c2fVars,
                 crashed, netVars>>

F2C_arrived == chan_f2c[f2c_n] # <<>>

\* Mutant: the loop over the FPGAs returns after the first result.
Bug_receive_returns == TRUE

receive_returns == ~F2C_arrived \/ f2c_n = num_FPGA - 1

\* One FPGA's result for the current query, into the shared buf_F2C; a read
\* that returns -1 ends the loop over the FPGAs.
receive_answer_to_query ==
  /\ pcF = "read"
  /\ \/ /\ F2C_arrived
        /\ buf_F2C' = Head(chan_f2c[f2c_n])
        /\ chan_f2c' = [chan_f2c EXCEPT ![f2c_n] = Tail(@)]
        /\ UNCHANGED conn_f2c
     \/ /\ ~F2C_arrived /\ conn_f2c[f2c_n] = "reset"
        /\ conn_f2c' = [conn_f2c EXCEPT ![f2c_n] = "dead"]
        /\ UNCHANGED <<buf_F2C, chan_f2c>>
  /\ pcF' = IF receive_returns THEN "post_query" ELSE "read"
  /\ f2c_n' = IF receive_returns THEN 0 ELSE f2c_n + 1
  /\ UNCHANGED <<f2c_batch_id, f2c_query_id, finish_F2C_query_id,
                 vector_ids_buf, startVars, semVars, indexVars, c2fVars,
                 crashed, conn_c2f, conn_g2c, chan_c2f, chan_g2c, chan_c2g,
                 resets>>

\* Mutant: the copy leaves out the offset of the query.
Bug_answer_row == 0

\* The row of the answer arrays the current query's result is copied to.
answer_row == f2c_query_id

\* Copy buf_F2C to the query's row, then sem_post the query window.
F2C_post_query ==
  LET lastQuery == f2c_query_id = batch_size - 1
  IN  /\ pcF = "post_query"
      /\ vector_ids_buf' = [vector_ids_buf EXCEPT ![answer_row] = buf_F2C]
      /\ finish_F2C_query_id' = finish_F2C_query_id + 1
      /\ sem_query_window_free_slots' = sem_query_window_free_slots + 1
      /\ f2c_query_id' = IF lastQuery THEN 0 ELSE f2c_query_id + 1
      /\ pcF' = IF lastQuery THEN "post_batch" ELSE "read"
      /\ UNCHANGED <<f2c_n, f2c_batch_id, buf_F2C, startVars,
                     sem_batch_window_free_slots,
                     sem_available_batches_to_send, indexVars, c2fVars,
                     crashed, netVars>>

\* Mutant: the batch window is not posted after the last query of a batch.
Bug_F2C_post_batch ==
  /\ pcF = "post_batch"
  /\ f2c_batch_id' = f2c_batch_id + 1
  /\ pcF' = IF f2c_batch_id + 1 < total_batch_num THEN "read" ELSE "done"
  /\ UNCHANGED <<f2c_n, f2c_query_id, finish_F2C_query_id, f2cBufs, startVars,
                 semVars, indexVars, c2fVars, crashed, netVars>>

\* sem_post of the batch window, and the loop over the batches.
F2C_post_batch ==
  /\ pcF = "post_batch"
  /\ sem_batch_window_free_slots' = sem_batch_window_free_slots + 1
  /\ f2c_batch_id' = f2c_batch_id + 1
  /\ pcF' = IF f2c_batch_id + 1 < total_batch_num THEN "read" ELSE "done"
  /\ UNCHANGED <<f2c_n, f2c_query_id, finish_F2C_query_id, f2cBufs, startVars,
                 sem_query_window_free_slots, sem_available_batches_to_send,
                 indexVars, c2fVars, crashed, netVars>>

thread_F2C == \/ F2C_listen \/ F2C_accept \/ F2C_wait_C2F
              \/ receive_answer_to_query \/ F2C_post_query \/ F2C_post_batch

-----------------------------------------------------------------------------
\* start_C2F_F2C_threads: the three threads run concurrently until one of
\* them kills the process.
ServerNext == ~crashed /\ (thread_index_scan \/ thread_C2F \/ thread_F2C)

\* All three threads joined: main goes on to calculate_latency.
Joined == pcI = "done" /\ pcC = "done" /\ pcF = "done"
=============================================================================
