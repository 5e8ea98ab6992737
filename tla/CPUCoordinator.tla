---------------------------- MODULE CPUCoordinator ----------------------------
(***************************************************************************)
(* class CPUCoordinator of CPU_cooridnator_for_GPU_FPGA.cpp: the thread    *)
(* that receives batches from the GPU (G2C), the thread that broadcasts    *)
(* them query by query to the FPGAs (C2F), and the thread that collects    *)
(* the FPGAs' results and answers the GPU (F2C_C2G).  They share start     *)
(* flags they spin on, three counting semaphores and one ring buffer.      *)
(*                                                                         *)
(* The program is built without optimisation, so the plain int flags are   *)
(* re-read in every iteration of a spin loop: each spin is a guard.  The   *)
(* ring buffer's methods are atomic here; module RingBufferRace takes them *)
(* apart.  The payload of batch b is the number b itself.                  *)
(***************************************************************************)
EXTENDS Network

CONSTANTS batch_size, total_batch_num, query_window_size, batch_window_size,
          G2C_C2F_QUEUE_SIZE,
          NoBatch    \* content of a buffer nothing was written to yet

ASSUME CoordinatorAssumption ==
  /\ batch_size \in Nat \ {0}
  /\ total_batch_num \in Nat \ {0}
  /\ query_window_size \in Nat \ {0}    \* assert in main
  /\ batch_window_size \in Nat \ {0}    \* assert in main
  /\ G2C_C2F_QUEUE_SIZE \in Nat \ {0}
  /\ NoBatch \notin Nat

VARIABLES
  start_G2C, start_C2F, start_F2C,
  sem_batch_window_free_slots, sem_query_window_free_slots,
  sem_available_batches_to_send,
  ring_buffer_G2C,
  pcG, g2c_batch_id,                               \* thread_G2C
  pcC, c2f_n, c2f_batch_id, c2f_query_id,          \* thread_C2F
  G2C_conv_buf, finish_C2F_query_id,
  pcF, f2c_n, f2c_batch_id, f2c_query_id,          \* thread_F2C_C2G
  buf_F2C, vector_ids_buf, buf_C2G, finish_F2C_query_id,
  crashed                                          \* killed by SIGPIPE

startVars == <<start_G2C, start_C2F, start_F2C>>
semVars == <<sem_batch_window_free_slots, sem_query_window_free_slots,
             sem_available_batches_to_send>>
g2cVars == <<pcG, g2c_batch_id>>
c2fVars == <<pcC, c2f_n, c2f_batch_id, c2f_query_id, G2C_conv_buf,
             finish_C2F_query_id>>
f2cVars == <<pcF, f2c_n, f2c_batch_id, f2c_query_id, buf_F2C, vector_ids_buf,
             buf_C2G, finish_F2C_query_id>>
coordVars == <<startVars, semVars, ring_buffer_G2C, g2cVars, c2fVars, f2cVars,
               crashed>>

RB == INSTANCE RingBuffer WITH num_slots_ <- G2C_C2F_QUEUE_SIZE

Query == 0 .. batch_size - 1
Batch == 0 .. total_batch_num - 1

\* A result no FPGA has sent yet: uninitialised memory.
NoResult == [fpga |-> -1, id |-> -1]

CoordInit ==
  /\ start_G2C = FALSE /\ start_C2F = FALSE /\ start_F2C = FALSE
  /\ sem_query_window_free_slots = query_window_size
  /\ sem_batch_window_free_slots = batch_window_size
  /\ sem_available_batches_to_send = 0
  /\ ring_buffer_G2C = RB!RingInit
  /\ pcG = "connect" /\ g2c_batch_id = 0
  /\ pcC = "wait_F2C" /\ c2f_n = 0 /\ c2f_batch_id = 0 /\ c2f_query_id = 0
  /\ G2C_conv_buf = NoBatch
  /\ finish_C2F_query_id = -1
  /\ pcF = "listen" /\ f2c_n = 0 /\ f2c_batch_id = 0 /\ f2c_query_id = 0
  /\ buf_F2C = NoResult
  /\ vector_ids_buf = [q \in Query |-> NoResult]
  /\ buf_C2G = [q \in Query |-> NoResult]
  /\ finish_F2C_query_id = -1
  /\ crashed = FALSE

-----------------------------------------------------------------------------
(* thread_G2C *)

\* accept() of the GPU's connection, then start_G2C = 1.
connect_G2C ==
  /\ pcG = "connect" /\ pcG' = "wait_C2F"
  /\ conn_g2c' = "open"
  /\ start_G2C' = TRUE
  /\ UNCHANGED <<g2c_batch_id, start_C2F, start_F2C, semVars, ring_buffer_G2C,
                 c2fVars, f2cVars, crashed, conn_c2f, conn_f2c, chan_c2f,
                 chan_f2c, chan_g2c, chan_c2g, resets>>

G2C_wait_C2F ==
  /\ pcG = "wait_C2F" /\ start_C2F
  /\ pcG' = "window"
  /\ UNCHANGED <<g2c_batch_id, startVars, semVars, ring_buffer_G2C, c2fVars,
                 f2cVars, crashed, netVars>>

\* Mutant: the next batch is read without waiting for the window.
Bug_G2C_window ==
  /\ pcG = "window" /\ pcG' = "read"
  /\ UNCHANGED <<sem_batch_window_free_slots, g2c_batch_id, startVars,
                 sem_query_window_free_slots, sem_available_batches_to_send,
                 ring_buffer_G2C, c2fVars, f2cVars, crashed, netVars>>

\* sem_wait on the batch window.
G2C_window ==
  /\ pcG = "window" /\ sem_batch_window_free_slots > 0
  /\ sem_batch_window_free_slots' = sem_batch_window_free_slots - 1
  /\ pcG' = "read"
  /\ UNCHANGED <<g2c_batch_id, startVars, sem_query_window_free_slots,
                 sem_available_batches_to_send, ring_buffer_G2C, c2fVars,
                 f2cVars, crashed, netVars>>

\* A failed read returns before write_slot; the caller goes on regardless.
receive_G2C_batch_query ==
  /\ pcG = "read" /\ pcG' = "post"
  /\ \/ /\ chan_g2c # <<>>
        /\ ring_buffer_G2C' = RB!write_slot(ring_buffer_G2C, Head(chan_g2c))
        /\ chan_g2c' = Tail(chan_g2c)
        /\ UNCHANGED conn_g2c
     \/ /\ chan_g2c = <<>> /\ conn_g2c = "reset"
        /\ conn_g2c' = "dead"
        /\ UNCHANGED <<ring_buffer_G2C, chan_g2c>>
  /\ UNCHANGED <<g2c_batch_id, startVars, semVars, c2fVars, f2cVars, crashed,
                 conn_c2f, conn_f2c, chan_c2f, chan_f2c, chan_c2g, resets>>

\* sem_post of the batch, and the loop over total_batch_num batches.
G2C_post ==
  /\ pcG = "post"
  /\ sem_available_batches_to_send' = sem_available_batches_to_send + 1
  /\ g2c_batch_id' = g2c_batch_id + 1
  /\ pcG' = IF g2c_batch_id + 1 < total_batch_num THEN "window" ELSE "done"
  /\ UNCHANGED <<startVars, sem_batch_window_free_slots,
                 sem_query_window_free_slots, ring_buffer_G2C, c2fVars,
                 f2cVars, crashed, netVars>>

thread_G2C == \/ connect_G2C \/ G2C_wait_C2F \/ G2C_window
              \/ receive_G2C_batch_query \/ G2C_post

-----------------------------------------------------------------------------
(* thread_C2F *)

\* Mutant: the C2F thread does not wait for the F2C thread.
Bug_C2F_wait_F2C ==
  /\ pcC = "wait_F2C"
  /\ pcC' = "wait_G2C"
  /\ UNCHANGED <<c2f_n, c2f_batch_id, c2f_query_id, G2C_conv_buf,
                 finish_C2F_query_id, startVars, semVars, ring_buffer_G2C,
                 g2cVars, f2cVars, crashed, netVars>>

C2F_wait_F2C ==
  /\ pcC = "wait_F2C" /\ start_F2C
  /\ pcC' = "wait_G2C"
  /\ UNCHANGED <<c2f_n, c2f_batch_id, c2f_query_id, G2C_conv_buf,
                 finish_C2F_query_id, startVars, semVars, ring_buffer_G2C,
                 g2cVars, f2cVars, crashed, netVars>>

C2F_wait_G2C ==
  /\ pcC = "wait_G2C" /\ start_G2C
  /\ pcC' = "connect"
  /\ UNCHANGED <<c2f_n, c2f_batch_id, c2f_query_id, G2C_conv_buf,
                 finish_C2F_query_id, startVars, semVars, ring_buffer_G2C,
                 g2cVars, f2cVars, crashed, netVars>>

\* connect() to FPGA c2f_n.  A refused connection returns from connect_C2F
\* early; start_C2F is set all the same.
connect_C2F ==
  LET accepted == conn_c2f[c2f_n] = "listen"
      returns == ~accepted \/ c2f_n = num_FPGA - 1
  IN  /\ pcC = "connect"
      /\ conn_c2f' = [conn_c2f EXCEPT
                        ![c2f_n] = IF accepted THEN "open" ELSE "dead"]
      /\ pcC' = IF returns THEN "header" ELSE "connect"
      /\ c2f_n' = IF returns THEN 0 ELSE c2f_n + 1
      /\ start_C2F' = returns
      /\ UNCHANGED <<c2f_batch_id, c2f_query_id, G2C_conv_buf,
                     finish_C2F_query_id, start_G2C, start_F2C, semVars,
                     ring_buffer_G2C, g2cVars, f2cVars, crashed, conn_f2c,
                     conn_g2c, chan_c2f, chan_f2c, chan_g2c, chan_c2g, resets>>

\* c2f_batch_id is thread_C2F's loop variable; the member of that name keeps the
\* constructor's -1, since the loop variable shadows it, and is never read.
terminate == c2f_batch_id = total_batch_num

\* One iteration of a broadcast loop: send msg to FPGA c2f_n.  It is the last
\* one when c2f_n is the last FPGA, or when send() returns -1.
send_C2F(msg) ==
  \/ /\ CanSend(conn_c2f[c2f_n], chan_c2f[c2f_n])
     /\ chan_c2f' = [chan_c2f EXCEPT ![c2f_n] = Append(@, msg)]
     /\ UNCHANGED conn_c2f
  \/ /\ conn_c2f[c2f_n] = "reset"
     /\ conn_c2f' = [conn_c2f EXCEPT ![c2f_n] = "dead"]
     /\ UNCHANGED chan_c2f

\* Mutant: the broadcast loop runs one FPGA too far.
Bug_send_C2F_returns == c2f_n = num_FPGA \/ conn_c2f[c2f_n] = "reset"

send_C2F_returns == c2f_n = num_FPGA - 1 \/ conn_c2f[c2f_n] = "reset"

\* The header of a batch goes out before the batch is known to be available.
send_C2F_header ==
  /\ pcC = "header"
  /\ send_C2F([type |-> "header", batch_size |-> batch_size,
               terminate |-> terminate])
  /\ c2f_n' = IF send_C2F_returns THEN 0 ELSE c2f_n + 1
  /\ pcC' = CASE ~send_C2F_returns -> "header"
              [] send_C2F_returns /\ terminate -> "done"
              [] send_C2F_returns /\ ~terminate -> "available"
  /\ UNCHANGED <<c2f_batch_id, c2f_query_id, G2C_conv_buf,
                 finish_C2F_query_id, startVars, semVars, ring_buffer_G2C,
                 g2cVars, f2cVars, crashed, conn_f2c, conn_g2c, chan_f2c,
                 chan_g2c, chan_c2g, resets>>

\* sem_wait for a batch the G2C thread has received.
C2F_available ==
  /\ pcC = "available" /\ sem_available_batches_to_send > 0
  /\ sem_available_batches_to_send' = sem_available_batches_to_send - 1
  /\ pcC' = "read_slot"
  /\ UNCHANGED <<c2f_n, c2f_batch_id, c2f_query_id, G2C_conv_buf,
                 finish_C2F_query_id, startVars, sem_batch_window_free_slots,
                 sem_query_window_free_slots, ring_buffer_G2C, g2cVars,
                 f2cVars, crashed, netVars>>

C2F_read_slot ==
  /\ pcC = "read_slot" /\ pcC' = "window"
  /\ G2C_conv_buf' = RB!read_value(ring_buffer_G2C, G2C_conv_buf)
  /\ ring_buffer_G2C' = RB!read_slot(ring_buffer_G2C)
  /\ UNCHANGED <<c2f_n, c2f_batch_id, c2f_query_id, finish_C2F_query_id,
                 startVars, semVars, g2cVars, f2cVars, crashed, netVars>>

\* Mutant: the C2F thread does not wait for a slot of the query window.
Bug_C2F_window ==
  /\ pcC = "window" /\ pcC' = "send"
  /\ UNCHANGED <<c2f_n, c2f_batch_id, c2f_query_id, G2C_conv_buf,
                 finish_C2F_query_id, startVars, semVars, ring_buffer_G2C,
                 g2cVars, f2cVars, crashed, netVars>>

\* sem_wait on the query window.
C2F_window ==
  /\ pcC = "window" /\ sem_query_window_free_slots > 0
  /\ sem_query_window_free_slots' = sem_query_window_free_slots - 1
  /\ pcC' = "send"
  /\ UNCHANGED <<c2f_n, c2f_batch_id, c2f_query_id, G2C_conv_buf,
                 finish_C2F_query_id, startVars, sem_batch_window_free_slots,
                 sem_available_batches_to_send, ring_buffer_G2C, g2cVars,
                 f2cVars, crashed, netVars>>

\* The query's cell ids come from the batch in G2C_conv_buf; the query counts
\* as sent whether or not every send() succeeded.
send_C2F_query ==
  LET lastQuery == c2f_query_id = batch_size - 1
  IN  /\ pcC = "send"
      /\ send_C2F([type |-> "query", batch |-> G2C_conv_buf,
                   query |-> c2f_query_id])
      /\ c2f_n' = IF send_C2F_returns THEN 0 ELSE c2f_n + 1
      /\ IF send_C2F_returns
         THEN /\ finish_C2F_query_id' = finish_C2F_query_id + 1
              /\ c2f_query_id' = IF lastQuery THEN 0 ELSE c2f_query_id + 1
              /\ c2f_batch_id' = IF lastQuery THEN c2f_batch_id + 1
                                              ELSE c2f_batch_id
              /\ pcC' = IF lastQuery THEN "header" ELSE "window"
         ELSE UNCHANGED <<pcC, c2f_batch_id, c2f_query_id, finish_C2F_query_id>>
      /\ UNCHANGED <<G2C_conv_buf, startVars, semVars, ring_buffer_G2C,
                     g2cVars, f2cVars, crashed, conn_f2c, conn_g2c, chan_f2c,
                     chan_g2c, chan_c2g, resets>>

\* send() on a connection whose error was already reported, or that was never
\* established, raises SIGPIPE: no handler, the process dies.
C2F_sigpipe ==
  /\ pcC \in {"header", "send"} /\ conn_c2f[c2f_n] = "dead"
  /\ crashed' = TRUE
  /\ UNCHANGED <<startVars, semVars, ring_buffer_G2C, g2cVars, c2fVars,
                 f2cVars, netVars>>

thread_C2F == \/ C2F_wait_F2C \/ C2F_wait_G2C \/ connect_C2F
              \/ send_C2F_header \/ C2F_available \/ C2F_read_slot
              \/ C2F_window \/ send_C2F_query \/ C2F_sigpipe

-----------------------------------------------------------------------------
(* thread_F2C_C2G *)

\* connect_F2C serves the FPGAs in order: it listens on the port of FPGA
\* f2c_n only after it has accepted FPGA f2c_n - 1.
F2C_listen ==
  /\ pcF = "listen" /\ pcF' = "accept"
  /\ conn_f2c' = [conn_f2c EXCEPT ![f2c_n] = "listen"]
  /\ UNCHANGED <<f2c_n, f2c_batch_id, f2c_query_id, buf_F2C, vector_ids_buf,
                 buf_C2G, finish_F2C_query_id, startVars, semVars,
                 ring_buffer_G2C, g2cVars, c2fVars, crashed, conn_c2f,
                 conn_g2c, chan_c2f, chan_f2c, chan_g2c, chan_c2g, resets>>

\* accept(); after the last FPGA start_F2C = 1.
F2C_accept ==
  LET last == f2c_n = num_FPGA - 1
  IN  /\ pcF = "accept" /\ conn_f2c[f2c_n] # "listen"
      /\ pcF' = IF last THEN "wait_C2F" ELSE "listen"
      /\ f2c_n' = IF last THEN 0 ELSE f2c_n + 1
      /\ start_F2C' = last
      /\ UNCHANGED <<f2c_batch_id, f2c_query_id, buf_F2C, vector_ids_buf,
                     buf_C2G, finish_F2C_query_id, start_G2C, start_C2F,
                     semVars, ring_buffer_G2C, g2cVars, c2fVars, crashed,
                     netVars>>

F2C_wait_C2F ==
  /\ pcF = "wait_C2F" /\ start_C2F
  /\ pcF' = "read"
  /\ UNCHANGED <<f2c_n, f2c_batch_id, f2c_query_id, buf_F2C, vector_ids_buf,
                 buf_C2G, finish_F2C_query_id, startVars, semVars,
                 ring_buffer_G2C, g2cVars, c2fVars, crashed, netVars>>

F2C_arrived == chan_f2c[f2c_n] # <<>>

\* Mutant: the loop over the FPGAs returns after the first result.
Bug_receive_F2C_returns == TRUE

receive_F2C_returns == ~F2C_arrived \/ f2c_n = num_FPGA - 1

\* One FPGA's result for the current query.  All FPGAs share buf_F2C; a read
\* that returns -1 ends the loop over the FPGAs.
receive_F2C_batch_result ==
  /\ pcF = "read"
  /\ \/ /\ F2C_arrived
        /\ buf_F2C' = Head(chan_f2c[f2c_n])
        /\ chan_f2c' = [chan_f2c EXCEPT ![f2c_n] = Tail(@)]
        /\ UNCHANGED conn_f2c
     \/ /\ ~F2C_arrived /\ conn_f2c[f2c_n] = "reset"
        /\ conn_f2c' = [conn_f2c EXCEPT ![f2c_n] = "dead"]
        /\ UNCHANGED <<buf_F2C, chan_f2c>>
  /\ pcF' = IF receive_F2C_returns THEN "post_query" ELSE "read"
  /\ f2c_n' = IF receive_F2C_returns THEN 0 ELSE f2c_n + 1
  /\ UNCHANGED <<f2c_batch_id, f2c_query_id, vector_ids_buf, buf_C2G,
                 finish_F2C_query_id, startVars, semVars, ring_buffer_G2C,
                 g2cVars, c2fVars, crashed, conn_c2f, conn_g2c, chan_c2f,
                 chan_g2c, chan_c2g, resets>>

\* Mutant: the copy leaves out the offset of the query.
Bug_answer_row == 0

\* The row of the answer arrays the current query's result is copied to.
answer_row == f2c_query_id

\* Copy buf_F2C to the query's row, then sem_post the query window.
F2C_post_query ==
  LET lastQuery == f2c_query_id = batch_size - 1
  IN  /\ pcF = "post_query"
      /\ vector_ids_buf' = [vector_ids_buf EXCEPT ![answer_row] = buf_F2C]
      /\ finish_F2C_query_id' = finish_F2C_query_id + 1
      /\ sem_query_window_free_slots' = sem_query_window_free_slots + 1
      /\ f2c_query_id' = IF lastQuery THEN 0 ELSE f2c_query_id + 1
      /\ pcF' = IF lastQuery THEN "answer" ELSE "read"
      /\ UNCHANGED <<f2c_n, f2c_batch_id, buf_F2C, buf_C2G, startVars,
                     sem_batch_window_free_slots,
                     sem_available_batches_to_send, ring_buffer_G2C, g2cVars,
                     c2fVars, crashed, netVars>>

\* Sends buf_C2G, which nothing in the program writes.
send_C2G_batch_result ==
  /\ pcF = "answer" /\ pcF' = "post_batch"
  /\ \/ /\ CanSend(conn_g2c, chan_c2g)
        /\ chan_c2g' = Append(chan_c2g, buf_C2G)
        /\ UNCHANGED conn_g2c
     \/ /\ conn_g2c = "reset" /\ conn_g2c' = "dead"
        /\ UNCHANGED chan_c2g
  /\ UNCHANGED <<f2c_n, f2c_batch_id, f2c_query_id, buf_F2C, vector_ids_buf,
                 buf_C2G, finish_F2C_query_id, startVars, semVars,
                 ring_buffer_G2C, g2cVars, c2fVars, crashed, conn_c2f,
                 conn_f2c, chan_c2f, chan_f2c, chan_g2c, resets>>

C2G_sigpipe ==
  /\ pcF = "answer" /\ conn_g2c = "dead"
  /\ crashed' = TRUE
  /\ UNCHANGED <<startVars, semVars, ring_buffer_G2C, g2cVars, c2fVars,
                 f2cVars, netVars>>

\* sem_post of the batch window, and the loop over total_batch_num batches.
F2C_post_batch ==
  /\ pcF = "post_batch"
  /\ sem_batch_window_free_slots' = sem_batch_window_free_slots + 1
  /\ f2c_batch_id' = f2c_batch_id + 1
  /\ pcF' = IF f2c_batch_id + 1 < total_batch_num THEN "read" ELSE "done"
  /\ UNCHANGED <<f2c_n, f2c_query_id, buf_F2C, vector_ids_buf, buf_C2G,
                 finish_F2C_query_id, startVars, sem_query_window_free_slots,
                 sem_available_batches_to_send, ring_buffer_G2C, g2cVars,
                 c2fVars, crashed, netVars>>

thread_F2C_C2G == \/ F2C_listen \/ F2C_accept \/ F2C_wait_C2F
                  \/ receive_F2C_batch_result \/ F2C_post_query
                  \/ send_C2G_batch_result \/ C2G_sigpipe \/ F2C_post_batch

-----------------------------------------------------------------------------
\* start_C2F_F2C_threads: the three threads run concurrently until one of
\* them kills the process.
CoordNext == ~crashed /\ (thread_G2C \/ thread_C2F \/ thread_F2C_C2G)

\* All three threads joined: main goes on to calculate_latency.
Joined == pcG = "done" /\ pcC = "done" /\ pcF = "done"
=============================================================================
