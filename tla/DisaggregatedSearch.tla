------------------------- MODULE DisaggregatedSearch -------------------------
(***************************************************************************)
(* The running system: the GPU coordinator, the CPU coordinator and one    *)
(* FPGA (simulator) process per FPGA, over their TCP connections.          *)
(***************************************************************************)
EXTENDS CPUCoordinator, FPGARetriever, FiniteSets

VARIABLES gpu_sent,      \* batches the GPU has sent
          gpu_received   \* batch results the GPU has received

gpuVars == <<gpu_sent, gpu_received>>
vars == <<netVars, coordVars, fpgaVars, gpuVars>>

Init == /\ NetInit /\ CoordInit /\ FPGAInit
        /\ gpu_sent = 0 /\ gpu_received = 0

\* The GPU sends its batches in order and reads the answers as they come; it
\* is not part of the repository.
GPU_send ==
  /\ gpu_sent < total_batch_num
  /\ CanSend(conn_g2c, chan_g2c)
  /\ chan_g2c' = Append(chan_g2c, gpu_sent)
  /\ gpu_sent' = gpu_sent + 1
  /\ UNCHANGED <<gpu_received, conn_c2f, conn_f2c, conn_g2c, chan_c2f,
                 chan_f2c, chan_c2g, resets, coordVars, fpgaVars>>

GPU_receive ==
  /\ chan_c2g # <<>>
  /\ chan_c2g' = Tail(chan_c2g)
  /\ gpu_received' = gpu_received + 1
  /\ UNCHANGED <<gpu_sent, conn_c2f, conn_f2c, conn_g2c, chan_c2f, chan_f2c,
                 chan_g2c, resets, coordVars, fpgaVars>>

\* Every program has run to its end, or the coordinator was killed.
Finished ==
  /\ Joined
  /\ \A n \in FPGA : pcR[n] = "done" /\ pcS[n] = "done"
  /\ gpu_received = total_batch_num

Halted == (Finished \/ crashed) /\ UNCHANGED vars

Next ==
  \/ CoordNext /\ UNCHANGED <<fpgaVars, gpuVars>>
  \/ \E n \in FPGA : FPGANext(n) /\ UNCHANGED <<coordVars, gpuVars>>
  \/ GPU_send
  \/ GPU_receive
  \/ Reset /\ UNCHANGED <<coordVars, fpgaVars, gpuVars>>
  \/ Halted

Spec == Init /\ [][Next]_vars

\* Each thread is an operating-system thread, scheduled fairly; each program
\* is started eventually; the GPU keeps sending and receiving.
Fairness ==
  /\ WF_vars(~crashed /\ thread_G2C /\ UNCHANGED <<fpgaVars, gpuVars>>)
  /\ WF_vars(~crashed /\ thread_C2F /\ UNCHANGED <<fpgaVars, gpuVars>>)
  /\ WF_vars(~crashed /\ thread_F2C_C2G /\ UNCHANGED <<fpgaVars, gpuVars>>)
  /\ \A n \in FPGA :
       /\ WF_vars(start_C2F_F2C_threads(n) /\ UNCHANGED <<coordVars, gpuVars>>)
       /\ WF_vars(FPGA_thread_C2F(n) /\ UNCHANGED <<coordVars, gpuVars>>)
       /\ WF_vars(FPGA_thread_F2C(n) /\ UNCHANGED <<coordVars, gpuVars>>)
  /\ WF_vars(GPU_send) /\ WF_vars(GPU_receive)

FairSpec == Spec /\ Fairness

-----------------------------------------------------------------------------
(* Properties *)

ResultType == [fpga : FPGA \cup {-1}, id : Nat \cup {-1}]
HeaderType == [type : {"header"}, batch_size : {batch_size},
               terminate : BOOLEAN]
QueryType == [type : {"query"}, batch : Batch \cup {NoBatch}, query : Query]

NetTypeOK ==
  /\ conn_c2f \in [FPGA -> ConnState] /\ conn_f2c \in [FPGA -> ConnState]
  /\ conn_g2c \in ConnState
  /\ chan_c2f \in [FPGA -> Seq(HeaderType \cup QueryType)]
  /\ chan_f2c \in [FPGA -> Seq(ResultType)]
  /\ chan_g2c \in Seq(Batch)
  /\ chan_c2g \in Seq([Query -> ResultType])
  /\ resets \in 0 .. MaxResets

SharedTypeOK ==
  /\ start_G2C \in BOOLEAN /\ start_C2F \in BOOLEAN /\ start_F2C \in BOOLEAN
  /\ sem_batch_window_free_slots \in Nat
  /\ sem_query_window_free_slots \in Nat
  /\ sem_available_batches_to_send \in Nat
  /\ ring_buffer_G2C \in RB!RingType(Batch)
  /\ crashed \in BOOLEAN

G2CTypeOK ==
  /\ pcG \in {"connect", "wait_C2F", "window", "read", "post", "done"}
  /\ g2c_batch_id \in 0 .. total_batch_num

C2FTypeOK ==
  /\ pcC \in {"wait_F2C", "wait_G2C", "connect", "header", "available",
              "read_slot", "window", "send", "done"}
  /\ c2f_n \in FPGA /\ c2f_query_id \in Query
  /\ c2f_batch_id \in 0 .. total_batch_num
  /\ G2C_conv_buf \in Batch \cup {NoBatch}
  /\ finish_C2F_query_id \in Nat \cup {-1}

F2CTypeOK ==
  /\ pcF \in {"listen", "accept", "wait_C2F", "read", "post_query", "answer",
              "post_batch", "done"}
  /\ f2c_n \in FPGA /\ f2c_query_id \in Query
  /\ f2c_batch_id \in 0 .. total_batch_num
  /\ buf_F2C \in ResultType
  /\ vector_ids_buf \in [Query -> ResultType]
  /\ buf_C2G \in [Query -> ResultType]
  /\ finish_F2C_query_id \in Nat \cup {-1}

FPGATypeOK ==
  /\ pcR \in [FPGA -> {"off", "listen", "accept", "wait_F2C", "header",
                       "query", "done", "failed"}]
  /\ pcS \in [FPGA -> {"off", "connect", "wait_C2F", "batch", "result",
                       "send", "done", "failed"}]
  /\ rcv_query_id \in [FPGA -> Query] /\ snd_query_id \in [FPGA -> Query]
  /\ fpga_start_C2F \in [FPGA -> BOOLEAN]
  /\ fpga_start_F2C \in [FPGA -> BOOLEAN]
  /\ sem_available_batches \in [FPGA -> Nat]
  /\ sem_available_results \in [FPGA -> Nat]
  /\ buf_header \in [FPGA -> Seq(HeaderType)]
  /\ F2C_batch_id \in [FPGA -> Nat \cup {-1}]
  /\ fpga_finish_C2F_query_id \in [FPGA -> Nat \cup {-1}]
  /\ fpga_finish_F2C_query_id \in [FPGA -> Nat \cup {-1}]

GPUTypeOK == gpu_sent \in 0 .. total_batch_num /\ gpu_received \in Nat

\* Every variable of the coordinator, the FPGAs and the network has its type;
\* in particular each loop counter stays in the range of its loop and no
\* semaphore goes below zero.
TypeOK == /\ NetTypeOK /\ SharedTypeOK /\ G2CTypeOK /\ C2FTypeOK /\ F2CTypeOK
          /\ FPGATypeOK /\ GPUTypeOK

\* Queries the C2F thread has taken a window slot for, and batches the G2C
\* thread has taken one for and the C2F thread has taken over.
QueriesBegun == finish_C2F_query_id + 1 + (IF pcC = "send" THEN 1 ELSE 0)
BatchesAdmitted == g2c_batch_id + (IF pcG \in {"read", "post"} THEN 1 ELSE 0)
BatchesTaken ==
  c2f_batch_id + (IF pcC \in {"read_slot", "window", "send"} THEN 1 ELSE 0)

\* What each semaphore counts: the free query slots are the window minus the
\* queries begun and not finished, the free batch slots the window minus the
\* batches admitted and not answered, the available batches those posted and
\* not taken.
WindowAccounting ==
  /\ sem_query_window_free_slots =
       query_window_size - (QueriesBegun - (finish_F2C_query_id + 1))
  /\ sem_batch_window_free_slots =
       batch_window_size - (BatchesAdmitted - f2c_batch_id)
  /\ sem_available_batches_to_send = g2c_batch_id - BatchesTaken

\* The G2C thread receives at most batch_window_size batches ahead of the
\* answers, the C2F thread sends at most query_window_size queries ahead of
\* them, and the C2F thread takes no batch the G2C thread has not announced,
\* whatever send() and read() return and however the three threads interleave.
WithinWindows ==
  /\ BatchesAdmitted - f2c_batch_id <= batch_window_size
  /\ QueriesBegun - (finish_F2C_query_id + 1) <= query_window_size
  /\ BatchesTaken <= g2c_batch_id

\* Queries between the C2F thread and the F2C_C2G thread through FPGA n: on
\* the way there, inside the simulator, on the way back.
InFlight(n) ==
  Cardinality({i \in DOMAIN chan_c2f[n] : chan_c2f[n][i].type = "query"})
  + (fpga_finish_C2F_query_id[n] - fpga_finish_F2C_query_id[n])
  + Len(chan_f2c[n])

\* query_window_size bounds the queries each FPGA is working on, including
\* those in the network, while no connection is reset.
InFlightWithinWindow == \A n \in FPGA : InFlight(n) <= query_window_size

\* Each FPGA is sent query after query of batch after batch as the GPU sent
\* them: none lost, none twice, none from another batch's slot.
QueriesInOrder ==
  \A n \in FPGA : \A i \in DOMAIN chan_c2f[n] :
    LET msg == chan_c2f[n][i]
        upTo == {j \in 1 .. i : chan_c2f[n][j].type = "query"}
    IN  msg.type = "query" =>
          msg.batch * batch_size + msg.query
            = fpga_finish_C2F_query_id[n] + Cardinality(upTo)

\* A row of the answer array holds the result for its own query: results are
\* matched to queries by position alone.
AnswersMatchQueries ==
  /\ pcF = "post_query" => buf_F2C.id = finish_F2C_query_id + 1
  /\ pcF = "answer" => \A q \in Query :
        vector_ids_buf[q].id = f2c_batch_id * batch_size + q

\* The simulator reads a header where the coordinator wrote a header and a
\* query where it wrote a query, also after a failed broadcast.
FramingInSync ==
  \A n \in FPGA : chan_c2f[n] # <<>> =>
    /\ pcR[n] = "header" => Head(chan_c2f[n]).type = "header"
    /\ pcR[n] = "query" => Head(chan_c2f[n]).type = "query"

\* No header or query leaves the coordinator before the GPU and every FPGA's
\* result connection are set up.
DataAfterSetup ==
  (\E n \in FPGA : chan_c2f[n] # <<>> \/ buf_header[n] # <<>>) =>
    conn_g2c # "none" /\ \A m \in FPGA : conn_f2c[m] \notin {"none", "listen"}

\* When every program has ended nothing is left over: every message was read,
\* every semaphore is back at its initial value, the ring buffer is empty.
CleanFinish ==
  Finished =>
    /\ \A n \in FPGA : /\ chan_c2f[n] = <<>> /\ chan_f2c[n] = <<>>
                       /\ sem_available_batches[n] = 0
                       /\ sem_available_results[n] = 0
    /\ chan_g2c = <<>> /\ chan_c2g = <<>>
    /\ sem_query_window_free_slots = query_window_size
    /\ sem_batch_window_free_slots = batch_window_size
    /\ sem_available_batches_to_send = 0
    /\ RB!size(ring_buffer_G2C) = 0

\* A reset result connection costs at most one query's answers: for an FPGA
\* whose own connection is up, the queries counted as finished exceed the
\* results read from it by at most the number of connections that failed.
LostAnswersBounded ==
  LET failed == Cardinality({m \in FPGA : conn_f2c[m] = "dead"})
  IN  \A n \in FPGA : conn_f2c[n] = "open" =>
        finish_F2C_query_id - (fpga_finish_F2C_query_id[n] - Len(chan_f2c[n]))
          <= failed

\* A batch the GPU did not send is forwarded only after the GPU's connection
\* failed, and it is the last one the G2C thread announces.  The batch window
\* must leave a free slot (or batches have several queries: one result that never
\* arrives counts as one query, a whole batch if batches have one query).
StaleBatchOnlyAfterReset ==
  pcC \in {"window", "send"} /\ G2C_conv_buf # c2f_batch_id =>
    conn_g2c = "dead" /\ c2f_batch_id = g2c_batch_id - 1

\* A connect() to an FPGA that was not listening yet.
RefusedC2F == \E n \in FPGA : conn_c2f[n] = "dead"

\* With the programs started in the documented order and no reset, all
\* programs end with every batch answered, unless a C2F connection was refused.
Termination == <>(Finished \/ RefusedC2F)

-----------------------------------------------------------------------------
(* A claim of a usage note that the code does not meet *)

\* FPGA_simulator.cpp, "Network order": with the coordinator opened first, the
\* FPGA establishes its connections for both threads before queries are sent,
\* so no C2F connect() of the coordinator is refused.
NetworkOrderSuffices == ~RefusedC2F
=============================================================================
