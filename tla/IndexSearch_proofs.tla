-------------------------- MODULE IndexSearch_proofs --------------------------
(***************************************************************************)
(* The index server and its FPGAs, for any number of FPGAs, batches and    *)
(* queries, any window sizes and whatever connections fail: the windows,   *)
(* framing, the answers' rows and the answers lost.                        *)
(***************************************************************************)
EXTENDS IndexSearch, FiniteSetTheorems, FunctionTheorems, TLAPS

-----------------------------------------------------------------------------
(* Types.                                                                  *)

ResultType == [fpga : FPGA \cup {-1}, id : Nat \cup {-1}]
HeaderType == [type : {"header"}, batch_size : {batch_size},
               terminate : BOOLEAN]
QueryType == [type : {"query"}, query : Query]

NetTypeOK ==
  /\ conn_c2f \in [FPGA -> ConnState] /\ conn_f2c \in [FPGA -> ConnState]
  /\ conn_g2c = "none"
  /\ chan_c2f \in [FPGA -> Seq(HeaderType \cup QueryType)]
  /\ chan_f2c \in [FPGA -> Seq(ResultType)]
  /\ resets \in 0 .. MaxResets

SharedTypeOK ==
  /\ start_index \in BOOLEAN /\ start_C2F \in BOOLEAN /\ start_F2C \in BOOLEAN
  /\ sem_batch_window_free_slots \in Nat
  /\ sem_query_window_free_slots \in Nat
  /\ sem_available_batches_to_send \in Nat

IndexTypeOK ==
  /\ pcI \in {"init", "wait_C2F", "window", "scan", "done"}
  /\ index_scan_batch_id \in 0 .. total_batch_num

C2FTypeOK ==
  /\ pcC \in {"wait_F2C", "wait_index", "connect", "header", "available",
              "window", "send", "done"}
  /\ c2f_n \in FPGA /\ c2f_query_id \in Query
  /\ c2f_batch_id \in 0 .. total_batch_num
  /\ finish_C2F_query_id \in Nat \cup {-1}

F2CTypeOK ==
  /\ pcF \in {"listen", "accept", "wait_C2F", "read", "post_query",
              "post_batch", "done"}
  /\ f2c_n \in FPGA /\ f2c_query_id \in Query
  /\ f2c_batch_id \in 0 .. total_batch_num
  /\ buf_F2C \in ResultType
  /\ vector_ids_buf \in [Query -> ResultType]
  /\ finish_F2C_query_id \in Nat \cup {-1}

FPGATypeOK ==
  /\ pcR \in [FPGA -> {"off", "listen", "accept", "wait_F2C", "header",
                       "query", "done", "failed"}]
  /\ pcS \in [FPGA -> {"off", "connect", "wait_C2F", "batch", "result",
                       "send", "done", "failed"}]
  /\ rcv_query_id \in [FPGA -> Query] /\ snd_query_id \in [FPGA -> Query]
  /\ fpga_start_C2F \in [FPGA -> BOOLEAN]
  /\ fpga_start_F2C \in [FPGA -> BOOLEAN]
  /\ sem_available_batches \in [FPGA -> Nat]
  /\ sem_available_results \in [FPGA -> Nat]
  /\ buf_header \in [FPGA -> Seq(HeaderType)]
  /\ F2C_batch_id \in [FPGA -> Nat \cup {-1}]
  /\ fpga_finish_C2F_query_id \in [FPGA -> Nat \cup {-1}]
  /\ fpga_finish_F2C_query_id \in [FPGA -> Nat \cup {-1}]

\* A loop variable is below its bound inside the loop's body, so that the
\* increment at its end stays in range.
LoopBounds ==
  /\ pcI # "done" => index_scan_batch_id < total_batch_num
  /\ pcC \notin {"header", "done"} => c2f_batch_id < total_batch_num
  /\ pcF # "done" => f2c_batch_id < total_batch_num

\* The headers a simulator's F2C thread has used and those its semaphore
\* counts are the ones stored in buf_header; both its threads start together.
HeadersOf(n) ==
  /\ pcR[n] = "off" => pcS[n] = "off"
  /\ pcR[n] = "query" => Len(buf_header[n]) > 0
  /\ pcS[n] \in {"off", "connect", "wait_C2F"} =>
       F2C_batch_id[n] = -1 /\ Len(buf_header[n]) = sem_available_batches[n]
  /\ pcS[n] = "batch" =>
       /\ F2C_batch_id[n] >= 0
       /\ Len(buf_header[n]) = sem_available_batches[n] + F2C_batch_id[n]
  /\ pcS[n] \in {"result", "send"} =>
       /\ F2C_batch_id[n] >= 0
       /\ Len(buf_header[n]) = sem_available_batches[n] + F2C_batch_id[n] + 1

HeaderAccounting == \A n \in FPGA : HeadersOf(n)

ServerTypeInv == /\ NetTypeOK /\ SharedTypeOK /\ IndexTypeOK /\ C2FTypeOK
                 /\ F2CTypeOK /\ LoopBounds
FPGATypeInv == NetTypeOK /\ FPGATypeOK /\ HeaderAccounting

TypeInv == ServerTypeInv /\ FPGATypeInv

USE NetworkAssumption, IndexServerAssumption, RetrieverAssumption

\* What the network does to a sequence keeps its type.
LEMMA SeqTypes ==
  ASSUME NEW S, NEW s \in Seq(S)
  PROVE  /\ \A e \in S : Append(s, e) \in Seq(S)
         /\ s # <<>> => Head(s) \in S /\ Tail(s) \in Seq(S)
         /\ \A p \in Prefix(s) : p \in Seq(S)
         /\ \A e \in S : Len(Append(s, e)) = Len(s) + 1 /\ Append(s, e) # <<>>
  <1>1. \A p \in Prefix(s) : p \in Seq(S)
    BY DEF Prefix
  <1>2. s # <<>> => Head(s) \in S /\ Tail(s) \in Seq(S)
    OBVIOUS
  <1> QED BY <1>1, <1>2

\* Every step of the index thread keeps the types.
LEMMA IndexTypes ==
  ASSUME ServerTypeInv, thread_index_scan
  PROVE  ServerTypeInv'
  <1> USE DEF ServerTypeInv
  <1>1. NetTypeOK' /\ C2FTypeOK' /\ F2CTypeOK'
    BY DEF thread_index_scan, I_init, I_wait_C2F, I_window, I_scan_post, NetTypeOK, C2FTypeOK,
           F2CTypeOK, netVars, c2fVars, c2fLoop, f2cVars, f2cLoop, f2cBufs
  <1>2. SharedTypeOK' /\ IndexTypeOK'
    <2>1. CASE I_init
      BY <2>1 DEF I_init, SharedTypeOK, IndexTypeOK, semVars
    <2>2. CASE I_wait_C2F
      BY <2>2 DEF I_wait_C2F, SharedTypeOK, IndexTypeOK, startVars, semVars
    <2>3. CASE I_window
      BY <2>3 DEF I_window, SharedTypeOK, IndexTypeOK, startVars
    <2>4. CASE I_scan_post
      BY <2>4 DEF I_scan_post, SharedTypeOK, IndexTypeOK, LoopBounds, startVars
    <2> QED BY <2>1, <2>2, <2>3, <2>4 DEF thread_index_scan
  <1>3. LoopBounds'
    BY DEF thread_index_scan, I_init, I_wait_C2F, I_window, I_scan_post, IndexTypeOK,
           LoopBounds, c2fVars, c2fLoop, f2cVars, f2cLoop
  <1> QED BY <1>1, <1>2, <1>3

\* Every step of the broadcasting thread keeps the types; in particular the
\* loop over the FPGAs never runs past the last one.
LEMMA C2FTypes ==
  ASSUME ServerTypeInv, thread_C2F
  PROVE  ServerTypeInv'
  <1> USE DEF ServerTypeInv
  <1>0. 0 \in FPGA /\ \A i \in FPGA : i # num_FPGA - 1 => i + 1 \in FPGA
    BY DEF FPGA
  <1>a. IndexTypeOK' /\ F2CTypeOK' /\ UNCHANGED <<pcI, index_scan_batch_id, pcF, f2c_batch_id>>
    BY DEF thread_C2F, C2F_wait_F2C, C2F_wait_index, connect_C2F, send_header, C2F_available,
           C2F_window, send_query, C2F_sigpipe, IndexTypeOK, F2CTypeOK, indexVars, f2cVars,
           f2cLoop, f2cBufs
  <1>b. SharedTypeOK'
    <2>1. CASE C2F_available
      BY <2>1 DEF C2F_available, SharedTypeOK, startVars
    <2>2. CASE C2F_window
      BY <2>2 DEF C2F_window, SharedTypeOK, startVars
    <2>3. CASE connect_C2F
      BY <2>3 DEF connect_C2F, SharedTypeOK, semVars
    <2>4. CASE C2F_wait_F2C \/ C2F_wait_index \/ send_header \/ send_query \/ C2F_sigpipe
      BY <2>4 DEF C2F_wait_F2C, C2F_wait_index, send_header, send_query, C2F_sigpipe,
                  SharedTypeOK, startVars, semVars
    <2> QED BY <2>1, <2>2, <2>3, <2>4 DEF thread_C2F
  <1>1. CASE C2F_wait_F2C \/ C2F_wait_index \/ C2F_available \/ C2F_window \/ C2F_sigpipe
    <2>1. NetTypeOK'
      BY <1>1 DEF C2F_wait_F2C, C2F_wait_index, C2F_available, C2F_window, C2F_sigpipe,
                  NetTypeOK, netVars
    <2>2. C2FTypeOK' /\ LoopBounds'
      BY <1>a, <1>1 DEF C2F_wait_F2C, C2F_wait_index, C2F_available, C2F_window, C2F_sigpipe,
                  C2FTypeOK, LoopBounds, c2fVars, c2fLoop
    <2> QED BY <1>a, <1>b, <2>1, <2>2
  <1>2. CASE connect_C2F
    <2>1. c2f_n' \in FPGA /\ conn_c2f' \in [FPGA -> ConnState]
      BY <1>0, <1>2 DEF connect_C2F, C2FTypeOK, NetTypeOK, ConnState
    <2>2. NetTypeOK'
      BY <1>2, <2>1 DEF connect_C2F, NetTypeOK
    <2>3. C2FTypeOK' /\ LoopBounds'
      BY <1>a, <1>2, <2>1 DEF connect_C2F, C2FTypeOK, LoopBounds
    <2> QED BY <1>a, <1>b, <2>2, <2>3
  <1>3. ASSUME NEW msg \in HeaderType \cup QueryType, send_C2F(msg)
        PROVE  /\ chan_c2f' \in [FPGA -> Seq(HeaderType \cup QueryType)]
               /\ conn_c2f' \in [FPGA -> ConnState]
               /\ ~send_returns => c2f_n + 1 \in FPGA
    <2>1. /\ chan_c2f \in [FPGA -> Seq(HeaderType \cup QueryType)]
          /\ conn_c2f \in [FPGA -> ConnState] /\ c2f_n \in FPGA
      BY DEF NetTypeOK, C2FTypeOK
    <2>2. Append(chan_c2f[c2f_n], msg) \in Seq(HeaderType \cup QueryType)
      BY <2>1, SeqTypes
    <2>3. conn_c2f' \in [FPGA -> ConnState]
      BY <1>3, <2>1 DEF send_C2F, ConnState
    <2>4. chan_c2f' \in [FPGA -> Seq(HeaderType \cup QueryType)]
      BY <1>3, <2>1, <2>2 DEF send_C2F
    <2>5. ~send_returns => c2f_n + 1 \in FPGA
      BY <1>0, <2>1 DEF send_returns
    <2> QED BY <2>3, <2>4, <2>5
  <1>4. CASE send_header
    <2>1. [type |-> "header", batch_size |-> batch_size, terminate |-> terminate] \in HeaderType
      BY DEF HeaderType, terminate
    <2>2. /\ chan_c2f' \in [FPGA -> Seq(HeaderType \cup QueryType)]
          /\ conn_c2f' \in [FPGA -> ConnState] /\ c2f_n' \in FPGA
      BY <1>0, <1>3, <1>4, <2>1 DEF send_header
    <2>3. /\ pcC' \in {"header", "done", "available"}
          /\ pcC' = "available" => c2f_batch_id < total_batch_num
      BY <1>4 DEF send_header, terminate, C2FTypeOK
    <2>4. NetTypeOK'
      BY <1>4, <2>2 DEF send_header, NetTypeOK
    <2>5. C2FTypeOK' /\ LoopBounds'
      BY <1>a, <1>4, <2>2, <2>3 DEF send_header, C2FTypeOK, LoopBounds
    <2> QED BY <1>a, <1>b, <2>4, <2>5
  <1>5. CASE send_query
    <2>1. [type |-> "query", query |-> c2f_query_id] \in QueryType
      BY DEF QueryType, C2FTypeOK
    <2>2. /\ chan_c2f' \in [FPGA -> Seq(HeaderType \cup QueryType)]
          /\ conn_c2f' \in [FPGA -> ConnState] /\ c2f_n' \in FPGA
      BY <1>0, <1>3, <1>5, <2>1 DEF send_query
    <2>3. NetTypeOK'
      BY <1>5, <2>2 DEF send_query, NetTypeOK
    <2>4. C2FTypeOK' /\ LoopBounds'
      BY <1>a, <1>5, <2>2 DEF send_query, C2FTypeOK, LoopBounds, Query
    <2> QED BY <1>a, <1>b, <2>3, <2>4
  <1> QED BY <1>1, <1>2, <1>4, <1>5 DEF thread_C2F

\* Every step of the thread that collects the results keeps the types.
LEMMA F2CTypes ==
  ASSUME ServerTypeInv, thread_F2C
  PROVE  ServerTypeInv'
  <1> USE DEF ServerTypeInv
  <1>0. 0 \in FPGA /\ \A i \in FPGA : i # num_FPGA - 1 => i + 1 \in FPGA
    BY DEF FPGA
  <1>a. IndexTypeOK' /\ C2FTypeOK' /\ UNCHANGED <<pcI, index_scan_batch_id, pcC, c2f_batch_id>>
    BY DEF thread_F2C, F2C_listen, F2C_accept, F2C_wait_C2F, receive_answer_to_query,
           F2C_post_query, F2C_post_batch, IndexTypeOK, C2FTypeOK, indexVars, c2fVars, c2fLoop
  <1>b. SharedTypeOK'
    <2>1. CASE F2C_post_query
      BY <2>1 DEF F2C_post_query, SharedTypeOK, startVars
    <2>2. CASE F2C_post_batch
      BY <2>2 DEF F2C_post_batch, SharedTypeOK, startVars
    <2>3. CASE F2C_accept
      BY <2>3 DEF F2C_accept, SharedTypeOK, semVars
    <2>4. CASE F2C_listen \/ F2C_wait_C2F \/ receive_answer_to_query
      BY <2>4 DEF F2C_listen, F2C_wait_C2F, receive_answer_to_query, SharedTypeOK, startVars, semVars
    <2> QED BY <2>1, <2>2, <2>3, <2>4 DEF thread_F2C
  <1>1. CASE F2C_listen
    <2>1. NetTypeOK'
      BY <1>1 DEF F2C_listen, NetTypeOK, ConnState
    <2>2. F2CTypeOK' /\ LoopBounds'
      BY <1>a, <1>1 DEF F2C_listen, F2CTypeOK, LoopBounds, f2cLoop, f2cBufs
    <2> QED BY <1>a, <1>b, <2>1, <2>2
  <1>2. CASE F2C_accept \/ F2C_wait_C2F
    <2>1. NetTypeOK'
      BY <1>2 DEF F2C_accept, F2C_wait_C2F, NetTypeOK, netVars
    <2>2. F2CTypeOK' /\ LoopBounds'
      BY <1>0, <1>a, <1>2 DEF F2C_accept, F2C_wait_C2F, F2CTypeOK, LoopBounds, f2cLoop, f2cBufs
    <2> QED BY <1>a, <1>b, <2>1, <2>2
  <1>3. CASE receive_answer_to_query
    <2>1. chan_f2c \in [FPGA -> Seq(ResultType)] /\ f2c_n \in FPGA /\ buf_F2C \in ResultType
      BY DEF NetTypeOK, F2CTypeOK
    <2>2. chan_f2c[f2c_n] # <<>> =>
            Head(chan_f2c[f2c_n]) \in ResultType /\ Tail(chan_f2c[f2c_n]) \in Seq(ResultType)
      BY <2>1, SeqTypes
    <2>3. chan_f2c' \in [FPGA -> Seq(ResultType)] /\ buf_F2C' \in ResultType
      BY <1>3, <2>1, <2>2 DEF receive_answer_to_query, F2C_arrived
    <2>4. conn_f2c' \in [FPGA -> ConnState] /\ f2c_n' \in FPGA
      BY <1>0, <1>3, <2>1 DEF receive_answer_to_query, receive_returns, NetTypeOK, ConnState
    <2>5. NetTypeOK'
      BY <1>3, <2>3, <2>4 DEF receive_answer_to_query, NetTypeOK
    <2>6. F2CTypeOK' /\ LoopBounds'
      BY <1>a, <1>3, <2>3, <2>4 DEF receive_answer_to_query, F2CTypeOK, LoopBounds
    <2> QED BY <1>a, <1>b, <2>5, <2>6
  <1>4. CASE F2C_post_query
    <2>1. NetTypeOK'
      BY <1>4 DEF F2C_post_query, NetTypeOK, netVars
    <2>2. vector_ids_buf' \in [Query -> ResultType] /\ f2c_query_id' \in Query
      BY <1>4 DEF F2C_post_query, F2CTypeOK, answer_row, Query
    <2>3. F2CTypeOK' /\ LoopBounds'
      BY <1>a, <1>4, <2>2 DEF F2C_post_query, F2CTypeOK, LoopBounds
    <2> QED BY <1>a, <1>b, <2>1, <2>3
  <1>5. CASE F2C_post_batch
    <2>1. NetTypeOK'
      BY <1>5 DEF F2C_post_batch, NetTypeOK, netVars
    <2>2. F2CTypeOK' /\ LoopBounds'
      BY <1>a, <1>5 DEF F2C_post_batch, F2CTypeOK, LoopBounds, f2cBufs
    <2> QED BY <1>a, <1>b, <2>1, <2>2
  <1> QED BY <1>1, <1>2, <1>3, <1>4, <1>5 DEF thread_F2C

\* A header in the stream is stored as a header, and a stored header has the
\* coordinator's batch size.
LEMMA HeaderTypes ==
  /\ \A m \in HeaderType \cup QueryType : m.type = "header" => m \in HeaderType
  /\ \A h \in HeaderType : h.batch_size = batch_size /\ h.terminate \in BOOLEAN
  BY DEF HeaderType, QueryType

\* The counters that start at -1.
LEMMA FromMinusOne ==
  \A x \in Nat \cup {-1} : x \in Int /\ x + 1 \in Nat /\ x + 1 \in Nat \cup {-1}
  OBVIOUS

\* Every step of the simulator's receiving thread keeps the types.
LEMMA ReceiverTypes ==
  ASSUME FPGATypeInv, NEW n \in FPGA,
         start_C2F_F2C_threads(n) \/ FPGA_thread_C2F(n)
  PROVE  FPGATypeInv'
  <1> USE DEF FPGATypeInv
  <1>1. CASE start_C2F_F2C_threads(n)
    <2>1. FPGATypeOK' /\ NetTypeOK'
      BY <1>1 DEF start_C2F_F2C_threads, FPGATypeOK, NetTypeOK, netVars
    <2>2. HeaderAccounting'
      BY <1>1 DEF start_C2F_F2C_threads, FPGATypeOK, HeaderAccounting, HeadersOf
    <2> QED BY <2>1, <2>2
  <1>2. CASE R_listen(n)
    <2>1. FPGATypeOK' /\ NetTypeOK'
      BY <1>2 DEF R_listen, FPGATypeOK, NetTypeOK, ConnState, sndVars
    <2>2. HeaderAccounting'
      BY <1>2 DEF R_listen, FPGATypeOK, HeaderAccounting, HeadersOf, sndVars
    <2> QED BY <2>1, <2>2
  <1>3. CASE R_accept(n) \/ R_wait_F2C(n) \/ R_fail(n)
    <2>1. FPGATypeOK' /\ NetTypeOK'
      BY <1>3 DEF R_accept, R_wait_F2C, R_fail, FPGATypeOK, NetTypeOK, netVars, sndVars
    <2>2. HeaderAccounting'
      BY <1>3 DEF R_accept, R_wait_F2C, R_fail, FPGATypeOK, HeaderAccounting, HeadersOf, sndVars
    <2> QED BY <2>1, <2>2
  <1>4. CASE R_header(n)
    <2> DEFINE header == Head(chan_c2f[n])
    <2>1. chan_c2f[n] \in Seq(HeaderType \cup QueryType) /\ buf_header[n] \in Seq(HeaderType)
      BY DEF NetTypeOK, FPGATypeOK
    <2>2. header \in HeaderType /\ Tail(chan_c2f[n]) \in Seq(HeaderType \cup QueryType)
      BY <1>4, <2>1, SeqTypes, HeaderTypes DEF R_header
    <2>3. /\ Append(buf_header[n], header) \in Seq(HeaderType)
          /\ Len(Append(buf_header[n], header)) = Len(buf_header[n]) + 1
          /\ Len(buf_header[n]) \in Nat
      BY <2>1, <2>2, SeqTypes
    <2> HIDE DEF header
    <2>4. /\ pcR' = [pcR EXCEPT ![n] = IF header.terminate THEN "done" ELSE "query"]
          /\ buf_header' = [buf_header EXCEPT ![n] = Append(buf_header[n], header)]
          /\ chan_c2f' = [chan_c2f EXCEPT ![n] = Tail(chan_c2f[n])]
          /\ sem_available_batches' =
               [sem_available_batches EXCEPT ![n] = sem_available_batches[n] + 1]
          /\ pcR[n] = "header"
          /\ UNCHANGED <<rcv_query_id, fpga_start_C2F, fpga_finish_C2F_query_id, sndVars,
                         sem_available_results, conn_c2f, conn_f2c, conn_g2c, chan_f2c,
                         chan_g2c, chan_c2g, resets>>
      BY <1>4 DEF R_header, header
    <2>5. NetTypeOK'
      BY <2>2, <2>4 DEF NetTypeOK
    <2>6. FPGATypeOK'
      BY <2>3, <2>4 DEF FPGATypeOK, sndVars
    <2>7. HeaderAccounting'
      BY <2>3, <2>4 DEF FPGATypeOK, HeaderAccounting, HeadersOf, sndVars
    <2> QED BY <2>5, <2>6, <2>7
  <1>5. CASE R_query(n)
    <2>1. chan_c2f[n] \in Seq(HeaderType \cup QueryType) /\ buf_header[n] \in Seq(HeaderType)
      BY DEF NetTypeOK, FPGATypeOK
    <2>2. Tail(chan_c2f[n]) \in Seq(HeaderType \cup QueryType)
      BY <1>5, <2>1, SeqTypes DEF R_query
    <2>3. NetTypeOK'
      BY <1>5, <2>2 DEF R_query, NetTypeOK
    <2>4. buf_header[n][Len(buf_header[n])].batch_size = batch_size
      <3>1. Len(buf_header[n]) \in 1 .. Len(buf_header[n])
        BY <1>5, <2>1 DEF R_query, HeaderAccounting, HeadersOf
      <3>2. buf_header[n][Len(buf_header[n])] \in HeaderType
        BY <2>1, <3>1
      <3> QED BY <3>2, HeaderTypes
    <2>5. rcv_query_id' \in [FPGA -> Query]
      BY <1>5, <2>4 DEF R_query, R_last_query, FPGATypeOK, Query
    <2>5a. /\ fpga_finish_C2F_query_id' \in [FPGA -> Nat \cup {-1}]
           /\ sem_available_results' \in [FPGA -> Nat]
           /\ pcR' \in [FPGA -> {"off", "listen", "accept", "wait_F2C", "header",
                                 "query", "done", "failed"}]
      <3>1. fpga_finish_C2F_query_id[n] + 1 \in Nat \cup {-1}
        BY FromMinusOne DEF FPGATypeOK
      <3>2. fpga_finish_C2F_query_id' \in [FPGA -> Nat \cup {-1}]
        BY <1>5, <3>1 DEF R_query, FPGATypeOK
      <3> QED BY <1>5, <3>2 DEF R_query, FPGATypeOK
    <2>6. FPGATypeOK'
      BY <1>5, <2>5, <2>5a DEF R_query, FPGATypeOK, sndVars
    <2>7. HeaderAccounting'
      BY <1>5 DEF R_query, FPGATypeOK, HeaderAccounting, HeadersOf, sndVars
    <2> QED BY <2>3, <2>6, <2>7
  <1> QED BY <1>1, <1>2, <1>3, <1>4, <1>5 DEF FPGA_thread_C2F

\* Every step of the simulator's sending thread keeps the types: it never
\* reads a header that was not received.
LEMMA SenderTypes ==
  ASSUME FPGATypeInv, NEW n \in FPGA, FPGA_thread_F2C(n)
  PROVE  FPGATypeInv'
  <1> USE DEF FPGATypeInv
  <1>1. CASE S_connect(n)
    <2>1. FPGATypeOK' /\ NetTypeOK'
      BY <1>1 DEF S_connect, FPGATypeOK, NetTypeOK, ConnState, rcvVars
    <2>2. HeaderAccounting'
      BY <1>1 DEF S_connect, FPGATypeOK, HeaderAccounting, HeadersOf, rcvVars
    <2> QED BY <2>1, <2>2
  <1>2. CASE S_wait_C2F(n)
    <2>0. F2C_batch_id' \in [FPGA -> Nat \cup {-1}]
      <3>1. F2C_batch_id[n] + 1 \in Nat \cup {-1}
        BY FromMinusOne DEF FPGATypeOK
      <3> QED BY <1>2, <3>1 DEF S_wait_C2F, FPGATypeOK
    <2>1. FPGATypeOK' /\ NetTypeOK'
      BY <1>2, <2>0 DEF S_wait_C2F, FPGATypeOK, NetTypeOK, netVars, rcvVars
    <2>2. HeaderAccounting'
      BY <1>2 DEF S_wait_C2F, FPGATypeOK, HeaderAccounting, HeadersOf, rcvVars
    <2> QED BY <2>1, <2>2
  <1>3. CASE S_batch(n) \/ S_result(n) \/ S_fail(n)
    <2>0. /\ sem_available_batches' \in [FPGA -> Nat]
          /\ sem_available_results' \in [FPGA -> Nat]
          /\ pcS' \in [FPGA -> {"off", "connect", "wait_C2F", "batch", "result",
                                "send", "done", "failed"}]
      <3>1. CASE S_batch(n)
        BY <3>1 DEF S_batch, FPGATypeOK
      <3>2. CASE S_result(n)
        BY <3>2 DEF S_result, FPGATypeOK
      <3>3. CASE S_fail(n)
        BY <3>3 DEF S_fail, FPGATypeOK
      <3> QED BY <1>3, <3>1, <3>2, <3>3
    <2>1. FPGATypeOK' /\ NetTypeOK'
      BY <1>3, <2>0 DEF S_batch, S_result, S_fail, FPGATypeOK, NetTypeOK, netVars, rcvVars
    <2>2. HeaderAccounting'
      <3> USE DEF FPGATypeOK, HeaderAccounting, HeadersOf, rcvVars
      <3>1. CASE S_batch(n)
        BY <3>1 DEF S_batch
      <3>2. CASE S_result(n)
        BY <3>2 DEF S_result
      <3>3. CASE S_fail(n)
        BY <3>3 DEF S_fail
      <3> QED BY <1>3, <3>1, <3>2, <3>3, Zenon
    <2> QED BY <2>1, <2>2
  <1>4. CASE S_send(n)
    <2>1. buf_header[n][F2C_batch_id[n] + 1].batch_size = batch_size
      <3>1. buf_header[n] \in Seq(HeaderType) /\ F2C_batch_id[n] + 1 \in 1 .. Len(buf_header[n])
        <4>1. /\ buf_header[n] \in Seq(HeaderType)
              /\ F2C_batch_id[n] \in Nat \cup {-1} /\ sem_available_batches[n] \in Nat
              /\ sem_available_results[n] \in Nat
          BY DEF FPGATypeOK
        <4>2. /\ F2C_batch_id[n] >= 0
              /\ Len(buf_header[n]) = sem_available_batches[n] + F2C_batch_id[n] + 1
          BY <1>4 DEF S_send, HeaderAccounting, HeadersOf
        <4>3. F2C_batch_id[n] \in Nat
          BY <4>1, <4>2
        <4> QED BY <4>1, <4>2, <4>3
      <3>2. buf_header[n][F2C_batch_id[n] + 1] \in HeaderType
        BY <3>1
      <3> QED BY <3>2, HeaderTypes
    <2>2. snd_query_id' \in [FPGA -> Query]
      BY <1>4, <2>1 DEF S_send, FPGATypeOK, Query
    <2>3. chan_f2c' \in [FPGA -> Seq(ResultType)]
      <3>1. [fpga |-> n, id |-> fpga_finish_F2C_query_id[n] + 1] \in ResultType
        <4>1. fpga_finish_F2C_query_id[n] + 1 \in Nat \cup {-1}
          BY FromMinusOne DEF FPGATypeOK
        <4> QED BY <4>1 DEF ResultType
      <3>2. Append(chan_f2c[n], [fpga |-> n, id |-> fpga_finish_F2C_query_id[n] + 1])
              \in Seq(ResultType)
        BY <3>1, SeqTypes DEF NetTypeOK
      <3> QED BY <1>4, <3>2 DEF S_send, NetTypeOK
    <2>4. NetTypeOK'
      BY <1>4, <2>3 DEF S_send, NetTypeOK
    <2>5. FPGATypeOK'
      <3>1. /\ fpga_finish_F2C_query_id[n] + 1 \in Nat \cup {-1}
            /\ F2C_batch_id[n] + 1 \in Nat \cup {-1}
            /\ F2C_batch_id[n] \in Nat \cup {-1}
        BY FromMinusOne DEF FPGATypeOK
      <3>2. fpga_finish_F2C_query_id' \in [FPGA -> Nat \cup {-1}]
        BY <1>4, <3>1 DEF S_send, FPGATypeOK
      <3>3. F2C_batch_id' \in [FPGA -> Nat \cup {-1}]
        BY <1>4, <3>1 DEF S_send, FPGATypeOK
      <3>4. pcS' \in [FPGA -> {"off", "connect", "wait_C2F", "batch", "result",
                               "send", "done", "failed"}]
        BY <1>4 DEF S_send, FPGATypeOK
      <3> QED BY <1>4, <2>2, <3>2, <3>3, <3>4 DEF S_send, FPGATypeOK, rcvVars
    <2>6. HeaderAccounting'
      <3> DEFINE last == snd_query_id[n] = buf_header[n][F2C_batch_id[n] + 1].batch_size - 1
      <3>1. /\ pcS[n] = "send"
            /\ pcS' = [pcS EXCEPT ![n] = IF last THEN "batch" ELSE "result"]
            /\ F2C_batch_id' = [F2C_batch_id EXCEPT
                                  ![n] = IF last THEN F2C_batch_id[n] + 1 ELSE F2C_batch_id[n]]
            /\ UNCHANGED <<pcR, buf_header, sem_available_batches>>
        BY <1>4 DEF S_send, rcvVars
      <3> HIDE DEF last
      <3>2. \A m \in FPGA : /\ F2C_batch_id[m] \in Int /\ sem_available_batches[m] \in Nat
                            /\ Len(buf_header[m]) \in Nat
        BY FromMinusOne DEF FPGATypeOK
      <3>3. /\ F2C_batch_id \in [FPGA -> Nat \cup {-1}] /\ DOMAIN pcS = FPGA
            /\ pcS \in [FPGA -> {"off", "connect", "wait_C2F", "batch", "result",
                                 "send", "done", "failed"}]
        BY DEF FPGATypeOK
      <3> SUFFICES ASSUME NEW m \in FPGA  PROVE HeadersOf(m)'
        BY DEF HeaderAccounting
      <3>4. CASE m = n /\ last
        <4>1. pcS'[m] = "batch" /\ F2C_batch_id'[m] = F2C_batch_id[m] + 1
          BY <3>1, <3>3, <3>4
        <4>2. /\ pcR[m] # "off" /\ F2C_batch_id[m] >= 0
              /\ pcR[m] = "query" => Len(buf_header[m]) > 0
              /\ Len(buf_header[m]) = sem_available_batches[m] + F2C_batch_id[m] + 1
          BY <3>1, <3>4 DEF HeaderAccounting, HeadersOf
        <4>3. /\ F2C_batch_id[m] + 1 >= 0
              /\ Len(buf_header[m]) = sem_available_batches[m] + (F2C_batch_id[m] + 1)
          BY <3>2, <4>2
        <4> QED BY <3>1, <4>1, <4>2, <4>3 DEF HeadersOf
      <3>5. CASE m = n /\ ~last
        <4>1. pcS'[m] = "result" /\ F2C_batch_id'[m] = F2C_batch_id[m]
          BY <3>1, <3>3, <3>5
        <4> QED BY <3>1, <3>2, <3>5, <4>1 DEF HeaderAccounting, HeadersOf
      <3>6. CASE m # n
        BY <3>1, <3>2, <3>3, <3>6 DEF HeaderAccounting, HeadersOf
      <3> QED BY <3>4, <3>5, <3>6
    <2> QED BY <2>4, <2>5, <2>6
  <1> QED BY <1>1, <1>2, <1>3, <1>4 DEF FPGA_thread_F2C

\* A reset shortens what is in flight and keeps the types; there is no GPU
\* whose connection could fail.
LEMMA ResetTypes ==
  ASSUME NetTypeOK, Reset
  PROVE  /\ NetTypeOK'
         /\ \E n \in FPGA : ResetC2F(n) \/ ResetF2C(n)
  <1>0. resets' \in 0 .. MaxResets
    BY DEF Reset, NetTypeOK
  <1>1. ASSUME NEW n \in FPGA, ResetC2F(n)
        PROVE  NetTypeOK'
    <2>1. PICK q \in Prefix(chan_c2f[n]) : chan_c2f' = [chan_c2f EXCEPT ![n] = q]
      BY <1>1 DEF ResetC2F
    <2>2. q \in Seq(HeaderType \cup QueryType)
      BY <2>1, SeqTypes DEF NetTypeOK
    <2> QED BY <1>0, <1>1, <2>1, <2>2 DEF ResetC2F, NetTypeOK, ConnState
  <1>2. ASSUME NEW n \in FPGA, ResetF2C(n)
        PROVE  NetTypeOK'
    <2>1. PICK q \in Prefix(chan_f2c[n]) : chan_f2c' = [chan_f2c EXCEPT ![n] = q]
      BY <1>2 DEF ResetF2C
    <2>2. q \in Seq(ResultType)
      BY <2>1, SeqTypes DEF NetTypeOK
    <2> QED BY <1>0, <1>2, <2>1, <2>2 DEF ResetF2C, NetTypeOK, ConnState
  <1>3. ~ResetG2C
    BY DEF ResetG2C, NetTypeOK
  <1> QED BY <1>1, <1>2, <1>3 DEF Reset

\* The types hold when every program is yet to be started.
LEMMA InitTypeInv == Init => TypeInv
  <1> SUFFICES ASSUME Init PROVE TypeInv
    OBVIOUS
  <1> USE DEF Init
  <1>1. 0 \in FPGA /\ 0 \in Query /\ NoResult \in ResultType
    BY DEF FPGA, Query, NoResult, ResultType
  <1>2. NetTypeOK
    <2>1. <<>> \in Seq(HeaderType \cup QueryType) /\ <<>> \in Seq(ResultType)
      BY SeqTypes
    <2>2. chan_c2f \in [FPGA -> Seq(HeaderType \cup QueryType)] /\ chan_f2c \in [FPGA -> Seq(ResultType)]
      BY <2>1 DEF NetInit
    <2>3. resets \in 0 .. MaxResets
      BY DEF NetInit
    <2> QED BY <2>2, <2>3 DEF NetInit, NetTypeOK, ConnState
  <1>3. SharedTypeOK /\ IndexTypeOK
    <2>1. /\ start_index = FALSE /\ start_C2F = FALSE /\ start_F2C = FALSE
          /\ sem_query_window_free_slots = query_window_size
          /\ sem_batch_window_free_slots = batch_window_size
          /\ sem_available_batches_to_send = 0
          /\ pcI = "init" /\ index_scan_batch_id = 0
      BY DEF ServerInit
    <2>2. /\ query_window_size \in Nat /\ batch_window_size \in Nat
          /\ total_batch_num \in Nat /\ 0 \in Nat /\ 0 \in 0 .. total_batch_num
      OBVIOUS
    <2>3. SharedTypeOK
      BY <2>1, <2>2, Zenon DEF SharedTypeOK
    <2>4. IndexTypeOK
      BY <2>1, <2>2, Zenon DEF IndexTypeOK
    <2> QED BY <2>3, <2>4
  <1>4. C2FTypeOK /\ F2CTypeOK
    BY <1>1 DEF ServerInit, C2FTypeOK, F2CTypeOK
  <1>5. FPGATypeOK
    BY <1>1 DEF FPGAInit, FPGATypeOK
  <1>6. LoopBounds
    BY DEF ServerInit, LoopBounds
  <1>7. HeaderAccounting
    BY DEF FPGAInit, HeaderAccounting, HeadersOf
  <1> QED BY <1>2, <1>3, <1>4, <1>5, <1>6, <1>7 DEF TypeInv, ServerTypeInv, FPGATypeInv

\* Every step of the system keeps the types.
LEMMA NextTypeInv == TypeInv /\ [Next]_vars => TypeInv'
  <1> SUFFICES ASSUME TypeInv, [Next]_vars PROVE TypeInv'
    OBVIOUS
  <1> USE DEF TypeInv
  \* What a step leaves alone keeps its type.
  <1>a. UNCHANGED serverVars =>
          (SharedTypeOK /\ IndexTypeOK /\ C2FTypeOK /\ F2CTypeOK /\ LoopBounds)'
    BY DEF ServerTypeInv, SharedTypeOK, IndexTypeOK, C2FTypeOK, F2CTypeOK, LoopBounds, serverVars,
           startVars, semVars, indexVars, c2fVars, c2fLoop, f2cVars, f2cLoop, f2cBufs
  <1>b. UNCHANGED fpgaVars => FPGATypeOK' /\ HeaderAccounting'
    BY DEF FPGATypeInv, FPGATypeOK, HeaderAccounting, HeadersOf, fpgaVars, rcvVars, sndVars
  <1>c. UNCHANGED netVars => NetTypeOK'
    BY DEF ServerTypeInv, NetTypeOK, netVars
  <1>1. CASE ServerNext /\ UNCHANGED fpgaVars
    <2>1. ServerTypeInv'
      BY <1>1, IndexTypes, C2FTypes, F2CTypes DEF ServerNext
    <2> QED BY <1>b, <1>1, <2>1 DEF ServerTypeInv, FPGATypeInv
  <1>2. ASSUME NEW n \in FPGA, FPGANext(n), UNCHANGED serverVars
        PROVE  TypeInv'
    <2>1. FPGATypeInv'
      BY <1>2, ReceiverTypes, SenderTypes DEF FPGANext
    <2> QED BY <1>a, <1>2, <2>1 DEF ServerTypeInv, FPGATypeInv
  <1>3. CASE Reset /\ UNCHANGED <<serverVars, fpgaVars>>
    <2>1. NetTypeOK'
      BY <1>3, ResetTypes DEF ServerTypeInv
    <2>2. UNCHANGED serverVars /\ UNCHANGED fpgaVars
      BY <1>3
    <2> QED BY <1>a, <1>b, <2>1, <2>2 DEF ServerTypeInv, FPGATypeInv
  <1>4. CASE Halted \/ UNCHANGED vars
    <2>1. UNCHANGED netVars /\ UNCHANGED serverVars /\ UNCHANGED fpgaVars
      BY <1>4 DEF Halted, vars
    <2> QED BY <1>a, <1>b, <1>c, <2>1 DEF ServerTypeInv, FPGATypeInv
  <1> QED BY <1>1, <1>2, <1>3, <1>4 DEF Next

\* The types hold in every state: no semaphore underflows, every loop variable
\* stays in its range, a simulator reads only headers it has received.
LEMMA TypeInductive == Spec => []TypeInv
BY InitTypeInv, NextTypeInv, PTL DEF Spec

-----------------------------------------------------------------------------
(* The windows.                                                            *)

\* The three semaphores count the work between their waits and posts.
WindowAccounting ==
  /\ sem_query_window_free_slots =
       query_window_size - (QueriesBegun - (finish_F2C_query_id + 1))
  /\ sem_batch_window_free_slots =
       batch_window_size - (BatchesScanned - f2c_batch_id)
  /\ sem_available_batches_to_send = index_scan_batch_id - BatchesTaken

\* The counters the accounting compares.
Counters == /\ sem_query_window_free_slots \in Nat /\ sem_batch_window_free_slots \in Nat
            /\ sem_available_batches_to_send \in Nat
            /\ index_scan_batch_id \in Int /\ c2f_batch_id \in Int /\ f2c_batch_id \in Int
            /\ finish_C2F_query_id \in Int /\ finish_F2C_query_id \in Int

LEMMA CountersHold == TypeInv => Counters
BY FromMinusOne DEF TypeInv, ServerTypeInv, SharedTypeOK, IndexTypeOK, C2FTypeOK, F2CTypeOK, Counters

\* Every wait, post, failed send() and failed read() keeps the accounts.
LEMMA NextWindow ==
  ASSUME TypeInv, WindowAccounting, [Next]_vars
  PROVE  WindowAccounting'
  <1>0. Counters
    BY CountersHold
  <1> USE DEF WindowAccounting, QueriesBegun, BatchesScanned, BatchesTaken
  <1>1. CASE thread_index_scan
    <2>1. CASE I_init \/ I_wait_C2F
      BY <2>1 DEF I_init, I_wait_C2F, semVars, c2fVars, c2fLoop, f2cVars, f2cLoop
    <2>2. CASE I_window
      BY <1>0, <2>2 DEF I_window, c2fVars, c2fLoop, f2cVars, f2cLoop, Counters
    <2>3. CASE I_scan_post
      BY <1>0, <2>3 DEF I_scan_post, c2fVars, c2fLoop, f2cVars, f2cLoop, Counters
    <2> QED BY <1>1, <2>1, <2>2, <2>3 DEF thread_index_scan
  <1>2. CASE thread_C2F
    <2>1. CASE C2F_wait_F2C \/ C2F_wait_index \/ connect_C2F
      BY <2>1 DEF C2F_wait_F2C, C2F_wait_index, connect_C2F, semVars, indexVars, c2fLoop, f2cVars, f2cLoop
    <2>2. CASE send_header
      <3>1. pcC = "header" /\ pcC' \in {"header", "done", "available"}
        BY <2>2 DEF send_header
      <3> QED BY <2>2, <3>1 DEF send_header, semVars, indexVars, f2cVars, f2cLoop
    <2>3. CASE C2F_available
      BY <1>0, <2>3 DEF C2F_available, indexVars, c2fLoop, f2cVars, f2cLoop, Counters
    <2>4. CASE C2F_window
      BY <1>0, <2>4 DEF C2F_window, indexVars, c2fLoop, f2cVars, f2cLoop, Counters
    <2>5. CASE send_query
      BY <1>0, <2>5 DEF send_query, semVars, indexVars, f2cVars, f2cLoop, Counters
    <2>6. CASE C2F_sigpipe
      BY <2>6 DEF C2F_sigpipe, semVars, indexVars, c2fVars, c2fLoop, f2cVars, f2cLoop
    <2> QED BY <1>2, <2>1, <2>2, <2>3, <2>4, <2>5, <2>6 DEF thread_C2F
  <1>3. CASE thread_F2C
    <2>1. CASE F2C_listen \/ F2C_accept \/ F2C_wait_C2F
      BY <2>1 DEF F2C_listen, F2C_accept, F2C_wait_C2F, semVars, indexVars, c2fVars, c2fLoop, f2cLoop
    <2>2. CASE receive_answer_to_query
      BY <2>2 DEF receive_answer_to_query, semVars, indexVars, c2fVars, c2fLoop
    <2>3. CASE F2C_post_query
      BY <1>0, <2>3 DEF F2C_post_query, indexVars, c2fVars, c2fLoop, Counters
    <2>4. CASE F2C_post_batch
      BY <1>0, <2>4 DEF F2C_post_batch, indexVars, c2fVars, c2fLoop, Counters
    <2> QED BY <1>3, <2>1, <2>2, <2>3, <2>4 DEF thread_F2C
  <1>4. CASE UNCHANGED serverVars
    BY <1>4 DEF serverVars, semVars, indexVars, c2fVars, c2fLoop, f2cVars, f2cLoop
  <1> QED BY <1>1, <1>2, <1>3, <1>4 DEF Next, ServerNext, Halted, vars

\* For every window size, number of FPGAs and batches, and whatever send(),
\* connect() and read() return: the scan is at most the batch window ahead of
\* the answers, the C2F thread at most the query window, and no batch is taken
\* before it is scanned.
THEOREM Windows == Spec => []WithinWindows
<1>1. Init => WindowAccounting
  <2> SUFFICES ASSUME Init PROVE WindowAccounting
    OBVIOUS
  <2>1. /\ sem_query_window_free_slots = query_window_size
        /\ sem_batch_window_free_slots = batch_window_size
        /\ sem_available_batches_to_send = 0
        /\ pcI = "init" /\ pcC = "wait_F2C"
        /\ index_scan_batch_id = 0 /\ c2f_batch_id = 0 /\ f2c_batch_id = 0
        /\ finish_C2F_query_id = -1 /\ finish_F2C_query_id = -1
    BY DEF Init, ServerInit
  <2>2. QueriesBegun = 0 /\ BatchesScanned = 0 /\ BatchesTaken = 0
    BY <2>1 DEF QueriesBegun, BatchesScanned, BatchesTaken
  <2> QED BY <2>1, <2>2 DEF WindowAccounting
<1>2. TypeInv /\ WindowAccounting /\ [Next]_vars => WindowAccounting'
  BY NextWindow
<1>3. TypeInv /\ WindowAccounting => WithinWindows
  <2> SUFFICES ASSUME Counters, WindowAccounting PROVE WithinWindows
    BY CountersHold
  <2>1. QueriesBegun \in Int /\ BatchesScanned \in Int /\ BatchesTaken \in Int
    BY DEF Counters, QueriesBegun, BatchesScanned, BatchesTaken
  <2> QED BY <2>1 DEF Counters, WindowAccounting, WithinWindows
<1> QED BY <1>1, <1>2, <1>3, TypeInductive, PTL DEF Spec

-----------------------------------------------------------------------------
(**************************************************************************)
(* Framing: each FPGA's byte stream is a sequence of batches, and both its *)
(* ends know where in a batch they are.  A place in a batch is a number: 0 *)
(* before its header, q + 1 before query q, batch_size + 1 after the       *)
(* terminate header.                                                       *)
(**************************************************************************)

Message == HeaderType \cup QueryType

\* The place of a message, and the place after it.
PlaceOf(msg) == IF msg.type = "header" THEN 0 ELSE msg.query + 1
PlaceAfter(msg) ==
  IF msg.type = "header" THEN (IF msg.terminate THEN batch_size + 1 ELSE 1)
  ELSE IF msg.query = batch_size - 1 THEN 0 ELSE msg.query + 2

\* The stream c starts at place a, and each message is followed by the next.
Framed(c, a) ==
  /\ c # <<>> => PlaceOf(c[1]) = a
  /\ \A i \in 1 .. Len(c) - 1 : PlaceOf(c[i + 1]) = PlaceAfter(c[i])

\* The place after the stream.
EndOf(c, a) == IF c = <<>> THEN a ELSE PlaceAfter(c[Len(c)])

\* Where the simulator of FPGA n is, and where the C2F thread is for it.
Awaited(n) ==
  IF pcR[n] = "query" THEN rcv_query_id[n] + 1
  ELSE IF pcR[n] = "done" THEN batch_size + 1 ELSE 0

AfterQuery == IF c2f_query_id = batch_size - 1 THEN 0 ELSE c2f_query_id + 2
Due(n) ==
  IF pcC = "header" THEN (IF n >= c2f_n THEN 0 ELSE IF terminate THEN batch_size + 1 ELSE 1)
  ELSE IF pcC = "available" THEN 1
  ELSE IF pcC = "window" THEN c2f_query_id + 1
  ELSE IF pcC = "send" THEN (IF n >= c2f_n THEN c2f_query_id + 1 ELSE AfterQuery)
  ELSE IF pcC = "done" THEN batch_size + 1 ELSE 0

\* A failed send ended a broadcast before FPGA n: the next message to the FPGA
\* whose connection failed kills the server before n gets another one.
CutOff(n) == \E m \in FPGA : m < n /\ conn_c2f[m] = "dead" /\ c2f_n <= m

\* The loops over the FPGAs and the queries start at 0.
LoopStarts ==
  /\ pcC \in {"wait_F2C", "wait_index", "available", "window"} => c2f_n = 0
  /\ pcC \in {"wait_F2C", "wait_index", "connect", "header", "available"} =>
       c2f_query_id = 0

FramedFor(n) ==
  /\ pcR[n] \notin {"query", "failed"} => rcv_query_id[n] = 0
  /\ pcR[n] = "failed" => chan_c2f[n] = <<>> /\ conn_c2f[n] \in {"reset", "dead"}
  /\ conn_c2f[n] \in {"none", "listen"} =>
       pcR[n] \in {"off", "listen", "accept"} /\ chan_c2f[n] = <<>>
  /\ Framed(chan_c2f[n], Awaited(n))
  /\ conn_c2f[n] = "open" => Due(n) = EndOf(chan_c2f[n], Awaited(n)) \/ CutOff(n)

FramingInv == LoopStarts /\ \A n \in FPGA : FramedFor(n)

frameVars == <<chan_c2f, conn_c2f, pcR, rcv_query_id, pcC, c2f_n, c2f_query_id, c2f_batch_id>>

LEMMA MessageFacts ==
  ASSUME NEW msg \in Message
  PROVE  /\ PlaceOf(msg) \in 0 .. batch_size
         /\ msg.type \in {"header", "query"}
         /\ msg.type = "header" <=> PlaceOf(msg) = 0
         /\ msg.type = "query" => msg.query \in Query /\ PlaceOf(msg) = msg.query + 1
  <1>1. CASE msg \in HeaderType
    BY <1>1 DEF HeaderType, PlaceOf
  <1>2. CASE msg \in QueryType
    <2>1. msg.type = "query" /\ msg.query \in Query
      BY <1>2 DEF QueryType
    <2> QED BY <2>1 DEF PlaceOf, Query
  <1> QED BY <1>1, <1>2 DEF Message

\* The right message may be appended.
LEMMA FramedAppend ==
  ASSUME NEW c \in Seq(Message), NEW a, NEW msg \in Message,
         Framed(c, a), PlaceOf(msg) = EndOf(c, a)
  PROVE  Framed(Append(c, msg), a) /\ EndOf(Append(c, msg), a) = PlaceAfter(msg)
  <1> DEFINE d == Append(c, msg)
  <1>1. /\ Len(d) = Len(c) + 1 /\ d # <<>> /\ d[Len(c) + 1] = msg
        /\ \A i \in 1 .. Len(c) : d[i] = c[i]
    OBVIOUS
  <1>2. PlaceOf(d[1]) = a
    BY <1>1 DEF Framed, EndOf
  <1>3. ASSUME NEW i \in 1 .. Len(d) - 1  PROVE PlaceOf(d[i + 1]) = PlaceAfter(d[i])
    <2>1. CASE i = Len(c)
      BY <1>1, <2>1 DEF EndOf
    <2>2. CASE i # Len(c)
      BY <1>1, <2>2 DEF Framed
    <2> QED BY <2>1, <2>2
  <1> QED BY <1>1, <1>2, <1>3 DEF Framed, EndOf

\* The first message may be taken away.
LEMMA FramedTail ==
  ASSUME NEW c \in Seq(Message), NEW a, Framed(c, a), c # <<>>
  PROVE  /\ PlaceOf(Head(c)) = a
         /\ Framed(Tail(c), PlaceAfter(Head(c)))
         /\ EndOf(Tail(c), PlaceAfter(Head(c))) = EndOf(c, a)
  <1>1. /\ Len(Tail(c)) = Len(c) - 1 /\ Head(c) = c[1] /\ Len(c) >= 1
        /\ \A i \in 1 .. Len(c) - 1 : Tail(c)[i] = c[i + 1]
    OBVIOUS
  <1>5. Tail(c) \in Seq(Message)
    OBVIOUS
  <1>6. Tail(c) = <<>> <=> Len(c) = 1
    <2>1. \A s \in Seq(Message) : s = <<>> <=> Len(s) = 0
      OBVIOUS
    <2>2. Tail(c) = <<>> <=> Len(Tail(c)) = 0
      BY <1>5, <2>1, Zenon
    <2>3. Len(Tail(c)) = 0 <=> Len(c) = 1
      BY <1>1
    <2> QED BY <2>2, <2>3, Zenon
  <1>2. \A i \in 1 .. Len(c) - 1 : PlaceOf(c[i + 1]) = PlaceAfter(c[i])
    BY DEF Framed
  <1>3. Tail(c) # <<>> => PlaceOf(Tail(c)[1]) = PlaceAfter(c[1])
    BY <1>1, <1>2
  <1>4. \A i \in 1 .. Len(Tail(c)) - 1 : PlaceOf(Tail(c)[i + 1]) = PlaceAfter(Tail(c)[i])
    BY <1>1, <1>2
  <1>7. EndOf(Tail(c), PlaceAfter(Head(c))) = EndOf(c, a)
    BY <1>1, <1>6 DEF EndOf
  <1> QED BY <1>1, <1>3, <1>4, <1>7 DEF Framed

\* A suffix may be lost.
LEMMA FramedPrefix ==
  ASSUME NEW c \in Seq(Message), NEW a, Framed(c, a), NEW s \in Prefix(c)
  PROVE  Framed(s, a)
  BY DEF Framed, Prefix

FrameTypes ==
  /\ chan_c2f \in [FPGA -> Seq(Message)] /\ conn_c2f \in [FPGA -> ConnState]
  /\ pcR \in [FPGA -> {"off", "listen", "accept", "wait_F2C", "header", "query", "done", "failed"}]
  /\ rcv_query_id \in [FPGA -> Query]
  /\ c2f_n \in FPGA /\ c2f_query_id \in Query /\ \A n \in FPGA \cup Query : n \in Nat

LEMMA FrameTypesHold == TypeInv => FrameTypes
  <1> SUFFICES ASSUME TypeInv PROVE FrameTypes
    OBVIOUS
  <1>1. chan_c2f \in [FPGA -> Seq(Message)] /\ conn_c2f \in [FPGA -> ConnState]
    BY DEF TypeInv, ServerTypeInv, NetTypeOK, Message
  <1>2. /\ pcR \in [FPGA -> {"off", "listen", "accept", "wait_F2C", "header",
                             "query", "done", "failed"}]
        /\ rcv_query_id \in [FPGA -> Query]
    BY DEF TypeInv, FPGATypeInv, FPGATypeOK
  <1>3. c2f_n \in FPGA /\ c2f_query_id \in Query
    BY DEF TypeInv, ServerTypeInv, C2FTypeOK
  <1>4. \A n \in FPGA \cup Query : n \in Nat
    BY DEF FPGA, Query
  <1> QED BY <1>1, <1>2, <1>3, <1>4 DEF FrameTypes

\* A step of the C2F thread that sends nothing, and leaves what is due next.
LEMMA FramedWait ==
  ASSUME FramingInv, LoopStarts', \A n \in FPGA : Due(n)' = Due(n),
         UNCHANGED <<chan_c2f, conn_c2f, pcR, rcv_query_id, c2f_n>>
  PROVE  FramingInv'
  BY DEF FramingInv, FramedFor, Awaited, CutOff

\* A step of one FPGA or one of its connections.
LEMMA FramedAtOne ==
  ASSUME FrameTypes, FramingInv, NEW n \in FPGA, FramedFor(n)',
         UNCHANGED <<pcC, c2f_n, c2f_query_id, c2f_batch_id>>,
         \A m \in FPGA : /\ m # n => /\ chan_c2f'[m] = chan_c2f[m] /\ conn_c2f'[m] = conn_c2f[m]
                                     /\ pcR'[m] = pcR[m] /\ rcv_query_id'[m] = rcv_query_id[m]
                         /\ conn_c2f[m] = "dead" => conn_c2f'[m] = "dead"
  PROVE  FramingInv'
  <1>1. LoopStarts'
    BY DEF FramingInv, LoopStarts
  <1>2. ASSUME NEW m \in FPGA, m # n  PROVE FramedFor(m)'
    <2>1. FramedFor(m)
      BY DEF FramingInv
    <2>2. Due(m)' = Due(m) /\ Awaited(m)' = Awaited(m)
      BY <1>2 DEF Due, Awaited, AfterQuery, terminate
    <2>3. CutOff(m) => CutOff(m)'
      BY DEF CutOff
    <2> QED BY <1>2, <2>1, <2>2, <2>3 DEF FramedFor
  <1> QED BY <1>1, <1>2 DEF FramingInv

\* One send of a broadcast, to FPGA k, of the message that is due.
LEMMA FramedSend ==
  ASSUME FrameTypes, FramingInv, NEW msg \in Message, NEW k \in FPGA, k = c2f_n,
         send_C2F(msg), PlaceOf(msg) = Due(k), LoopStarts',
         UNCHANGED <<pcR, rcv_query_id>>,
         c2f_n' = IF send_returns THEN 0 ELSE c2f_n + 1,
         \A n \in FPGA : n < k \/ (n > k /\ ~send_returns) => Due(n)' = Due(n),
         Due(k)' = PlaceAfter(msg)
  PROVE  FramingInv'
  <1> USE DEF FrameTypes
  <1>0. \A n \in FPGA : n <= num_FPGA - 1 /\ FramedFor(n) /\ Awaited(n)' = Awaited(n)
    BY DEF FPGA, FramingInv, Awaited
  <1>1. CASE conn_c2f[k] = "open"
    <2>1. /\ chan_c2f' = [chan_c2f EXCEPT ![k] = Append(chan_c2f[k], msg)]
          /\ UNCHANGED conn_c2f
      BY <1>1 DEF send_C2F
    <2>2. FramedFor(k)'
      <3>1. ~CutOff(k)
        BY DEF CutOff
      <3>2. /\ Framed(chan_c2f'[k], Awaited(k))
            /\ EndOf(chan_c2f'[k], Awaited(k)) = PlaceAfter(msg)
        BY <1>0, <1>1, <2>1, <3>1, FramedAppend DEF FramedFor
      <3>3. pcR[k] # "failed"
        BY <1>0, <1>1 DEF FramedFor
      <3> QED BY <1>0, <1>1, <2>1, <3>2, <3>3 DEF FramedFor
    <2>3. ASSUME NEW n \in FPGA, n # k  PROVE FramedFor(n)'
      <3>1. CutOff(n) => CutOff(n)'
        <4>1. ASSUME NEW m \in FPGA, m < n, conn_c2f[m] = "dead", c2f_n <= m
              PROVE  c2f_n' <= m
          <5>1. m # k
            BY <1>1, <4>1
          <5> QED BY <4>1, <5>1
        <4> QED BY <2>1, <4>1 DEF CutOff
      <3>2. n < k \/ ~send_returns
        BY <1>0, <1>1, <2>3 DEF send_returns
      <3>3. Due(n)' = Due(n)
        BY <2>3, <3>2
      <3> QED BY <1>0, <2>1, <2>3, <3>1, <3>3 DEF FramedFor
    <2> QED BY <2>2, <2>3 DEF FramingInv
  <1>2. CASE conn_c2f[k] # "open"
    <2>1. /\ UNCHANGED chan_c2f /\ send_returns /\ conn_c2f[k] = "reset"
          /\ conn_c2f' = [conn_c2f EXCEPT ![k] = "dead"]
      BY <1>2 DEF send_C2F, send_returns, CanSend
    <2>2. FramedFor(k)'
      BY <1>0, <2>1 DEF FramedFor
    <2>3. ASSUME NEW n \in FPGA, n < k  PROVE FramedFor(n)'
      <3>1. CutOff(n) => CutOff(n)'
        BY <2>1 DEF CutOff
      <3> QED BY <1>0, <2>1, <2>3, <3>1 DEF FramedFor
    <2>4. ASSUME NEW n \in FPGA, n > k  PROVE FramedFor(n)'
      <3>1. CutOff(n)'
        BY <2>1, <2>4 DEF CutOff
      <3> QED BY <1>0, <2>1, <2>4, <3>1 DEF FramedFor
    <2> QED BY <2>2, <2>3, <2>4 DEF FramingInv
  <1> QED BY <1>1, <1>2

\* Every step keeps both ends of every stream at the same place.
LEMMA NextFraming ==
  ASSUME TypeInv, FramingInv, [Next]_vars
  PROVE  FramingInv'
  <1>0. FrameTypes
    BY FrameTypesHold
  <1> USE DEF FrameTypes
  <1>a. /\ LoopStarts /\ \A n \in FPGA : FramedFor(n)
    BY DEF FramingInv
  <1>b. UNCHANGED frameVars => FramingInv'
    <2> SUFFICES ASSUME UNCHANGED frameVars PROVE FramingInv'
      OBVIOUS
    <2>1. /\ UNCHANGED <<chan_c2f, conn_c2f, pcR, rcv_query_id, c2f_n>>
          /\ UNCHANGED <<pcC, c2f_query_id, c2f_batch_id>>
      BY DEF frameVars
    <2>2. LoopStarts' /\ \A n \in FPGA : Due(n)' = Due(n)
      BY <1>a, <2>1 DEF LoopStarts, Due, AfterQuery, terminate
    <2> QED BY <2>1, <2>2, FramedWait
  \* Steps that touch neither end of a stream.
  <1>1. CASE thread_index_scan /\ UNCHANGED fpgaVars
    BY <1>b, <1>1 DEF thread_index_scan, I_init, I_wait_C2F, I_window, I_scan_post, c2fVars, c2fLoop,
                  netVars, fpgaVars, rcvVars, frameVars
  <1>2. CASE thread_F2C /\ UNCHANGED fpgaVars
    BY <1>b, <1>2 DEF thread_F2C, F2C_listen, F2C_accept, F2C_wait_C2F, receive_answer_to_query,
                  F2C_post_query, F2C_post_batch, c2fVars, c2fLoop, netVars, fpgaVars, rcvVars,
                  frameVars
  <1>3. CASE Halted \/ UNCHANGED vars
    BY <1>b, <1>3 DEF Halted, vars, serverVars, c2fVars, c2fLoop, netVars, fpgaVars, rcvVars, frameVars
  \* The C2F thread.
  <1>4. CASE (C2F_wait_F2C \/ C2F_wait_index \/ C2F_available \/ C2F_window)
             /\ UNCHANGED fpgaVars
    <2>1. /\ UNCHANGED <<chan_c2f, conn_c2f, pcR, rcv_query_id, c2f_n>>
          /\ UNCHANGED <<c2f_query_id, c2f_batch_id>>
      BY <1>4 DEF C2F_wait_F2C, C2F_wait_index, C2F_available, C2F_window, c2fLoop,
                  netVars, fpgaVars, rcvVars
    <2>2. <<pcC, pcC'>> \in {<<"wait_F2C", "wait_index">>, <<"wait_index", "connect">>,
                            <<"available", "window">>, <<"window", "send">>}
      BY <1>4 DEF C2F_wait_F2C, C2F_wait_index, C2F_available, C2F_window
    <2>3. LoopStarts'
      BY <1>a, <2>1, <2>2 DEF LoopStarts
    <2>4. ASSUME NEW n \in FPGA  PROVE Due(n)' = Due(n)
      BY <1>0, <1>a, <2>1, <2>2 DEF Due, AfterQuery, LoopStarts, FPGA
    <2> QED BY <2>1, <2>3, <2>4, FramedWait
  <1>5. CASE connect_C2F /\ UNCHANGED fpgaVars
    <2>1. /\ pcC = "connect" /\ pcC' \in {"connect", "header"}
          /\ pcC' = "header" => c2f_n' = 0
          /\ UNCHANGED <<chan_c2f, pcR, rcv_query_id, c2f_query_id>>
          /\ conn_c2f' = [conn_c2f EXCEPT
                            ![c2f_n] = IF conn_c2f[c2f_n] = "listen" THEN "open" ELSE "dead"]
      BY <1>5 DEF connect_C2F, fpgaVars, rcvVars
    <2>2. LoopStarts'
      BY <1>a, <2>1 DEF LoopStarts
    <2>3. \A n \in FPGA : Due(n) = 0 /\ Due(n)' = 0
      BY <1>0, <2>1 DEF Due, FPGA
    <2>4. \A n \in FPGA : Awaited(n)' = Awaited(n)
      BY <2>1 DEF Awaited
    <2>5. ASSUME NEW n \in FPGA, n = c2f_n  PROVE FramedFor(n)'
      <3>1. conn_c2f[n] = "listen" => Awaited(n) = 0 /\ chan_c2f[n] = <<>>
        BY <1>a DEF FramedFor, Awaited
      <3> QED BY <1>0, <1>a, <2>1, <2>3, <2>4, <2>5, <3>1 DEF FramedFor, EndOf
    <2>6. ASSUME NEW n \in FPGA, n # c2f_n  PROVE FramedFor(n)'
      <3>1. ASSUME NEW m \in FPGA, m < n, conn_c2f[m] = "dead", c2f_n <= m
            PROVE  conn_c2f'[m] = "dead" /\ c2f_n' <= m
        <4>1. m = c2f_n => c2f_n' = 0
          BY <1>5, <3>1 DEF connect_C2F
        <4>2. c2f_n' \in {0, c2f_n + 1}
          BY <1>5 DEF connect_C2F
        <4> QED BY <1>0, <2>1, <3>1, <4>1, <4>2
      <3>2. CutOff(n) => CutOff(n)'
        BY <3>1 DEF CutOff
      <3> QED BY <1>0, <1>a, <2>1, <2>3, <2>4, <2>6, <3>2 DEF FramedFor
    <2> QED BY <2>2, <2>5, <2>6 DEF FramingInv
  <1>6. CASE send_header /\ UNCHANGED fpgaVars
    <2> DEFINE msg == [type |-> "header", batch_size |-> batch_size, terminate |-> terminate]
    <2>1. /\ pcC = "header" /\ send_C2F(msg)
          /\ UNCHANGED <<pcR, rcv_query_id, c2f_query_id, c2f_batch_id>>
          /\ c2f_n' = IF send_returns THEN 0 ELSE c2f_n + 1
          /\ pcC' = IF ~send_returns THEN "header" ELSE IF terminate THEN "done" ELSE "available"
      BY <1>6 DEF send_header, fpgaVars, rcvVars
    <2>2. msg \in Message /\ PlaceOf(msg) = 0 /\ terminate' = terminate
          /\ PlaceAfter(msg) = IF terminate THEN batch_size + 1 ELSE 1
      BY <2>1 DEF Message, HeaderType, PlaceOf, PlaceAfter, terminate
    <2>3. LoopStarts'
      BY <1>a, <2>1 DEF LoopStarts
    <2> HIDE DEF msg
    <2>4. ASSUME NEW n \in FPGA, n < c2f_n \/ (n > c2f_n /\ ~send_returns)
          PROVE  Due(n)' = Due(n)
      BY <1>0, <2>1, <2>2, <2>4 DEF Due
    <2>5. ASSUME NEW n \in FPGA, n = c2f_n
          PROVE  Due(n)' = PlaceAfter(msg) /\ Due(n) = PlaceOf(msg)
      BY <1>0, <2>1, <2>2, <2>5 DEF Due
    <2> QED BY <1>0, <2>1, <2>2, <2>3, <2>4, <2>5, FramedSend
  <1>7. CASE send_query /\ UNCHANGED fpgaVars
    <2> DEFINE msg == [type |-> "query", query |-> c2f_query_id]
               last == c2f_query_id = batch_size - 1
    <2>1. /\ pcC = "send" /\ send_C2F(msg)
          /\ UNCHANGED <<pcR, rcv_query_id>>
          /\ c2f_n' = IF send_returns THEN 0 ELSE c2f_n + 1
          /\ ~send_returns => UNCHANGED <<pcC, c2f_query_id>>
          /\ send_returns /\ last => pcC' = "header" /\ c2f_query_id' = 0
          /\ send_returns /\ ~last => pcC' = "window" /\ c2f_query_id' = c2f_query_id + 1
      BY <1>7 DEF send_query, fpgaVars, rcvVars
    <2>2. msg \in Message /\ PlaceOf(msg) = c2f_query_id + 1
          /\ PlaceAfter(msg) = IF last THEN 0 ELSE c2f_query_id + 2
      BY <1>0 DEF Message, QueryType, PlaceOf, PlaceAfter
    <2>3. LoopStarts'
      BY <1>a, <2>1 DEF LoopStarts
    <2> HIDE DEF msg
    <2>4. ASSUME NEW n \in FPGA, n < c2f_n \/ (n > c2f_n /\ ~send_returns)
          PROVE  Due(n)' = Due(n)
      BY <1>0, <2>1, <2>4 DEF Due, AfterQuery
    <2>5. ASSUME NEW n \in FPGA, n = c2f_n
          PROVE  Due(n)' = PlaceAfter(msg) /\ Due(n) = PlaceOf(msg)
      BY <1>0, <2>1, <2>2, <2>5 DEF Due, AfterQuery
    <2> QED BY <1>0, <2>1, <2>2, <2>3, <2>4, <2>5, FramedSend
  <1>8. CASE C2F_sigpipe /\ UNCHANGED fpgaVars
    BY <1>b, <1>8 DEF C2F_sigpipe, c2fVars, c2fLoop, netVars, fpgaVars, rcvVars, frameVars
  \* The simulators.
  <1>9. ASSUME NEW n \in FPGA, FPGANext(n), UNCHANGED serverVars
        PROVE  FramingInv'
    <2>0. UNCHANGED <<pcC, c2f_n, c2f_query_id, c2f_batch_id>>
      BY <1>9 DEF serverVars, c2fVars, c2fLoop
    <2>a. Due(n)' = Due(n)
      BY <2>0 DEF Due, AfterQuery, terminate
    <2>b. FramedFor(n)
      BY <1>a
    <2>1. CASE start_C2F_F2C_threads(n) \/ R_accept(n) \/ R_wait_F2C(n)
      <3>1. /\ UNCHANGED <<chan_c2f, conn_c2f, rcv_query_id>>
            /\ \/ pcR[n] = "off" /\ pcR' = [pcR EXCEPT ![n] = "listen"]
               \/ /\ pcR[n] = "accept" /\ pcR' = [pcR EXCEPT ![n] = "wait_F2C"]
                  /\ conn_c2f[n] \in {"open", "reset"}
               \/ pcR[n] = "wait_F2C" /\ pcR' = [pcR EXCEPT ![n] = "header"]
        BY <2>1 DEF start_C2F_F2C_threads, R_accept, R_wait_F2C, netVars
      <3>2. Awaited(n)' = Awaited(n) /\ (CutOff(n)' <=> CutOff(n))
        BY <1>0, <2>0, <3>1 DEF Awaited, CutOff
      <3>3. FramedFor(n)'
        BY <1>0, <2>a, <2>b, <3>1, <3>2 DEF FramedFor
      <3> QED BY <1>0, <2>0, <3>1, <3>3, FramedAtOne
    <2>2. CASE R_listen(n)
      <3>1. /\ UNCHANGED <<chan_c2f, rcv_query_id>>
            /\ pcR[n] = "listen" /\ pcR' = [pcR EXCEPT ![n] = "accept"]
            /\ conn_c2f' = [conn_c2f EXCEPT ![n] = IF @ = "none" THEN "listen" ELSE @]
        BY <2>2 DEF R_listen
      <3>2. Awaited(n)' = Awaited(n) /\ (CutOff(n) => CutOff(n)')
        BY <1>0, <2>0, <3>1 DEF Awaited, CutOff
      <3>3. FramedFor(n)'
        BY <1>0, <2>a, <2>b, <3>1, <3>2 DEF FramedFor
      <3> QED BY <1>0, <2>0, <3>1, <3>3, FramedAtOne
    <2>3. CASE R_header(n)
      <3> DEFINE msg == Head(chan_c2f[n])
      <3>1. /\ UNCHANGED <<conn_c2f, rcv_query_id>>
            /\ pcR[n] = "header" /\ chan_c2f[n] # <<>> /\ msg.type = "header"
            /\ pcR' = [pcR EXCEPT ![n] = IF msg.terminate THEN "done" ELSE "query"]
            /\ chan_c2f' = [chan_c2f EXCEPT ![n] = Tail(@)]
        BY <2>3 DEF R_header
      <3>2. /\ Framed(Tail(chan_c2f[n]), PlaceAfter(msg))
            /\ EndOf(Tail(chan_c2f[n]), PlaceAfter(msg)) = EndOf(chan_c2f[n], Awaited(n))
        BY <1>0, <2>b, <3>1, FramedTail DEF FramedFor
      <3>3. rcv_query_id[n] = 0 /\ conn_c2f[n] \notin {"none", "listen"}
        BY <2>b, <3>1 DEF FramedFor
      <3>4. Awaited(n)' = PlaceAfter(msg)
        BY <1>0, <3>1, <3>3 DEF Awaited, PlaceAfter
      <3>5. FramedFor(n)'
        <4>1. CutOff(n)' <=> CutOff(n)
          BY <2>0, <3>1 DEF CutOff
        <4>2. chan_c2f'[n] = Tail(chan_c2f[n]) /\ pcR'[n] \in {"query", "done"}
          BY <1>0, <3>1
        <4> HIDE DEF msg
        <4> QED BY <2>a, <2>b, <3>1, <3>2, <3>3, <3>4, <4>1, <4>2 DEF FramedFor
      <3> QED BY <1>0, <2>0, <3>1, <3>5, FramedAtOne
    <2>4. CASE R_query(n)
      <3> DEFINE msg == Head(chan_c2f[n])
                 last == rcv_query_id[n] = batch_size - 1
      <3>0. R_last_query(n) <=> last
        <4>1. buf_header[n] \in Seq(HeaderType) /\ Len(buf_header[n]) > 0
          BY <2>4 DEF R_query, TypeInv, FPGATypeInv, FPGATypeOK, HeaderAccounting, HeadersOf
        <4>2. buf_header[n][Len(buf_header[n])] \in HeaderType
          BY <4>1
        <4> QED BY <4>2, HeaderTypes DEF R_last_query
      <3>1. /\ UNCHANGED conn_c2f
            /\ pcR[n] = "query" /\ chan_c2f[n] # <<>> /\ msg.type = "query"
            /\ pcR' = [pcR EXCEPT ![n] = IF last THEN "header" ELSE "query"]
            /\ rcv_query_id' = [rcv_query_id EXCEPT ![n] = IF last THEN 0 ELSE @ + 1]
            /\ chan_c2f' = [chan_c2f EXCEPT ![n] = Tail(@)]
        BY <2>4, <3>0 DEF R_query
      <3>2. /\ Framed(Tail(chan_c2f[n]), PlaceAfter(msg))
            /\ EndOf(Tail(chan_c2f[n]), PlaceAfter(msg)) = EndOf(chan_c2f[n], Awaited(n))
            /\ PlaceOf(msg) = Awaited(n)
        BY <1>0, <2>b, <3>1, FramedTail DEF FramedFor
      <3>3. conn_c2f[n] \notin {"none", "listen"}
        BY <2>b, <3>1 DEF FramedFor
      <3>4. msg.query = rcv_query_id[n]
        <4>1. msg \in Message
          BY <1>0, <3>1
        <4>2. PlaceOf(msg) = msg.query + 1 /\ msg.query \in Nat
          BY <3>1, <4>1, MessageFacts DEF Query
        <4>3. Awaited(n) = rcv_query_id[n] + 1 /\ rcv_query_id[n] \in Nat
          BY <1>0, <3>1 DEF Awaited
        <4> QED BY <3>2, <4>2, <4>3
      <3>5. /\ Awaited(n)' = PlaceAfter(msg)
            /\ pcR'[n] # "query" => rcv_query_id'[n] = 0
        <4>1. PlaceAfter(msg) = IF last THEN 0 ELSE rcv_query_id[n] + 2
          BY <3>1, <3>4 DEF PlaceAfter
        <4> QED BY <1>0, <3>1, <4>1 DEF Awaited
      <3>6. FramedFor(n)'
        <4>1. CutOff(n)' <=> CutOff(n)
          BY <2>0, <3>1 DEF CutOff
        <4>2. chan_c2f'[n] = Tail(chan_c2f[n]) /\ pcR'[n] \in {"query", "header"}
          BY <1>0, <3>1
        <4> HIDE DEF msg
        <4> QED BY <2>a, <2>b, <3>1, <3>2, <3>3, <3>5, <4>1, <4>2 DEF FramedFor
      <3> QED BY <1>0, <2>0, <3>1, <3>6, FramedAtOne
    <2>5. CASE R_fail(n)
      <3>1. /\ UNCHANGED <<chan_c2f, conn_c2f, rcv_query_id>>
            /\ chan_c2f[n] = <<>> /\ conn_c2f[n] \in {"reset", "dead"}
            /\ pcR' = [pcR EXCEPT ![n] = "failed"]
        BY <2>5 DEF R_fail, netVars
      <3>2. FramedFor(n)'
        BY <1>0, <3>1 DEF FramedFor, Framed
      <3> QED BY <1>0, <2>0, <3>1, <3>2, FramedAtOne
    <2>6. CASE FPGA_thread_F2C(n)
      BY <1>b, <2>0, <2>6 DEF FPGA_thread_F2C, S_connect, S_wait_C2F, S_batch, S_result, S_send,
                    S_fail, netVars, rcvVars, frameVars
    <2> QED BY <1>9, <2>1, <2>2, <2>3, <2>4, <2>5, <2>6 DEF FPGANext, FPGA_thread_C2F
  \* Resets.
  <1>10. CASE Reset /\ UNCHANGED <<serverVars, fpgaVars>>
    <2>0. UNCHANGED <<pcC, c2f_n, c2f_query_id, c2f_batch_id, pcR, rcv_query_id>>
      BY <1>10 DEF serverVars, c2fVars, c2fLoop, fpgaVars, rcvVars
    <2>1. CASE UNCHANGED <<chan_c2f, conn_c2f>>
      BY <1>b, <2>0, <2>1 DEF frameVars
    <2>2. ASSUME NEW n \in FPGA, ResetC2F(n)
          PROVE  FramingInv'
      <3>1. PICK s \in Prefix(chan_c2f[n]) : chan_c2f' = [chan_c2f EXCEPT ![n] = s]
        BY <2>2 DEF ResetC2F
      <3>2. conn_c2f[n] = "open" /\ conn_c2f' = [conn_c2f EXCEPT ![n] = "reset"]
        BY <2>2 DEF ResetC2F
      <3>3. Framed(s, Awaited(n)) /\ Awaited(n)' = Awaited(n)
        BY <1>0, <1>a, <2>0, FramedPrefix DEF FramedFor, Awaited
      <3>4. chan_c2f'[n] = s /\ conn_c2f'[n] = "reset"
        BY <1>0, <3>1, <3>2
      <3>5. pcR[n] # "failed" /\ (pcR[n] # "query" => rcv_query_id[n] = 0)
        BY <1>a, <3>2 DEF FramedFor
      <3>6. FramedFor(n)'
        BY <2>0, <3>3, <3>4, <3>5 DEF FramedFor
      <3> QED BY <1>0, <2>0, <3>1, <3>2, <3>6, FramedAtOne
    <2>3. ~ResetG2C
      BY DEF TypeInv, ServerTypeInv, NetTypeOK, ResetG2C
    <2> QED BY <1>10, <2>1, <2>2, <2>3 DEF Reset, ResetF2C
  <1> QED BY <1>1, <1>2, <1>3, <1>4, <1>5, <1>6, <1>7, <1>8, <1>9, <1>10
         DEF Next, ServerNext, thread_C2F

LEMMA FramingHolds == Spec => []FramingInv
<1>1. Init => FramingInv
  BY DEF Init, NetInit, ServerInit, FPGAInit, FramingInv, LoopStarts, FramedFor, Framed, Awaited, FPGA
<1>2. TypeInv /\ FramingInv /\ [Next]_vars => FramingInv'
  BY NextFraming
<1> QED BY <1>1, <1>2, TypeInductive, PTL DEF Spec

\* For any number of FPGAs, batches and queries, and whatever send(), connect()
\* and read() return: a simulator never takes a query for a header or a header
\* for a query, also when a broadcast was cut short.
THEOREM InSync == Spec => []FramingInSync
<1>1. TypeInv /\ FramingInv => FramingInSync
  <2> SUFFICES ASSUME TypeInv, FramingInv, NEW n \in FPGA, chan_c2f[n] # <<>>
               PROVE  /\ pcR[n] = "header" => Head(chan_c2f[n]).type = "header"
                      /\ pcR[n] = "query" => Head(chan_c2f[n]).type = "query"
    BY DEF FramingInSync
  <2>1. chan_c2f[n] \in Seq(Message) /\ rcv_query_id[n] \in Nat
    BY FrameTypesHold DEF FrameTypes
  <2>2. Head(chan_c2f[n]) \in Message /\ PlaceOf(Head(chan_c2f[n])) = Awaited(n)
    BY <2>1, FramedTail DEF FramingInv, FramedFor
  <2> DEFINE msg == Head(chan_c2f[n])
  <2>3. /\ msg.type \in {"header", "query"}
        /\ msg.type = "header" <=> PlaceOf(msg) = 0
    BY <2>2, MessageFacts
  <2>4. PlaceOf(msg) = Awaited(n)
    BY <2>2
  <2> HIDE DEF msg
  <2>5. /\ pcR[n] = "header" => Awaited(n) = 0
        /\ pcR[n] = "query" => Awaited(n) # 0
    BY <2>1 DEF Awaited
  <2>6. /\ pcR[n] = "header" => msg.type = "header"
        /\ pcR[n] = "query" => msg.type = "query"
    BY <2>3, <2>4, <2>5, Zenon
  <2> QED BY <2>6 DEF msg
<1> QED BY <1>1, FramingHolds, TypeInductive, PTL

-----------------------------------------------------------------------------
(* Answers.                                                                *)

\* The results of FPGA n the F2C thread has read.
Received(n) ==
  finish_F2C_query_id + 1
    + (IF pcF = "post_query" \/ (pcF = "read" /\ n < f2c_n) THEN 1 ELSE 0)

\* What FPGA n has sent is what was read from it and what is on the way, in
\* order.
ResultsOf(n) ==
  /\ conn_f2c[n] \notin {"reset", "dead"}
  /\ fpga_finish_F2C_query_id[n] + 1 = Received(n) + Len(chan_f2c[n])
  /\ \A i \in 1 .. Len(chan_f2c[n]) : chan_f2c[n][i].id = Received(n) + i - 1

BatchStart == f2c_batch_id * batch_size

\* The loops of the F2C thread count the same queries as
\* finish_F2C_query_id, and the rows filled so far hold their own results.
AnswerLoops ==
  /\ pcF \notin {"listen", "accept", "read"} => f2c_n = 0
  /\ pcF \notin {"read", "post_query"} => f2c_query_id = 0
  /\ finish_F2C_query_id + 1 =
       BatchStart + (IF pcF = "post_batch" THEN batch_size ELSE f2c_query_id)
  /\ pcF = "post_query" => buf_F2C.id = finish_F2C_query_id + 1
  /\ \A q \in Query : pcF = "post_batch" \/ q < f2c_query_id =>
       vector_ids_buf[q].id = BatchStart + q

AnswerInv == AnswerLoops /\ \A n \in FPGA : ResultsOf(n)

AnswerTypes ==
  /\ chan_f2c \in [FPGA -> Seq(ResultType)] /\ conn_f2c \in [FPGA -> ConnState]
  /\ fpga_finish_F2C_query_id \in [FPGA -> Int]
  /\ f2c_n \in FPGA /\ f2c_query_id \in Query /\ f2c_batch_id \in Int
  /\ finish_F2C_query_id \in Int /\ BatchStart \in Int
  /\ vector_ids_buf \in [Query -> ResultType] /\ buf_F2C \in ResultType
  /\ \A n \in FPGA \cup Query : n \in Nat

LEMMA AnswerTypesHold == TypeInv => AnswerTypes
  <1> SUFFICES ASSUME TypeInv PROVE AnswerTypes
    OBVIOUS
  <1>1. chan_f2c \in [FPGA -> Seq(ResultType)] /\ conn_f2c \in [FPGA -> ConnState]
    BY DEF TypeInv, ServerTypeInv, NetTypeOK
  <1>2. fpga_finish_F2C_query_id \in [FPGA -> Int]
    BY DEF TypeInv, FPGATypeInv, FPGATypeOK
  <1>3. /\ f2c_n \in FPGA /\ f2c_query_id \in Query /\ f2c_batch_id \in Int
        /\ finish_F2C_query_id \in Int /\ buf_F2C \in ResultType
        /\ vector_ids_buf \in [Query -> ResultType]
    BY DEF TypeInv, ServerTypeInv, F2CTypeOK
  <1>4. BatchStart \in Int
    BY <1>3 DEF BatchStart
  <1>5. \A n \in FPGA \cup Query : n \in Nat
    BY DEF FPGA, Query
  <1> QED BY <1>1, <1>2, <1>3, <1>4, <1>5 DEF AnswerTypes

answerVars == <<chan_f2c, conn_f2c, fpga_finish_F2C_query_id, f2cVars>>

\* As long as no connection fails every step keeps the results in order.
LEMMA NextAnswers ==
  ASSUME resets = 0, resets' = 0, TypeInv, AnswerInv, [Next]_vars
  PROVE  AnswerInv'
  <1>0. AnswerTypes
    BY AnswerTypesHold
  <1> USE DEF AnswerTypes
  <1>a. AnswerLoops /\ \A n \in FPGA : ResultsOf(n)
    BY DEF AnswerInv
  <1>b. UNCHANGED answerVars => AnswerInv'
    BY <1>a DEF answerVars, f2cVars, f2cLoop, f2cBufs, AnswerInv, AnswerLoops, ResultsOf, Received, BatchStart
  <1>1. CASE (thread_index_scan \/ thread_C2F) /\ UNCHANGED fpgaVars
    BY <1>b, <1>1 DEF thread_index_scan, I_init, I_wait_C2F, I_window, I_scan_post, thread_C2F,
         C2F_wait_F2C, C2F_wait_index, connect_C2F, send_header, C2F_available, C2F_window,
         send_query, C2F_sigpipe, netVars, fpgaVars, sndVars, answerVars
  <1>2. CASE Halted \/ UNCHANGED vars
    BY <1>b, <1>2 DEF Halted, vars, serverVars, netVars, fpgaVars, sndVars, answerVars
  <1>3. CASE Reset
    BY <1>3 DEF Reset
  \* The F2C thread.
  <1>4. CASE (F2C_listen \/ F2C_accept \/ F2C_wait_C2F) /\ UNCHANGED fpgaVars
    <2>1. /\ UNCHANGED <<chan_f2c, fpga_finish_F2C_query_id, f2c_batch_id, f2c_query_id,
                         buf_F2C, vector_ids_buf, finish_F2C_query_id>>
          /\ pcF \in {"listen", "accept", "wait_C2F"}
          /\ pcF' \in {"listen", "accept", "wait_C2F", "read"}
          /\ pcF' \in {"wait_C2F", "read"} => f2c_n' = 0
      BY <1>a, <1>4 DEF F2C_listen, F2C_accept, F2C_wait_C2F, netVars, fpgaVars, sndVars, AnswerLoops, f2cLoop, f2cBufs
    <2>2. \A n \in FPGA : conn_f2c'[n] \in {conn_f2c[n], "listen"}
      BY <1>0, <1>4 DEF F2C_listen, F2C_accept, F2C_wait_C2F, netVars, f2cLoop, f2cBufs
    <2>3. AnswerLoops'
      BY <1>a, <2>1 DEF AnswerLoops, BatchStart
    <2>4. \A n \in FPGA : Received(n)' = Received(n)
      BY <1>0, <2>1 DEF Received, FPGA
    <2> QED BY <1>a, <2>1, <2>2, <2>3, <2>4 DEF AnswerInv, ResultsOf
  <1>5. CASE receive_answer_to_query /\ UNCHANGED fpgaVars
    <2>0. ResultsOf(f2c_n) /\ pcF = "read" /\ Received(f2c_n) = finish_F2C_query_id + 1
      BY <1>0, <1>a, <1>5 DEF receive_answer_to_query, Received, f2cLoop, f2cBufs
    <2>1. /\ chan_f2c[f2c_n] # <<>> /\ buf_F2C' = Head(chan_f2c[f2c_n])
          /\ chan_f2c' = [chan_f2c EXCEPT ![f2c_n] = Tail(@)]
          /\ UNCHANGED <<conn_f2c, fpga_finish_F2C_query_id, f2c_batch_id, f2c_query_id,
                         vector_ids_buf, finish_F2C_query_id>>
      BY <1>5, <2>0 DEF receive_answer_to_query, F2C_arrived, ResultsOf, fpgaVars, sndVars, f2cLoop, f2cBufs
    <2>2. /\ f2c_n = num_FPGA - 1 => pcF' = "post_query" /\ f2c_n' = 0
          /\ f2c_n # num_FPGA - 1 => pcF' = "read" /\ f2c_n' = f2c_n + 1
      BY <1>5, <2>1 DEF receive_answer_to_query, F2C_arrived, receive_returns, f2cLoop, f2cBufs
    <2>3. /\ chan_f2c[f2c_n] \in Seq(ResultType) /\ Len(chan_f2c[f2c_n]) >= 1
          /\ Head(chan_f2c[f2c_n]) = chan_f2c[f2c_n][1]
          /\ Len(Tail(chan_f2c[f2c_n])) = Len(chan_f2c[f2c_n]) - 1
          /\ \A i \in 1 .. Len(chan_f2c[f2c_n]) - 1 :
               Tail(chan_f2c[f2c_n])[i] = chan_f2c[f2c_n][i + 1]
      BY <1>0, <2>1
    <2>4. buf_F2C'.id = finish_F2C_query_id + 1
      BY <1>0, <2>0, <2>1, <2>3 DEF ResultsOf
    <2>5. AnswerLoops'
      BY <1>a, <2>0, <2>1, <2>2, <2>4 DEF AnswerLoops, BatchStart
    <2>6. ASSUME NEW n \in FPGA, n # f2c_n  PROVE ResultsOf(n)'
      <3>1. Received(n)' = Received(n)
        BY <1>0, <2>0, <2>1, <2>2, <2>6 DEF Received, FPGA
      <3> QED BY <1>0, <1>a, <2>1, <2>6, <3>1 DEF ResultsOf
    <2>7. ASSUME NEW n \in FPGA, n = f2c_n  PROVE ResultsOf(n)'
      <3>1. Received(n)' = Received(n) + 1 /\ Received(n) \in Int
        BY <1>0, <2>0, <2>1, <2>2, <2>7 DEF Received, FPGA
      <3>2. /\ chan_f2c'[n] = Tail(chan_f2c[n]) /\ conn_f2c'[n] = conn_f2c[n]
            /\ fpga_finish_F2C_query_id'[n] = fpga_finish_F2C_query_id[n]
        BY <1>0, <2>1, <2>7
      <3>3. /\ Len(chan_f2c[n]) \in Nat /\ Len(chan_f2c'[n]) = Len(chan_f2c[n]) - 1
            /\ \A i \in 1 .. Len(chan_f2c'[n]) : chan_f2c'[n][i] = chan_f2c[n][i + 1]
        BY <2>3, <2>7, <3>2
      <3>4. /\ conn_f2c[n] \notin {"reset", "dead"}
            /\ fpga_finish_F2C_query_id[n] + 1 = Received(n) + Len(chan_f2c[n])
            /\ \A i \in 1 .. Len(chan_f2c[n]) : chan_f2c[n][i].id = Received(n) + i - 1
        BY <2>0, <2>7 DEF ResultsOf
      <3>5. fpga_finish_F2C_query_id'[n] + 1 = Received(n)' + Len(chan_f2c'[n])
        BY <3>1, <3>2, <3>3, <3>4
      <3>6. ASSUME NEW i \in 1 .. Len(chan_f2c'[n])
            PROVE  chan_f2c'[n][i].id = Received(n)' + i - 1
        <4>1. i + 1 \in 1 .. Len(chan_f2c[n]) /\ i \in Int
          BY <3>3
        <4>2. chan_f2c'[n][i].id = Received(n) + (i + 1) - 1
          BY <3>3, <3>4, <4>1
        <4> QED BY <3>1, <4>1, <4>2
      <3> QED BY <3>2, <3>4, <3>5, <3>6 DEF ResultsOf
    <2> QED BY <2>5, <2>6, <2>7 DEF AnswerInv
  <1>6. CASE F2C_post_query /\ UNCHANGED fpgaVars
    <2> DEFINE last == f2c_query_id = batch_size - 1
    <2>1. /\ pcF = "post_query"
          /\ vector_ids_buf' = [vector_ids_buf EXCEPT ![f2c_query_id] = buf_F2C]
          /\ finish_F2C_query_id' = finish_F2C_query_id + 1
          /\ f2c_query_id' = IF last THEN 0 ELSE f2c_query_id + 1
          /\ pcF' = IF last THEN "post_batch" ELSE "read"
          /\ UNCHANGED <<chan_f2c, conn_f2c, fpga_finish_F2C_query_id, f2c_n, f2c_batch_id, buf_F2C>>
      BY <1>6 DEF F2C_post_query, answer_row, netVars, fpgaVars, sndVars, f2cLoop, f2cBufs
    <2>2. f2c_n = 0 /\ BatchStart' = BatchStart
      BY <1>a, <2>1 DEF AnswerLoops, BatchStart
    <2>3. buf_F2C.id = BatchStart + f2c_query_id
      BY <1>0, <1>a, <2>1 DEF AnswerLoops
    <2>4. ASSUME NEW q \in Query, pcF' = "post_batch" \/ q < f2c_query_id'
          PROVE  vector_ids_buf'[q].id = BatchStart + q
      <3>1. q <= f2c_query_id
        BY <1>0, <2>1, <2>4 DEF Query
      <3>2. CASE q = f2c_query_id
        BY <1>0, <2>1, <2>3, <3>2
      <3>3. CASE q < f2c_query_id
        BY <1>0, <1>a, <2>1, <3>3 DEF AnswerLoops
      <3> QED BY <1>0, <3>1, <3>2, <3>3
    <2>5. AnswerLoops'
      <3>1. finish_F2C_query_id + 1 = BatchStart + f2c_query_id
        BY <1>a, <2>1 DEF AnswerLoops
      <3>2. finish_F2C_query_id' + 1 = BatchStart' + (IF last THEN batch_size ELSE f2c_query_id')
        BY <1>0, <2>1, <2>2, <3>1, IndexServerAssumption DEF Query
      <3>3. /\ pcF' = "post_batch" <=> last
            /\ pcF' # "read" => f2c_query_id' = 0
            /\ pcF' \notin {"listen", "accept", "post_query"} /\ f2c_n' = 0
        BY <2>1, <2>2
      <3> HIDE DEF last
      <3> QED BY <2>2, <2>4, <3>2, <3>3 DEF AnswerLoops
    <2>6. \A n \in FPGA : Received(n)' = Received(n)
      BY <1>0, <2>1, <2>2 DEF Received, FPGA
    <2> QED BY <1>a, <2>1, <2>5, <2>6 DEF AnswerInv, ResultsOf
  <1>8. CASE F2C_post_batch /\ UNCHANGED fpgaVars
    <2>1. /\ pcF = "post_batch" /\ pcF' \in {"read", "done"}
          /\ f2c_batch_id' = f2c_batch_id + 1
          /\ UNCHANGED <<chan_f2c, conn_f2c, fpga_finish_F2C_query_id, f2c_n, f2c_query_id,
                         buf_F2C, vector_ids_buf, finish_F2C_query_id>>
      BY <1>8 DEF F2C_post_batch, netVars, fpgaVars, sndVars, f2cLoop, f2cBufs
    <2>2. f2c_n = 0 /\ f2c_query_id = 0
      BY <1>a, <2>1 DEF AnswerLoops
    <2>3. BatchStart' = BatchStart + batch_size
      BY <1>0, <2>1 DEF BatchStart
    <2>4. AnswerLoops'
      BY <1>0, <1>a, <2>1, <2>2, <2>3 DEF AnswerLoops
    <2>5. \A n \in FPGA : Received(n)' = Received(n)
      BY <1>0, <2>1, <2>2 DEF Received, FPGA
    <2> QED BY <1>a, <2>1, <2>4, <2>5 DEF AnswerInv, ResultsOf
  \* The simulators.
  <1>9. ASSUME NEW n \in FPGA, FPGANext(n), UNCHANGED serverVars
        PROVE  AnswerInv'
    <2>0. UNCHANGED f2cVars
      BY <1>9 DEF serverVars
    <2>1. AnswerLoops' /\ \A m \in FPGA : Received(m)' = Received(m)
      BY <1>a, <2>0 DEF AnswerLoops, BatchStart, Received, f2cVars, f2cLoop, f2cBufs
    <2>2. CASE S_connect(n)
      <3>1. /\ UNCHANGED <<chan_f2c, fpga_finish_F2C_query_id>>
            /\ \A m \in FPGA : conn_f2c'[m] \in {conn_f2c[m], "open"}
        BY <1>0, <2>2 DEF S_connect
      <3> QED BY <1>a, <2>1, <3>1 DEF AnswerInv, ResultsOf
    <2>3. CASE S_send(n)
      <3> DEFINE msg == [fpga |-> n, id |-> fpga_finish_F2C_query_id[n] + 1]
      <3>1. /\ chan_f2c' = [chan_f2c EXCEPT ![n] = Append(@, msg)] /\ UNCHANGED conn_f2c
            /\ fpga_finish_F2C_query_id' = [fpga_finish_F2C_query_id EXCEPT ![n] = @ + 1]
        BY <2>3 DEF S_send
      <3>2. /\ Len(Append(chan_f2c[n], msg)) = Len(chan_f2c[n]) + 1
            /\ Append(chan_f2c[n], msg)[Len(chan_f2c[n]) + 1] = msg
            /\ \A i \in 1 .. Len(chan_f2c[n]) : Append(chan_f2c[n], msg)[i] = chan_f2c[n][i]
            /\ Len(chan_f2c[n]) \in Nat
        BY <1>0
      <3>3. ResultsOf(n) /\ Received(n) \in Int
        BY <1>0, <1>a DEF Received
      <3>4. msg.id = Received(n) + Len(chan_f2c[n])
        BY <3>3 DEF ResultsOf
      <3> HIDE DEF msg
      <3>5. /\ chan_f2c'[n] = Append(chan_f2c[n], msg)
            /\ fpga_finish_F2C_query_id'[n] = fpga_finish_F2C_query_id[n] + 1
        BY <1>0, <3>1
      <3>6. \A i \in 1 .. Len(chan_f2c'[n]) : chan_f2c'[n][i].id = Received(n) + i - 1
        <4>1. ASSUME NEW i \in 1 .. Len(chan_f2c[n]) + 1
              PROVE  Append(chan_f2c[n], msg)[i].id = Received(n) + i - 1
          <5>1. CASE i = Len(chan_f2c[n]) + 1
            BY <3>2, <3>3, <3>4, <5>1
          <5>2. CASE i \in 1 .. Len(chan_f2c[n])
            BY <3>2, <3>3, <5>2 DEF ResultsOf
          <5> QED BY <3>2, <5>1, <5>2
        <4> QED BY <3>2, <3>5, <4>1
      <3>7. ResultsOf(n)'
        <4>1. Received(n)' = Received(n) /\ conn_f2c'[n] = conn_f2c[n]
          BY <2>1, <3>1
        <4>2. fpga_finish_F2C_query_id'[n] + 1 = Received(n) + Len(chan_f2c'[n])
          BY <3>2, <3>3, <3>5 DEF ResultsOf
        <4> QED BY <3>3, <3>6, <4>1, <4>2 DEF ResultsOf
      <3>8. ASSUME NEW m \in FPGA, m # n  PROVE ResultsOf(m)'
        BY <1>0, <1>a, <2>1, <3>1, <3>8 DEF ResultsOf
      <3> QED BY <2>1, <3>7, <3>8 DEF AnswerInv
    <2>4. CASE ~S_connect(n) /\ ~S_send(n)
      BY <1>9, <1>b, <2>0, <2>4 DEF FPGANext, start_C2F_F2C_threads, FPGA_thread_C2F, R_listen,
           R_accept, R_wait_F2C, R_header, R_query, R_fail, FPGA_thread_F2C, S_wait_C2F,
           S_batch, S_result, S_fail, netVars, sndVars, answerVars
    <2> QED BY <2>2, <2>3, <2>4
  <1> QED BY <1>1, <1>2, <1>3, <1>4, <1>5, <1>6, <1>8, <1>9
         DEF Next, ServerNext, thread_F2C

\* Only a failing connection counts as one.
LEMMA NextResets ==
  ASSUME TypeInv, [Next]_vars
  PROVE  resets' = resets \/ resets' = resets + 1
  <1>1. CASE ServerNext
    BY <1>1 DEF ServerNext, thread_index_scan, I_init, I_wait_C2F, I_window, I_scan_post, thread_C2F,
         C2F_wait_F2C, C2F_wait_index, connect_C2F, send_header, C2F_available, C2F_window, send_query,
         C2F_sigpipe, thread_F2C, F2C_listen, F2C_accept, F2C_wait_C2F, receive_answer_to_query,
         F2C_post_query, F2C_post_batch, netVars, f2cLoop, f2cBufs
  <1>2. ASSUME NEW n \in FPGA, FPGANext(n)  PROVE UNCHANGED resets
    BY <1>2 DEF FPGANext, start_C2F_F2C_threads, FPGA_thread_C2F, R_listen, R_accept, R_wait_F2C,
         R_header, R_query, R_fail, FPGA_thread_F2C, S_connect, S_wait_C2F, S_batch, S_result,
         S_send, S_fail, netVars
  <1>3. CASE Reset
    BY <1>3 DEF Reset
  <1>4. CASE Halted \/ UNCHANGED vars
    BY <1>4 DEF Halted, vars, netVars
  <1> QED BY <1>1, <1>2, <1>3, <1>4 DEF Next

LEMMA AnswersHold == Spec => [](resets = 0 => AnswerInv)
<1>1. Init => AnswerInv
  <2> SUFFICES ASSUME Init PROVE AnswerInv
    OBVIOUS
  <2>1. /\ \A n \in FPGA : conn_f2c[n] = "none" /\ chan_f2c[n] = <<>>
                           /\ fpga_finish_F2C_query_id[n] = -1
        /\ pcF = "listen" /\ f2c_n = 0 /\ f2c_query_id = 0 /\ f2c_batch_id = 0
        /\ finish_F2C_query_id = -1
    BY DEF Init, NetInit, ServerInit, FPGAInit
  <2>2. BatchStart = 0 /\ \A n \in FPGA : Received(n) = 0
    BY <2>1 DEF BatchStart, Received
  <2>3. AnswerLoops
    BY <2>1, <2>2 DEF AnswerLoops, Query
  <2>4. \A n \in FPGA : ResultsOf(n)
    BY <2>1, <2>2 DEF ResultsOf
  <2> QED BY <2>3, <2>4 DEF AnswerInv
<1>2. TypeInv /\ (resets = 0 => AnswerInv) /\ [Next]_vars => (resets = 0 => AnswerInv)'
  <2> SUFFICES ASSUME TypeInv, resets = 0 => AnswerInv, [Next]_vars, resets' = 0
               PROVE  AnswerInv'
    OBVIOUS
  <2>1. resets \in Nat
    BY DEF TypeInv, ServerTypeInv, NetTypeOK
  <2>2. resets = 0
    BY <2>1, NextResets
  <2> QED BY <2>2, NextAnswers
<1> QED BY <1>1, <1>2, TypeInductive, PTL DEF Spec

\* For any number of FPGAs, batches and queries and any windows: as long as no
\* connection has failed, every row of a complete batch's answers holds the
\* result of its own query, although results carry no query number.
THEOREM AnswersMatch == Spec => []AnswersMatchQueries
<1>1. TypeInv /\ (resets = 0 => AnswerInv) => AnswersMatchQueries
  BY DEF AnswerInv, AnswerLoops, AnswersMatchQueries, BatchStart
<1> QED BY <1>1, AnswersHold, TypeInductive, PTL

-----------------------------------------------------------------------------
(* Answers lost when connections fail.                                     *)

Dead == {m \in FPGA : conn_f2c[m] = "dead"}

LEMMA DeadFinite == IsFiniteSet(Dead) /\ Cardinality(Dead) \in Nat
  <1>1. IsFiniteSet(FPGA)
    BY FS_Interval DEF FPGA
  <1> QED BY <1>1, FS_Subset, FS_CardinalityType DEF Dead

\* The results read from FPGA n: those it sent and that are not on the way.
ReadFrom(n) == fpga_finish_F2C_query_id[n] + 1 - Len(chan_f2c[n])

\* As long as the connection of FPGA n is up, the F2C thread has passed
\* over its result once for every connection that died.
LostFrom(n) ==
  conn_f2c[n] \notin {"reset", "dead"} => Received(n) <= ReadFrom(n) + Cardinality(Dead)

\* While the F2C thread sets up its ports, those it has not come to are
\* untouched.
NotYetListening ==
  pcF \in {"listen", "accept"} =>
    \A n \in FPGA : n > f2c_n \/ (n = f2c_n /\ pcF = "listen") => conn_f2c[n] = "none"

LostInv ==
  /\ pcF \notin {"listen", "accept", "read"} => f2c_n = 0
  /\ NotYetListening
  /\ \A n \in FPGA : LostFrom(n)

\* Every step keeps the bound on lost answers, whatever it returns.
LEMMA NextLost ==
  ASSUME TypeInv, LostInv, [Next]_vars
  PROVE  LostInv'
  <1>0. AnswerTypes
    BY AnswerTypesHold
  <1> USE DEF AnswerTypes
  <1>a. \A n \in FPGA : /\ LostFrom(n) /\ Received(n) \in Int /\ ReadFrom(n) \in Int
    BY <1>0 DEF LostInv, Received, ReadFrom
  <1>b. UNCHANGED answerVars => LostInv'
    BY <1>a DEF answerVars, f2cVars, f2cLoop, f2cBufs, LostInv, NotYetListening, LostFrom, Received, ReadFrom, Dead
  <1>1. CASE (thread_index_scan \/ thread_C2F) /\ UNCHANGED fpgaVars
    BY <1>b, <1>1 DEF thread_index_scan, I_init, I_wait_C2F, I_window, I_scan_post, thread_C2F,
         C2F_wait_F2C, C2F_wait_index, connect_C2F, send_header, C2F_available, C2F_window,
         send_query, C2F_sigpipe, netVars, fpgaVars, sndVars, answerVars
  <1>2. CASE Halted \/ UNCHANGED vars
    BY <1>b, <1>2 DEF Halted, vars, serverVars, netVars, fpgaVars, sndVars, answerVars
  \* The F2C thread.
  <1>3. CASE (F2C_listen \/ F2C_accept \/ F2C_wait_C2F) /\ UNCHANGED fpgaVars
    <2>1. /\ UNCHANGED <<chan_f2c, fpga_finish_F2C_query_id, finish_F2C_query_id>>
          /\ pcF \in {"listen", "accept", "wait_C2F"}
          /\ pcF' \in {"listen", "accept", "wait_C2F", "read"}
          /\ pcF' \in {"wait_C2F", "read"} => f2c_n' = 0
      BY <1>3 DEF F2C_listen, F2C_accept, F2C_wait_C2F, netVars, fpgaVars, sndVars, LostInv, f2cLoop, f2cBufs
    <2>2. \A n \in FPGA : \/ conn_f2c'[n] = conn_f2c[n]
                          \/ conn_f2c[n] = "none" /\ conn_f2c'[n] = "listen"
      <3>1. CASE F2C_listen
        <4>1. /\ pcF = "listen" /\ conn_f2c[f2c_n] = "none"
              /\ conn_f2c' = [conn_f2c EXCEPT ![f2c_n] = "listen"]
          BY <1>0, <3>1 DEF F2C_listen, LostInv, NotYetListening, f2cLoop, f2cBufs
        <4>2. conn_f2c \in [FPGA -> ConnState] /\ f2c_n \in FPGA
          BY <1>0
        <4> QED BY ONLY <4>1, <4>2
      <3>2. CASE F2C_accept \/ F2C_wait_C2F
        <4>1. UNCHANGED conn_f2c
          BY <3>2 DEF F2C_accept, F2C_wait_C2F, netVars, f2cLoop, f2cBufs
        <4> QED BY ONLY <4>1
      <3> QED BY <1>3, <3>1, <3>2
    <2>3. \A n \in FPGA : Received(n)' = Received(n)
      <3> SUFFICES ASSUME NEW n \in FPGA PROVE Received(n)' = Received(n)
        OBVIOUS
      <3>1. pcF' # "post_query" /\ ~(pcF' = "read" /\ n < f2c_n') /\ pcF \notin {"post_query", "read"}
        BY <1>0, <2>1
      <3> QED BY <2>1, <3>1 DEF Received
    <2>4. \A n \in FPGA : ReadFrom(n)' = ReadFrom(n)
      BY <2>1 DEF ReadFrom
    <2>5. UNCHANGED Dead
      BY <2>2 DEF Dead
    <2>6. NotYetListening'
      BY <1>0, <1>3 DEF F2C_listen, F2C_accept, F2C_wait_C2F, netVars, LostInv, NotYetListening, f2cLoop, f2cBufs
    <2>7. \A n \in FPGA : LostFrom(n)'
      BY <1>a, <2>2, <2>3, <2>4, <2>5 DEF LostFrom
    <2> QED BY <2>1, <2>6, <2>7 DEF LostInv
  <1>4. CASE receive_answer_to_query /\ F2C_arrived /\ UNCHANGED fpgaVars
    <2>1. /\ chan_f2c[f2c_n] # <<>> /\ pcF = "read"
          /\ chan_f2c' = [chan_f2c EXCEPT ![f2c_n] = Tail(@)]
          /\ UNCHANGED <<conn_f2c, fpga_finish_F2C_query_id, finish_F2C_query_id>>
          /\ f2c_n = num_FPGA - 1 => pcF' = "post_query" /\ f2c_n' = 0
          /\ f2c_n # num_FPGA - 1 => pcF' = "read" /\ f2c_n' = f2c_n + 1
      BY <1>4 DEF receive_answer_to_query, F2C_arrived, receive_returns, fpgaVars, sndVars, f2cLoop, f2cBufs
    <2>2. UNCHANGED Dead
      BY <2>1 DEF Dead
    <2>3. ASSUME NEW n \in FPGA, n # f2c_n  PROVE LostFrom(n)'
      <3>1. Received(n)' = Received(n)
        BY <1>0, <2>1, <2>3 DEF Received, FPGA
      <3> QED BY <1>0, <1>a, <2>1, <2>2, <2>3, <3>1 DEF LostFrom, ReadFrom
    <2>4. ASSUME NEW n \in FPGA, n = f2c_n  PROVE LostFrom(n)'
      <3>1. Received(n)' = Received(n) + 1
        BY <1>0, <2>1, <2>4 DEF Received, FPGA
      <3>2. chan_f2c'[n] = Tail(chan_f2c[n]) /\ Len(Tail(chan_f2c[n])) = Len(chan_f2c[n]) - 1
        BY <1>0, <2>1, <2>4
      <3>3. Len(chan_f2c[n]) \in Nat /\ fpga_finish_F2C_query_id[n] \in Int
        BY <1>0
      <3>4. ReadFrom(n)' = ReadFrom(n) + 1
        <4> DEFINE rest == Tail(chan_f2c[n])
        <4>1. chan_f2c'[n] = rest /\ Len(rest) = Len(chan_f2c[n]) - 1
          BY <3>2
        <4>2. fpga_finish_F2C_query_id'[n] = fpga_finish_F2C_query_id[n]
          BY <2>1
        <4>3. Len(chan_f2c'[n]) = Len(chan_f2c[n]) - 1
          BY <4>1
        <4> QED BY <3>3, <4>2, <4>3 DEF ReadFrom
      <3> QED BY <1>a, <2>1, <2>2, <3>1, <3>4, DeadFinite DEF LostFrom
    <2> QED BY <2>1, <2>3, <2>4 DEF LostInv, NotYetListening
  <1>5. CASE receive_answer_to_query /\ ~F2C_arrived /\ UNCHANGED fpgaVars
    <2>1. /\ pcF = "read" /\ conn_f2c[f2c_n] = "reset"
          /\ conn_f2c' = [conn_f2c EXCEPT ![f2c_n] = "dead"]
          /\ UNCHANGED <<chan_f2c, fpga_finish_F2C_query_id, finish_F2C_query_id>>
          /\ pcF' = "post_query" /\ f2c_n' = 0
      BY <1>5 DEF receive_answer_to_query, F2C_arrived, receive_returns, fpgaVars, sndVars, f2cLoop, f2cBufs
    <2>2. Dead' = Dead \cup {f2c_n} /\ f2c_n \notin Dead
      BY <1>0, <2>1 DEF Dead
    <2>3. Cardinality(Dead)' = Cardinality(Dead) + 1
      BY <2>2, DeadFinite, FS_AddElement
    <2>4. ASSUME NEW n \in FPGA  PROVE LostFrom(n)'
      <3>1. Received(n)' <= Received(n) + 1 /\ Received(n)' \in Int
        BY <1>0, <2>1 DEF Received
      <3>2. conn_f2c'[n] \notin {"reset", "dead"} => conn_f2c[n] \notin {"reset", "dead"}
        BY <1>0, <2>1
      <3>3. ReadFrom(n)' = ReadFrom(n)
        BY <2>1 DEF ReadFrom
      <3> QED BY <1>a, <2>3, <3>1, <3>2, <3>3, DeadFinite DEF LostFrom
    <2> QED BY <2>1, <2>4 DEF LostInv, NotYetListening
  <1>6. CASE (F2C_post_query \/ F2C_post_batch) /\ UNCHANGED fpgaVars
    <2>1. UNCHANGED <<chan_f2c, conn_f2c, fpga_finish_F2C_query_id, f2c_n>>
      BY <1>6 DEF F2C_post_query, F2C_post_batch, f2cVars, f2cLoop, f2cBufs,
           netVars, fpgaVars, sndVars
    <2>2. f2c_n = 0 /\ pcF \notin {"listen", "accept", "read"}
      BY <1>6 DEF LostInv, F2C_post_query, F2C_post_batch, f2cLoop, f2cBufs
    <2>3. /\ pcF = "post_query" => pcF' # "post_query" /\ finish_F2C_query_id' = finish_F2C_query_id + 1
          /\ pcF # "post_query" => pcF' # "post_query" /\ UNCHANGED finish_F2C_query_id
      BY <1>6 DEF F2C_post_query, F2C_post_batch, f2cVars, f2cLoop, f2cBufs
    <2>4. \A n \in FPGA : Received(n)' = Received(n)
      BY <1>0, <2>1, <2>2, <2>3 DEF Received, FPGA
    <2>5. pcF' \notin {"listen", "accept", "read"} \/ (pcF' = "read" /\ f2c_n' = 0)
      BY <1>6, <2>1, <2>2 DEF F2C_post_query, F2C_post_batch, f2cVars, f2cLoop, f2cBufs
    <2> QED BY <1>a, <2>1, <2>2, <2>4, <2>5 DEF LostInv, NotYetListening, LostFrom, ReadFrom, Dead
  \* The simulators.
  <1>7. ASSUME NEW n \in FPGA, FPGANext(n), UNCHANGED serverVars
        PROVE  LostInv'
    <2>0. UNCHANGED f2cVars
      BY <1>7 DEF serverVars
    <2>1. /\ pcF' \notin {"listen", "accept", "read"} => f2c_n' = 0
          /\ \A m \in FPGA : Received(m)' = Received(m)
      BY <2>0 DEF LostInv, Received, f2cVars, f2cLoop, f2cBufs
    <2>2. CASE S_connect(n)
      <3>1. /\ UNCHANGED <<chan_f2c, fpga_finish_F2C_query_id>>
            /\ \A m \in FPGA : \/ conn_f2c'[m] = conn_f2c[m]
                               \/ conn_f2c[m] = "listen" /\ conn_f2c'[m] = "open"
        BY <1>0, <2>2 DEF S_connect
      <3>2. UNCHANGED Dead
        BY <3>1 DEF Dead
      <3>3. NotYetListening'
        BY <2>0, <3>1 DEF LostInv, NotYetListening, f2cVars, f2cLoop, f2cBufs
      <3> QED BY <1>a, <2>1, <3>1, <3>2, <3>3 DEF LostInv, LostFrom, ReadFrom
    <2>3. CASE S_send(n)
      <3> DEFINE msg == [fpga |-> n, id |-> fpga_finish_F2C_query_id[n] + 1]
      <3>1. /\ chan_f2c' = [chan_f2c EXCEPT ![n] = Append(@, msg)] /\ UNCHANGED conn_f2c
            /\ fpga_finish_F2C_query_id' = [fpga_finish_F2C_query_id EXCEPT ![n] = @ + 1]
        BY <2>3 DEF S_send
      <3> HIDE DEF msg
      <3>2. Len(Append(chan_f2c[n], msg)) = Len(chan_f2c[n]) + 1 /\ Len(chan_f2c[n]) \in Nat
        BY <1>0
      <3>3. \A m \in FPGA : ReadFrom(m)' = ReadFrom(m)
        <4>1. ReadFrom(n)' = ReadFrom(n)
          BY <1>0, <3>1, <3>2 DEF ReadFrom
        <4>2. \A m \in FPGA : m # n => ReadFrom(m)' = ReadFrom(m)
          BY <1>0, <3>1 DEF ReadFrom
        <4> QED BY <4>1, <4>2
      <3>4. NotYetListening'
        BY <2>0, <3>1 DEF LostInv, NotYetListening, f2cVars, f2cLoop, f2cBufs
      <3> QED BY <1>a, <2>1, <3>1, <3>3, <3>4 DEF LostInv, LostFrom, Dead
    <2>4. CASE ~S_connect(n) /\ ~S_send(n)
      BY <1>7, <1>b, <2>0, <2>4 DEF FPGANext, start_C2F_F2C_threads, FPGA_thread_C2F, R_listen,
           R_accept, R_wait_F2C, R_header, R_query, R_fail, FPGA_thread_F2C, S_wait_C2F,
           S_batch, S_result, S_fail, netVars, sndVars, answerVars
    <2> QED BY <2>2, <2>3, <2>4
  \* Resets.
  <1>8. CASE Reset /\ UNCHANGED <<serverVars, fpgaVars>>
    <2>0. UNCHANGED <<f2cVars, fpga_finish_F2C_query_id>>
      BY <1>8 DEF serverVars, fpgaVars, sndVars
    <2>1. CASE UNCHANGED <<chan_f2c, conn_f2c>>
      BY <1>b, <2>0, <2>1 DEF answerVars
    <2>2. ASSUME NEW n \in FPGA, ResetF2C(n)  PROVE LostInv'
      <3>1. PICK s \in Prefix(chan_f2c[n]) : chan_f2c' = [chan_f2c EXCEPT ![n] = s]
        BY <2>2 DEF ResetF2C
      <3>2. conn_f2c[n] = "open" /\ conn_f2c' = [conn_f2c EXCEPT ![n] = "reset"]
        BY <2>2 DEF ResetF2C
      <3>3. UNCHANGED Dead /\ \A m \in FPGA : Received(m)' = Received(m)
        BY <1>0, <2>0, <3>2 DEF Dead, Received, f2cVars, f2cLoop, f2cBufs
      <3>4. \A m \in FPGA : m # n => ReadFrom(m)' = ReadFrom(m)
        BY <1>0, <2>0, <3>1 DEF ReadFrom
      <3>5. NotYetListening'
        BY <1>0, <2>0, <3>2 DEF LostInv, NotYetListening, f2cVars, f2cLoop, f2cBufs
      <3> QED BY <1>0, <1>a, <2>0, <3>2, <3>3, <3>4, <3>5 DEF LostInv, LostFrom, f2cVars, f2cLoop, f2cBufs
    <2>3. ~ResetG2C
      BY DEF TypeInv, ServerTypeInv, NetTypeOK, ResetG2C
    <2> QED BY <1>8, <2>1, <2>2, <2>3 DEF Reset, ResetC2F
  <1> QED BY <1>1, <1>2, <1>3, <1>4, <1>5, <1>6, <1>7, <1>8
         DEF Next, ServerNext, thread_F2C

\* For any number of FPGAs, batches and queries, and whatever send(), connect()
\* and read() return: the queries counted as finished exceed the results read
\* from an FPGA whose connection is up by at most the connections that died.
THEOREM LostBounded == Spec => []LostAnswersBounded
<1>1. Init => LostInv
  <2> SUFFICES ASSUME Init PROVE LostInv
    OBVIOUS
  <2>1. \A n \in FPGA : Received(n) = 0 /\ ReadFrom(n) = 0
    BY DEF Init, NetInit, ServerInit, FPGAInit, Received, ReadFrom
  <2>2. NotYetListening
    BY DEF Init, NetInit, NotYetListening
  <2> QED BY <2>1, <2>2, DeadFinite DEF Init, ServerInit, LostInv, LostFrom
<1>2. TypeInv /\ LostInv /\ [Next]_vars => LostInv'
  BY NextLost
<1>3. TypeInv /\ LostInv => LostAnswersBounded
  <2> SUFFICES ASSUME TypeInv, LostInv, NEW n \in FPGA, conn_f2c[n] = "open"
               PROVE  finish_F2C_query_id - (fpga_finish_F2C_query_id[n] - Len(chan_f2c[n]))
                        <= Cardinality(Dead)
    BY DEF LostAnswersBounded, Dead
  <2>1. /\ finish_F2C_query_id \in Int /\ fpga_finish_F2C_query_id[n] \in Int
        /\ Len(chan_f2c[n]) \in Int
    BY AnswerTypesHold DEF AnswerTypes
  <2>2. Received(n) >= finish_F2C_query_id + 1 /\ Received(n) \in Int
    BY <2>1 DEF Received
  <2>3. Received(n) <= ReadFrom(n) + Cardinality(Dead)
    BY DEF LostInv, LostFrom
  <2> DEFINE sent == fpga_finish_F2C_query_id[n]
             back == Len(chan_f2c[n])
             lost == Cardinality(Dead)
  <2>4. ReadFrom(n) = sent + 1 - back /\ sent \in Int /\ back \in Int /\ lost \in Int
    BY <2>1, DeadFinite DEF ReadFrom
  <2>5. Received(n) <= sent + 1 - back + lost
    BY <2>3, <2>4
  <2> HIDE DEF sent, back, lost
  <2>6. finish_F2C_query_id - (sent - back) <= lost
    BY <2>1, <2>2, <2>4, <2>5
  <2> QED BY <2>6 DEF sent, back, lost
<1> QED BY <1>1, <1>2, <1>3, TypeInductive, PTL DEF Spec
=============================================================================
