---------------------- MODULE DisaggregatedSearch_proofs ----------------------
(***************************************************************************)
(* The running system, for any number of FPGAs, batches and queries, any   *)
(* window sizes and whatever connections fail: types, semaphore accounting,*)
(* set-up and framing, and that the answers lost are bounded by the        *)
(* connections that died.  As long as no connection fails (MaxResets = 0): *)
(* answers belong to their queries, the query window bounds the work at    *)
(* each FPGA, and when the batch window does not exceed the slots of the   *)
(* ring buffer every query reaches every FPGA once and in order and nothing*)
(* is left over at the end; and the system implements the index server's.  *)
(***************************************************************************)
EXTENDS DisaggregatedSearch, CoordinatorRefinement, FunctionTheorems,
        FiniteSetTheorems, SequenceTheorems, TLAPS

-----------------------------------------------------------------------------
(* The invariant behind the types.                                         *)

\* A loop variable is below its bound inside the loop's body, so that the
\* increment at its end stays in range.
LoopBounds ==
  /\ pcG # "done" => g2c_batch_id < total_batch_num
  /\ pcC \in {"wait_F2C", "wait_G2C", "connect", "available", "read_slot",
              "window", "send"} => c2f_batch_id < total_batch_num
  /\ pcF # "done" => f2c_batch_id < total_batch_num

\* The headers the simulator's F2C thread has used and those its semaphore
\* counts are the ones stored in buf_header: it never reads past the last.
\* Both threads of a program start together.
HeadersOf(n) ==
  /\ pcR[n] = "off" => pcS[n] = "off"
  /\ pcR[n] = "query" => Len(buf_header[n]) > 0
  /\ pcS[n] \in {"off", "connect", "wait_C2F"} =>
       F2C_batch_id[n] = -1 /\ Len(buf_header[n]) = sem_available_batches[n]
  /\ pcS[n] = "batch" =>
       /\ F2C_batch_id[n] >= 0
       /\ Len(buf_header[n]) = sem_available_batches[n] + F2C_batch_id[n]
  /\ pcS[n] \in {"result", "send"} =>
       /\ F2C_batch_id[n] >= 0
       /\ Len(buf_header[n]) = sem_available_batches[n] + F2C_batch_id[n] + 1

HeaderAccounting == \A n \in FPGA : HeadersOf(n)

TypeInv == TypeOK /\ LoopBounds /\ HeaderAccounting

USE NetworkAssumption, CoordinatorAssumption, RetrieverAssumption

\* The ring buffer's methods keep the types of its fields.
LEMMA RingTypes ==
  ASSUME NEW rb \in RB!RingType(Batch)
  PROVE  /\ \A b \in Batch : RB!write_slot(rb, b) \in RB!RingType(Batch)
         /\ RB!read_slot(rb) \in RB!RingType(Batch)
         /\ \A b \in Batch \cup {NoBatch} :
              RB!read_value(rb, b) \in Batch \cup {NoBatch}
  <1>1. ASSUME NEW i \in RB!Slots  PROVE RB!next_slot(i) \in RB!Slots
    <2>1. (i + 1) % G2C_C2F_QUEUE_SIZE \in 0 .. G2C_C2F_QUEUE_SIZE - 1
      BY SMT DEF RB!Slots
    <2> QED BY <2>1 DEF RB!Slots, RB!next_slot
  <1>2. /\ rb.head_ \in RB!Slots /\ rb.tail_ \in RB!Slots /\ rb.full_ \in BOOLEAN
        /\ rb.buf_ \in [RB!Slots -> Batch \cup {NoBatch}]
    BY DEF RB!RingType
  <1>3. ASSUME NEW b \in Batch  PROVE RB!write_slot(rb, b) \in RB!RingType(Batch)
    BY <1>1, <1>2 DEF RB!write_slot, RB!RingType
  <1>4. RB!read_slot(rb) \in RB!RingType(Batch)
    BY <1>1, <1>2 DEF RB!read_slot, RB!RingType
  <1>5. ASSUME NEW b \in Batch \cup {NoBatch}
        PROVE  RB!read_value(rb, b) \in Batch \cup {NoBatch}
    BY <1>2 DEF RB!read_value
  <1> QED BY <1>3, <1>4, <1>5

\* What the network does to a sequence keeps its type.
LEMMA SeqTypes ==
  ASSUME NEW S, NEW s \in Seq(S)
  PROVE  /\ \A e \in S : Append(s, e) \in Seq(S)
         /\ s # <<>> => Head(s) \in S /\ Tail(s) \in Seq(S)
         /\ \A p \in Prefix(s) : p \in Seq(S)
         /\ \A e \in S : Len(Append(s, e)) = Len(s) + 1 /\ Append(s, e) # <<>>
  <1>1. \A p \in Prefix(s) : p \in Seq(S)
    BY DEF Prefix
  <1>2. s # <<>> => Head(s) \in S /\ Tail(s) \in Seq(S)
    OBVIOUS
  <1> QED BY <1>1, <1>2

-----------------------------------------------------------------------------
(* The coordinator's threads.                                              *)

\* What the coordinator's threads can change.
CoordTypeInv == /\ NetTypeOK /\ SharedTypeOK /\ G2CTypeOK /\ C2FTypeOK
                /\ F2CTypeOK /\ LoopBounds

\* Every step of the thread that receives the GPU's batches keeps the types.
LEMMA G2CTypes ==
  ASSUME CoordTypeInv, thread_G2C
  PROVE  CoordTypeInv'
  <1> USE DEF CoordTypeInv
  <1>1. CASE connect_G2C
    BY <1>1 DEF connect_G2C, NetTypeOK, SharedTypeOK, G2CTypeOK, C2FTypeOK, F2CTypeOK,
                LoopBounds, ConnState, semVars, c2fVars, f2cVars
  <1>2. CASE G2C_wait_C2F
    BY <1>2 DEF G2C_wait_C2F, NetTypeOK, SharedTypeOK, G2CTypeOK, C2FTypeOK, F2CTypeOK,
                LoopBounds, startVars, semVars, c2fVars, f2cVars, netVars
  <1>3. CASE G2C_window
    BY <1>3 DEF G2C_window, NetTypeOK, SharedTypeOK, G2CTypeOK, C2FTypeOK, F2CTypeOK,
                LoopBounds, startVars, c2fVars, f2cVars, netVars
  <1>4. CASE receive_G2C_batch_query
    <2>1. ring_buffer_G2C' \in RB!RingType(Batch) /\ chan_g2c' \in Seq(Batch)
      <3>1. ring_buffer_G2C \in RB!RingType(Batch) /\ chan_g2c \in Seq(Batch)
        BY DEF SharedTypeOK, NetTypeOK
      <3>2. chan_g2c # <<>> => Head(chan_g2c) \in Batch /\ Tail(chan_g2c) \in Seq(Batch)
        BY <3>1, SeqTypes
      <3>3. \A b \in Batch : RB!write_slot(ring_buffer_G2C, b) \in RB!RingType(Batch)
        BY <3>1, RingTypes
      <3> QED BY <3>1, <3>2, <3>3, <1>4 DEF receive_G2C_batch_query
    <2> QED
      BY <1>4, <2>1
      DEF receive_G2C_batch_query, NetTypeOK, SharedTypeOK, G2CTypeOK, C2FTypeOK,
          F2CTypeOK, LoopBounds, ConnState, startVars, semVars, c2fVars, f2cVars
  <1>5. CASE G2C_post
    BY <1>5 DEF G2C_post, NetTypeOK, SharedTypeOK, G2CTypeOK, C2FTypeOK, F2CTypeOK,
                LoopBounds, startVars, c2fVars, f2cVars, netVars
  <1> QED BY <1>1, <1>2, <1>3, <1>4, <1>5 DEF thread_G2C

\* Every step of the broadcasting thread keeps the types; in particular the
\* loop over the FPGAs never runs past the last one.
LEMMA C2FTypes ==
  ASSUME CoordTypeInv, thread_C2F
  PROVE  CoordTypeInv'
  <1> USE DEF CoordTypeInv
  <1>1. CASE C2F_wait_F2C \/ C2F_wait_G2C
    <2>1. NetTypeOK' /\ SharedTypeOK' /\ G2CTypeOK' /\ F2CTypeOK'
      <3> USE DEF NetTypeOK, SharedTypeOK, G2CTypeOK, F2CTypeOK, startVars, semVars, g2cVars,
                  f2cVars, netVars
      <3>1. CASE C2F_wait_F2C
        BY <3>1 DEF C2F_wait_F2C
      <3>2. CASE C2F_wait_G2C
        BY <3>2 DEF C2F_wait_G2C
      <3> QED BY <1>1, <3>1, <3>2, Zenon
    <2>2. C2FTypeOK' /\ LoopBounds'
      BY <1>1 DEF C2F_wait_F2C, C2F_wait_G2C, C2FTypeOK, LoopBounds, g2cVars, f2cVars
    <2> QED BY <2>1, <2>2
  <1>2. CASE connect_C2F
    <2>1. c2f_n' \in FPGA /\ start_C2F' \in BOOLEAN /\ conn_c2f' \in [FPGA -> ConnState]
      BY <1>2 DEF connect_C2F, C2FTypeOK, NetTypeOK, ConnState, FPGA
    <2> QED
      BY <1>2, <2>1
      DEF connect_C2F, NetTypeOK, SharedTypeOK, G2CTypeOK, C2FTypeOK, F2CTypeOK,
          LoopBounds, semVars, g2cVars, f2cVars
  <1>3. ASSUME NEW msg \in HeaderType \cup QueryType, send_C2F(msg)
        PROVE  /\ chan_c2f' \in [FPGA -> Seq(HeaderType \cup QueryType)]
               /\ conn_c2f' \in [FPGA -> ConnState]
               /\ ~send_C2F_returns => c2f_n + 1 \in FPGA
    <2>1. /\ chan_c2f \in [FPGA -> Seq(HeaderType \cup QueryType)]
          /\ conn_c2f \in [FPGA -> ConnState] /\ c2f_n \in FPGA
      BY DEF NetTypeOK, C2FTypeOK
    <2>2. Append(chan_c2f[c2f_n], msg) \in Seq(HeaderType \cup QueryType)
      BY <2>1, SeqTypes
    <2>3. conn_c2f' \in [FPGA -> ConnState]
      BY <1>3, <2>1 DEF send_C2F, ConnState
    <2>4. chan_c2f' \in [FPGA -> Seq(HeaderType \cup QueryType)]
      BY <1>3, <2>1, <2>2 DEF send_C2F
    <2>5. ~send_C2F_returns => c2f_n + 1 \in FPGA
      BY <2>1 DEF send_C2F_returns, FPGA
    <2> QED BY <2>3, <2>4, <2>5
  <1>4. CASE send_C2F_header
    <2>1. [type |-> "header", batch_size |-> batch_size, terminate |-> terminate]
            \in HeaderType
      BY DEF HeaderType, terminate
    <2>2. /\ chan_c2f' \in [FPGA -> Seq(HeaderType \cup QueryType)]
          /\ conn_c2f' \in [FPGA -> ConnState]
          /\ c2f_n' \in FPGA
      <3>1. 0 \in FPGA
        BY DEF FPGA
      <3> QED BY <1>3, <1>4, <2>1, <3>1 DEF send_C2F_header
    <2>3. pcC' \in {"header", "done", "available"}
          /\ (pcC' = "available" => c2f_batch_id < total_batch_num)
      BY <1>4 DEF send_C2F_header, terminate, C2FTypeOK
    <2>4. NetTypeOK'
      BY <1>4, <2>2 DEF send_C2F_header, NetTypeOK
    <2>5. SharedTypeOK' /\ G2CTypeOK' /\ F2CTypeOK'
      BY <1>4 DEF send_C2F_header, SharedTypeOK, G2CTypeOK, F2CTypeOK, startVars, semVars,
                  g2cVars, f2cVars
    <2>6. C2FTypeOK' /\ LoopBounds'
      BY <1>4, <2>2, <2>3 DEF send_C2F_header, C2FTypeOK, LoopBounds, g2cVars, f2cVars
    <2> QED BY <2>4, <2>5, <2>6
  <1>5. CASE C2F_available \/ C2F_window
    <2>1. NetTypeOK' /\ G2CTypeOK' /\ F2CTypeOK'
      BY <1>5 DEF C2F_available, C2F_window, NetTypeOK, G2CTypeOK, F2CTypeOK, g2cVars,
                  f2cVars, netVars
    <2>2. SharedTypeOK'
      BY <1>5 DEF C2F_available, C2F_window, SharedTypeOK, startVars
    <2>3. C2FTypeOK' /\ LoopBounds'
      BY <1>5 DEF C2F_available, C2F_window, C2FTypeOK, LoopBounds, g2cVars, f2cVars
    <2> QED BY <2>1, <2>2, <2>3
  <1>6. CASE C2F_read_slot
    <2>1. ring_buffer_G2C' \in RB!RingType(Batch) /\ G2C_conv_buf' \in Batch \cup {NoBatch}
      BY <1>6, RingTypes DEF C2F_read_slot, SharedTypeOK, C2FTypeOK
    <2> QED
      BY <1>6, <2>1
      DEF C2F_read_slot, NetTypeOK, SharedTypeOK, G2CTypeOK, C2FTypeOK, F2CTypeOK,
          LoopBounds, startVars, semVars, g2cVars, f2cVars, netVars
  <1>7. CASE send_C2F_query
    <2>1. [type |-> "query", batch |-> G2C_conv_buf, query |-> c2f_query_id] \in QueryType
      BY DEF QueryType, C2FTypeOK
    <2>2. /\ chan_c2f' \in [FPGA -> Seq(HeaderType \cup QueryType)]
          /\ conn_c2f' \in [FPGA -> ConnState]
          /\ c2f_n' \in FPGA
      <3>1. 0 \in FPGA
        BY DEF FPGA
      <3> QED BY <1>3, <1>7, <2>1, <3>1 DEF send_C2F_query
    <2>3. C2FTypeOK'
      BY <1>7, <2>2 DEF send_C2F_query, C2FTypeOK, LoopBounds, Query
    <2>4. NetTypeOK'
      BY <1>7, <2>2 DEF send_C2F_query, NetTypeOK
    <2>5. SharedTypeOK' /\ G2CTypeOK' /\ F2CTypeOK'
      BY <1>7 DEF send_C2F_query, SharedTypeOK, G2CTypeOK, F2CTypeOK, startVars, semVars,
                  g2cVars, f2cVars
    <2>6. C2FTypeOK' /\ LoopBounds'
      BY <1>7, <2>2, <2>3 DEF send_C2F_query, C2FTypeOK, LoopBounds, g2cVars, f2cVars
    <2> QED BY <2>4, <2>5, <2>6
  <1>8. CASE C2F_sigpipe
    BY <1>8 DEF C2F_sigpipe, NetTypeOK, SharedTypeOK, G2CTypeOK, C2FTypeOK, F2CTypeOK,
                LoopBounds, startVars, semVars, g2cVars, c2fVars, f2cVars, netVars
  <1> QED BY <1>1, <1>2, <1>4, <1>5, <1>6, <1>7, <1>8 DEF thread_C2F

\* Every step of the thread that collects the results keeps the types.
LEMMA F2CTypes ==
  ASSUME CoordTypeInv, thread_F2C_C2G
  PROVE  CoordTypeInv'
  <1> USE DEF CoordTypeInv
  <1>0. 0 \in FPGA /\ \A i \in FPGA : i # num_FPGA - 1 => i + 1 \in FPGA
    BY DEF FPGA
  <1>1. CASE F2C_listen
    <2>1. conn_f2c' \in [FPGA -> ConnState]
      BY <1>1 DEF F2C_listen, NetTypeOK, ConnState
    <2>2. NetTypeOK' /\ SharedTypeOK' /\ G2CTypeOK' /\ C2FTypeOK'
      BY <1>1, <2>1 DEF F2C_listen, NetTypeOK, SharedTypeOK, G2CTypeOK, C2FTypeOK,
                        startVars, semVars, g2cVars, c2fVars
    <2>3. F2CTypeOK' /\ LoopBounds'
      BY <1>1 DEF F2C_listen, F2CTypeOK, LoopBounds, g2cVars, c2fVars
    <2> QED BY <2>2, <2>3
  <1>2. CASE F2C_accept
    <2>1. NetTypeOK' /\ SharedTypeOK' /\ G2CTypeOK' /\ C2FTypeOK'
      BY <1>2 DEF F2C_accept, NetTypeOK, SharedTypeOK, G2CTypeOK, C2FTypeOK, semVars,
                  g2cVars, c2fVars, netVars
    <2>2. F2CTypeOK' /\ LoopBounds'
      BY <1>0, <1>2 DEF F2C_accept, F2CTypeOK, LoopBounds, g2cVars, c2fVars
    <2> QED BY <2>1, <2>2
  <1>3. CASE F2C_wait_C2F
    <2>1. NetTypeOK' /\ SharedTypeOK' /\ G2CTypeOK' /\ C2FTypeOK'
      BY <1>3 DEF F2C_wait_C2F, NetTypeOK, SharedTypeOK, G2CTypeOK, C2FTypeOK,
                  startVars, semVars, g2cVars, c2fVars, netVars
    <2>2. F2CTypeOK' /\ LoopBounds'
      BY <1>3 DEF F2C_wait_C2F, F2CTypeOK, LoopBounds, g2cVars, c2fVars
    <2> QED BY <2>1, <2>2
  <1>4. CASE receive_F2C_batch_result
    <2>1. chan_f2c \in [FPGA -> Seq(ResultType)] /\ f2c_n \in FPGA /\ buf_F2C \in ResultType
      BY DEF NetTypeOK, F2CTypeOK
    <2>2. chan_f2c[f2c_n] # <<>> =>
            Head(chan_f2c[f2c_n]) \in ResultType /\ Tail(chan_f2c[f2c_n]) \in Seq(ResultType)
      BY <2>1, SeqTypes
    <2>3. chan_f2c' \in [FPGA -> Seq(ResultType)] /\ buf_F2C' \in ResultType
      BY <1>4, <2>1, <2>2 DEF receive_F2C_batch_result, F2C_arrived
    <2>4. conn_f2c' \in [FPGA -> ConnState]
      BY <1>4, <2>1 DEF receive_F2C_batch_result, NetTypeOK, ConnState
    <2>5. f2c_n' \in FPGA
      BY <1>0, <1>4, <2>1 DEF receive_F2C_batch_result, receive_F2C_returns
    <2>6. NetTypeOK' /\ SharedTypeOK' /\ G2CTypeOK' /\ C2FTypeOK'
      BY <1>4, <2>3, <2>4
      DEF receive_F2C_batch_result, NetTypeOK, SharedTypeOK, G2CTypeOK, C2FTypeOK,
          startVars, semVars, g2cVars, c2fVars
    <2>7. F2CTypeOK' /\ LoopBounds'
      BY <1>4, <2>3, <2>5
      DEF receive_F2C_batch_result, F2CTypeOK, LoopBounds, g2cVars, c2fVars
    <2> QED BY <2>6, <2>7
  <1>5. CASE F2C_post_query
    <2>1. NetTypeOK' /\ SharedTypeOK' /\ G2CTypeOK' /\ C2FTypeOK'
      BY <1>5 DEF F2C_post_query, NetTypeOK, SharedTypeOK, G2CTypeOK, C2FTypeOK,
                  startVars, g2cVars, c2fVars, netVars
    <2>2. vector_ids_buf' \in [Query -> ResultType] /\ f2c_query_id' \in Query
      BY <1>5 DEF F2C_post_query, F2CTypeOK, answer_row, Query
    <2>3. F2CTypeOK' /\ LoopBounds'
      BY <1>5, <2>2 DEF F2C_post_query, F2CTypeOK, LoopBounds, g2cVars, c2fVars
    <2> QED BY <2>1, <2>3
  <1>6. CASE send_C2G_batch_result
    <2>1. chan_c2g' \in Seq([Query -> ResultType]) /\ conn_g2c' \in ConnState
      <3>1. chan_c2g \in Seq([Query -> ResultType]) /\ buf_C2G \in [Query -> ResultType]
        BY DEF NetTypeOK, F2CTypeOK
      <3>2. Append(chan_c2g, buf_C2G) \in Seq([Query -> ResultType])
        BY <3>1, SeqTypes
      <3> QED BY <1>6, <3>1, <3>2 DEF send_C2G_batch_result, NetTypeOK, ConnState
    <2>2. NetTypeOK' /\ SharedTypeOK' /\ G2CTypeOK' /\ C2FTypeOK'
      BY <1>6, <2>1
      DEF send_C2G_batch_result, NetTypeOK, SharedTypeOK, G2CTypeOK, C2FTypeOK,
          startVars, semVars, g2cVars, c2fVars
    <2>3. F2CTypeOK' /\ LoopBounds'
      BY <1>6 DEF send_C2G_batch_result, F2CTypeOK, LoopBounds, g2cVars, c2fVars
    <2> QED BY <2>2, <2>3
  <1>7. CASE C2G_sigpipe
    BY <1>7 DEF C2G_sigpipe, NetTypeOK, SharedTypeOK, G2CTypeOK, C2FTypeOK, F2CTypeOK,
                LoopBounds, startVars, semVars, g2cVars, c2fVars, f2cVars, netVars
  <1>8. CASE F2C_post_batch
    <2>1. NetTypeOK' /\ SharedTypeOK' /\ G2CTypeOK' /\ C2FTypeOK'
      BY <1>8 DEF F2C_post_batch, NetTypeOK, SharedTypeOK, G2CTypeOK, C2FTypeOK,
                  startVars, g2cVars, c2fVars, netVars
    <2>2. F2CTypeOK' /\ LoopBounds'
      BY <1>8 DEF F2C_post_batch, F2CTypeOK, LoopBounds, g2cVars, c2fVars
    <2> QED BY <2>1, <2>2
  <1> QED BY <1>1, <1>2, <1>3, <1>4, <1>5, <1>6, <1>7, <1>8 DEF thread_F2C_C2G

-----------------------------------------------------------------------------
(* The FPGAs, the GPU and the network.                                     *)

\* What the FPGA programs can change.
FPGATypeInv == NetTypeOK /\ FPGATypeOK /\ HeaderAccounting

\* A header in the stream is stored as a header, and a stored header has the
\* coordinator's batch size.
LEMMA HeaderTypes ==
  /\ \A m \in HeaderType \cup QueryType : m.type = "header" => m \in HeaderType
  /\ \A h \in HeaderType : h.batch_size = batch_size /\ h.terminate \in BOOLEAN
  BY DEF HeaderType, QueryType

\* The counters that start at -1.
LEMMA FromMinusOne ==
  \A x \in Nat \cup {-1} : x \in Int /\ x + 1 \in Nat /\ x + 1 \in Nat \cup {-1}
  OBVIOUS

\* Every step of the simulator's receiving thread keeps the types.
LEMMA ReceiverTypes ==
  ASSUME FPGATypeInv, NEW n \in FPGA,
         start_C2F_F2C_threads(n) \/ FPGA_thread_C2F(n)
  PROVE  FPGATypeInv'
  <1> USE DEF FPGATypeInv
  <1>1. CASE start_C2F_F2C_threads(n)
    <2>1. FPGATypeOK' /\ NetTypeOK'
      BY <1>1 DEF start_C2F_F2C_threads, FPGATypeOK, NetTypeOK, netVars
    <2>2. HeaderAccounting'
      BY <1>1 DEF start_C2F_F2C_threads, FPGATypeOK, HeaderAccounting, HeadersOf
    <2> QED BY <2>1, <2>2
  <1>2. CASE R_listen(n)
    <2>1. FPGATypeOK' /\ NetTypeOK'
      BY <1>2 DEF R_listen, FPGATypeOK, NetTypeOK, ConnState, sndVars
    <2>2. HeaderAccounting'
      BY <1>2 DEF R_listen, FPGATypeOK, HeaderAccounting, HeadersOf, sndVars
    <2> QED BY <2>1, <2>2
  <1>3. CASE R_accept(n) \/ R_wait_F2C(n) \/ R_fail(n)
    <2>1. FPGATypeOK' /\ NetTypeOK'
      BY <1>3 DEF R_accept, R_wait_F2C, R_fail, FPGATypeOK, NetTypeOK, netVars, sndVars
    <2>2. HeaderAccounting'
      BY <1>3 DEF R_accept, R_wait_F2C, R_fail, FPGATypeOK, HeaderAccounting, HeadersOf, sndVars
    <2> QED BY <2>1, <2>2
  <1>4. CASE R_header(n)
    <2> DEFINE header == Head(chan_c2f[n])
    <2>1. chan_c2f[n] \in Seq(HeaderType \cup QueryType) /\ buf_header[n] \in Seq(HeaderType)
      BY DEF NetTypeOK, FPGATypeOK
    <2>2. header \in HeaderType /\ Tail(chan_c2f[n]) \in Seq(HeaderType \cup QueryType)
      BY <1>4, <2>1, SeqTypes, HeaderTypes DEF R_header
    <2>3. /\ Append(buf_header[n], header) \in Seq(HeaderType)
          /\ Len(Append(buf_header[n], header)) = Len(buf_header[n]) + 1
          /\ Len(buf_header[n]) \in Nat
      BY <2>1, <2>2, SeqTypes
    <2> HIDE DEF header
    <2>4. /\ pcR' = [pcR EXCEPT ![n] = IF header.terminate THEN "done" ELSE "query"]
          /\ buf_header' = [buf_header EXCEPT ![n] = Append(buf_header[n], header)]
          /\ chan_c2f' = [chan_c2f EXCEPT ![n] = Tail(chan_c2f[n])]
          /\ sem_available_batches' =
               [sem_available_batches EXCEPT ![n] = sem_available_batches[n] + 1]
          /\ pcR[n] = "header"
          /\ UNCHANGED <<rcv_query_id, fpga_start_C2F, fpga_finish_C2F_query_id, sndVars,
                         sem_available_results, conn_c2f, conn_f2c, conn_g2c, chan_f2c,
                         chan_g2c, chan_c2g, resets>>
      BY <1>4 DEF R_header, header
    <2>5. NetTypeOK'
      BY <2>2, <2>4 DEF NetTypeOK
    <2>6. FPGATypeOK'
      BY <2>3, <2>4 DEF FPGATypeOK, sndVars
    <2>7. HeaderAccounting'
      BY <2>3, <2>4 DEF FPGATypeOK, HeaderAccounting, HeadersOf, sndVars
    <2> QED BY <2>5, <2>6, <2>7
  <1>5. CASE R_query(n)
    <2>1. chan_c2f[n] \in Seq(HeaderType \cup QueryType) /\ buf_header[n] \in Seq(HeaderType)
      BY DEF NetTypeOK, FPGATypeOK
    <2>2. Tail(chan_c2f[n]) \in Seq(HeaderType \cup QueryType)
      BY <1>5, <2>1, SeqTypes DEF R_query
    <2>3. NetTypeOK'
      BY <1>5, <2>2 DEF R_query, NetTypeOK
    <2>4. buf_header[n][Len(buf_header[n])].batch_size = batch_size
      <3>1. Len(buf_header[n]) \in 1 .. Len(buf_header[n])
        BY <1>5, <2>1 DEF R_query, HeaderAccounting, HeadersOf
      <3>2. buf_header[n][Len(buf_header[n])] \in HeaderType
        BY <2>1, <3>1
      <3> QED BY <3>2, HeaderTypes
    <2>5. rcv_query_id' \in [FPGA -> Query]
      BY <1>5, <2>4 DEF R_query, R_last_query, FPGATypeOK, Query
    <2>5a. /\ fpga_finish_C2F_query_id' \in [FPGA -> Nat \cup {-1}]
           /\ sem_available_results' \in [FPGA -> Nat]
           /\ pcR' \in [FPGA -> {"off", "listen", "accept", "wait_F2C", "header",
                                 "query", "done", "failed"}]
      <3>1. fpga_finish_C2F_query_id[n] + 1 \in Nat \cup {-1}
        BY FromMinusOne DEF FPGATypeOK
      <3>2. fpga_finish_C2F_query_id' \in [FPGA -> Nat \cup {-1}]
        BY <1>5, <3>1 DEF R_query, FPGATypeOK
      <3> QED BY <1>5, <3>2 DEF R_query, FPGATypeOK
    <2>6. FPGATypeOK'
      BY <1>5, <2>5, <2>5a DEF R_query, FPGATypeOK, sndVars
    <2>7. HeaderAccounting'
      BY <1>5 DEF R_query, FPGATypeOK, HeaderAccounting, HeadersOf, sndVars
    <2> QED BY <2>3, <2>6, <2>7
  <1> QED BY <1>1, <1>2, <1>3, <1>4, <1>5 DEF FPGA_thread_C2F

\* Every step of the simulator's sending thread keeps the types: it never
\* reads a header that was not received.
LEMMA SenderTypes ==
  ASSUME FPGATypeInv, NEW n \in FPGA, FPGA_thread_F2C(n)
  PROVE  FPGATypeInv'
  <1> USE DEF FPGATypeInv
  <1>1. CASE S_connect(n)
    <2>1. FPGATypeOK' /\ NetTypeOK'
      BY <1>1 DEF S_connect, FPGATypeOK, NetTypeOK, ConnState, rcvVars
    <2>2. HeaderAccounting'
      BY <1>1 DEF S_connect, FPGATypeOK, HeaderAccounting, HeadersOf, rcvVars
    <2> QED BY <2>1, <2>2
  <1>2. CASE S_wait_C2F(n)
    <2>0. F2C_batch_id' \in [FPGA -> Nat \cup {-1}]
      <3>1. F2C_batch_id[n] + 1 \in Nat \cup {-1}
        BY FromMinusOne DEF FPGATypeOK
      <3> QED BY <1>2, <3>1 DEF S_wait_C2F, FPGATypeOK
    <2>1. FPGATypeOK' /\ NetTypeOK'
      BY <1>2, <2>0 DEF S_wait_C2F, FPGATypeOK, NetTypeOK, netVars, rcvVars
    <2>2. HeaderAccounting'
      BY <1>2 DEF S_wait_C2F, FPGATypeOK, HeaderAccounting, HeadersOf, rcvVars
    <2> QED BY <2>1, <2>2
  <1>3. CASE S_batch(n) \/ S_result(n) \/ S_fail(n)
    <2>0. /\ sem_available_batches' \in [FPGA -> Nat]
          /\ sem_available_results' \in [FPGA -> Nat]
          /\ pcS' \in [FPGA -> {"off", "connect", "wait_C2F", "batch", "result",
                                "send", "done", "failed"}]
      <3>1. CASE S_batch(n)
        BY <3>1 DEF S_batch, FPGATypeOK
      <3>2. CASE S_result(n)
        BY <3>2 DEF S_result, FPGATypeOK
      <3>3. CASE S_fail(n)
        BY <3>3 DEF S_fail, FPGATypeOK
      <3> QED BY <1>3, <3>1, <3>2, <3>3
    <2>1. FPGATypeOK' /\ NetTypeOK'
      BY <1>3, <2>0 DEF S_batch, S_result, S_fail, FPGATypeOK, NetTypeOK, netVars, rcvVars
    <2>2. HeaderAccounting'
      <3> USE DEF FPGATypeOK, HeaderAccounting, HeadersOf, rcvVars
      <3>1. CASE S_batch(n)
        BY <3>1 DEF S_batch
      <3>2. CASE S_result(n)
        BY <3>2 DEF S_result
      <3>3. CASE S_fail(n)
        BY <3>3 DEF S_fail
      <3> QED BY <1>3, <3>1, <3>2, <3>3, Zenon
    <2> QED BY <2>1, <2>2
  <1>4. CASE S_send(n)
    <2>1. buf_header[n][F2C_batch_id[n] + 1].batch_size = batch_size
      <3>1. buf_header[n] \in Seq(HeaderType) /\ F2C_batch_id[n] + 1 \in 1 .. Len(buf_header[n])
        BY <1>4 DEF S_send, FPGATypeOK, HeaderAccounting, HeadersOf
      <3>2. buf_header[n][F2C_batch_id[n] + 1] \in HeaderType
        BY <3>1
      <3> QED BY <3>2, HeaderTypes
    <2>2. snd_query_id' \in [FPGA -> Query]
      BY <1>4, <2>1 DEF S_send, FPGATypeOK, Query
    <2>3. chan_f2c' \in [FPGA -> Seq(ResultType)]
      <3>1. [fpga |-> n, id |-> fpga_finish_F2C_query_id[n] + 1] \in ResultType
        <4>1. fpga_finish_F2C_query_id[n] + 1 \in Nat \cup {-1}
          BY FromMinusOne DEF FPGATypeOK
        <4> QED BY <4>1 DEF ResultType
      <3>2. Append(chan_f2c[n], [fpga |-> n, id |-> fpga_finish_F2C_query_id[n] + 1])
              \in Seq(ResultType)
        BY <3>1, SeqTypes DEF NetTypeOK
      <3> QED BY <1>4, <3>2 DEF S_send, NetTypeOK
    <2>4. NetTypeOK'
      BY <1>4, <2>3 DEF S_send, NetTypeOK
    <2>5. FPGATypeOK'
      <3>1. /\ fpga_finish_F2C_query_id[n] + 1 \in Nat \cup {-1}
            /\ F2C_batch_id[n] + 1 \in Nat \cup {-1}
            /\ F2C_batch_id[n] \in Nat \cup {-1}
        BY FromMinusOne DEF FPGATypeOK
      <3>2. fpga_finish_F2C_query_id' \in [FPGA -> Nat \cup {-1}]
        BY <1>4, <3>1 DEF S_send, FPGATypeOK
      <3>3. F2C_batch_id' \in [FPGA -> Nat \cup {-1}]
        BY <1>4, <3>1 DEF S_send, FPGATypeOK
      <3>4. pcS' \in [FPGA -> {"off", "connect", "wait_C2F", "batch", "result",
                               "send", "done", "failed"}]
        BY <1>4 DEF S_send, FPGATypeOK
      <3> QED BY <1>4, <2>2, <3>2, <3>3, <3>4 DEF S_send, FPGATypeOK, rcvVars
    <2>6. HeaderAccounting'
      <3> DEFINE last == snd_query_id[n] = buf_header[n][F2C_batch_id[n] + 1].batch_size - 1
      <3>1. /\ pcS[n] = "send"
            /\ pcS' = [pcS EXCEPT ![n] = IF last THEN "batch" ELSE "result"]
            /\ F2C_batch_id' = [F2C_batch_id EXCEPT
                                  ![n] = IF last THEN F2C_batch_id[n] + 1 ELSE F2C_batch_id[n]]
            /\ UNCHANGED <<pcR, buf_header, sem_available_batches>>
        BY <1>4 DEF S_send, rcvVars
      <3> HIDE DEF last
      <3>2. \A m \in FPGA : /\ F2C_batch_id[m] \in Int /\ sem_available_batches[m] \in Nat
                            /\ Len(buf_header[m]) \in Nat
        BY FromMinusOne DEF FPGATypeOK
      <3>3. /\ F2C_batch_id \in [FPGA -> Nat \cup {-1}] /\ DOMAIN pcS = FPGA
            /\ pcS \in [FPGA -> {"off", "connect", "wait_C2F", "batch", "result",
                                 "send", "done", "failed"}]
        BY DEF FPGATypeOK
      <3> SUFFICES ASSUME NEW m \in FPGA  PROVE HeadersOf(m)'
        BY DEF HeaderAccounting
      <3>4. CASE m = n /\ last
        <4>1. pcS'[m] = "batch" /\ F2C_batch_id'[m] = F2C_batch_id[m] + 1
          BY <3>1, <3>3, <3>4
        <4>2. /\ pcR[m] # "off" /\ F2C_batch_id[m] >= 0
              /\ pcR[m] = "query" => Len(buf_header[m]) > 0
              /\ Len(buf_header[m]) = sem_available_batches[m] + F2C_batch_id[m] + 1
          BY <3>1, <3>4 DEF HeaderAccounting, HeadersOf
        <4>3. /\ F2C_batch_id[m] + 1 >= 0
              /\ Len(buf_header[m]) = sem_available_batches[m] + (F2C_batch_id[m] + 1)
          BY <3>2, <4>2
        <4> QED BY <3>1, <4>1, <4>2, <4>3 DEF HeadersOf
      <3>5. CASE m = n /\ ~last
        <4>1. pcS'[m] = "result" /\ F2C_batch_id'[m] = F2C_batch_id[m]
          BY <3>1, <3>3, <3>5
        <4> QED BY <3>1, <3>2, <3>5, <4>1 DEF HeaderAccounting, HeadersOf
      <3>6. CASE m # n
        BY <3>1, <3>2, <3>3, <3>6 DEF HeaderAccounting, HeadersOf
      <3> QED BY <3>4, <3>5, <3>6
    <2> QED BY <2>4, <2>5, <2>6
  <1> QED BY <1>1, <1>2, <1>3, <1>4 DEF FPGA_thread_F2C

\* A reset shortens what is in flight and keeps the types.
LEMMA ResetTypes ==
  ASSUME NetTypeOK, Reset
  PROVE  NetTypeOK'
  <1>0. resets' \in 0 .. MaxResets
    BY DEF Reset, NetTypeOK
  <1>1. ASSUME NEW n \in FPGA, ResetC2F(n)
        PROVE  NetTypeOK'
    <2>1. PICK q \in Prefix(chan_c2f[n]) : chan_c2f' = [chan_c2f EXCEPT ![n] = q]
      BY <1>1 DEF ResetC2F
    <2>2. q \in Seq(HeaderType \cup QueryType)
      BY <2>1, SeqTypes DEF NetTypeOK
    <2> QED BY <1>0, <1>1, <2>1, <2>2 DEF ResetC2F, NetTypeOK, ConnState
  <1>2. ASSUME NEW n \in FPGA, ResetF2C(n)
        PROVE  NetTypeOK'
    <2>1. PICK q \in Prefix(chan_f2c[n]) : chan_f2c' = [chan_f2c EXCEPT ![n] = q]
      BY <1>2 DEF ResetF2C
    <2>2. q \in Seq(ResultType)
      BY <2>1, SeqTypes DEF NetTypeOK
    <2> QED BY <1>0, <1>2, <2>1, <2>2 DEF ResetF2C, NetTypeOK, ConnState
  <1>3. CASE ResetG2C
    <2>1. chan_g2c' \in Prefix(chan_g2c) /\ chan_c2g' \in Prefix(chan_c2g)
      BY <1>3 DEF ResetG2C
    <2>2. chan_g2c' \in Seq(Batch)
      BY <2>1, SeqTypes DEF NetTypeOK
    <2>3. chan_c2g' \in Seq([Query -> ResultType])
      BY <2>1, SeqTypes DEF NetTypeOK
    <2> QED BY <1>0, <1>3, <2>2, <2>3 DEF ResetG2C, NetTypeOK, ConnState
  <1> QED BY <1>1, <1>2, <1>3 DEF Reset

\* The GPU's sends and receives keep the types.
LEMMA GPUTypes ==
  ASSUME NetTypeOK, GPUTypeOK, GPU_send \/ GPU_receive
  PROVE  NetTypeOK' /\ GPUTypeOK'
  <1>1. CASE GPU_send
    <2>1. gpu_sent \in Batch
      BY <1>1 DEF GPU_send, GPUTypeOK, Batch
    <2>2. Append(chan_g2c, gpu_sent) \in Seq(Batch)
      BY <2>1, SeqTypes DEF NetTypeOK
    <2> QED BY <1>1, <2>2 DEF GPU_send, NetTypeOK, GPUTypeOK
  <1>2. CASE GPU_receive
    <2>1. Tail(chan_c2g) \in Seq([Query -> ResultType])
      BY <1>2, SeqTypes DEF GPU_receive, NetTypeOK
    <2> QED BY <1>2, <2>1 DEF GPU_receive, NetTypeOK, GPUTypeOK
  <1> QED BY <1>1, <1>2

-----------------------------------------------------------------------------
\* The invariant holds when every program is yet to be started.
LEMMA InitTypeInv == Init => TypeInv
  <1> SUFFICES ASSUME Init PROVE TypeInv
    OBVIOUS
  <1> USE DEF Init
  <1>1. 0 \in FPGA /\ 0 \in Query /\ NoResult \in ResultType
    BY DEF FPGA, Query, NoResult, ResultType
  <1>2. NetTypeOK
    BY DEF NetInit, NetTypeOK, ConnState
  <1>3. SharedTypeOK
    <2>1. RB!RingInit \in RB!RingType(Batch)
      BY DEF RB!RingInit, RB!RingType, RB!Slots
    <2> QED BY <2>1 DEF CoordInit, SharedTypeOK
  <1>4. G2CTypeOK /\ C2FTypeOK /\ F2CTypeOK
    BY <1>1 DEF CoordInit, G2CTypeOK, C2FTypeOK, F2CTypeOK
  <1>5. FPGATypeOK
    BY <1>1 DEF FPGAInit, FPGATypeOK
  <1>6. LoopBounds
    BY DEF CoordInit, LoopBounds
  <1>7. HeaderAccounting
    BY DEF FPGAInit, HeaderAccounting, HeadersOf
  <1>8. GPUTypeOK
    BY DEF GPUTypeOK
  <1> QED BY <1>2, <1>3, <1>4, <1>5, <1>6, <1>7, <1>8 DEF TypeInv, TypeOK

\* Every step of the system keeps the invariant.
LEMMA NextTypeInv == TypeInv /\ [Next]_vars => TypeInv'
  <1> SUFFICES ASSUME TypeInv, [Next]_vars PROVE TypeInv'
    OBVIOUS
  <1>0. CoordTypeInv /\ FPGATypeInv /\ GPUTypeOK
    BY DEF TypeInv, TypeOK, CoordTypeInv, FPGATypeInv
  \* What a step leaves alone keeps its type.
  <1>a. UNCHANGED coordVars => (SharedTypeOK /\ G2CTypeOK /\ C2FTypeOK /\ F2CTypeOK /\ LoopBounds)'
    BY <1>0 DEF CoordTypeInv, SharedTypeOK, G2CTypeOK, C2FTypeOK, F2CTypeOK, LoopBounds,
                coordVars, startVars, semVars, g2cVars, c2fVars, f2cVars
  <1>b. UNCHANGED fpgaVars => FPGATypeOK' /\ HeaderAccounting'
    BY <1>0 DEF FPGATypeInv, FPGATypeOK, HeaderAccounting, HeadersOf, fpgaVars, rcvVars, sndVars
  <1>c. UNCHANGED gpuVars => GPUTypeOK'
    BY <1>0 DEF GPUTypeOK, gpuVars
  <1>d. UNCHANGED netVars => NetTypeOK'
    BY <1>0 DEF CoordTypeInv, NetTypeOK, netVars
  <1> USE DEF TypeInv, TypeOK
  <1>1. CASE CoordNext /\ UNCHANGED <<fpgaVars, gpuVars>>
    <2>1. CoordTypeInv'
      BY <1>0, <1>1, G2CTypes, C2FTypes, F2CTypes DEF CoordNext
    <2>2. UNCHANGED fpgaVars /\ UNCHANGED gpuVars
      BY <1>1
    <2> QED BY <1>b, <1>c, <2>1, <2>2 DEF CoordTypeInv
  <1>2. ASSUME NEW n \in FPGA, FPGANext(n), UNCHANGED <<coordVars, gpuVars>>
        PROVE  TypeInv'
    <2>1. FPGATypeInv'
      BY <1>0, <1>2, ReceiverTypes, SenderTypes DEF FPGANext
    <2>2. UNCHANGED coordVars /\ UNCHANGED gpuVars
      BY <1>2
    <2> QED BY <1>a, <1>c, <2>1, <2>2 DEF FPGATypeInv
  <1>3. CASE GPU_send \/ GPU_receive
    <2>1. NetTypeOK' /\ GPUTypeOK'
      BY <1>0, <1>3, GPUTypes DEF CoordTypeInv
    <2>2. UNCHANGED coordVars /\ UNCHANGED fpgaVars
      BY <1>3 DEF GPU_send, GPU_receive
    <2> QED BY <1>a, <1>b, <2>1, <2>2
  <1>4. CASE Reset /\ UNCHANGED <<coordVars, fpgaVars, gpuVars>>
    <2>1. NetTypeOK'
      BY <1>0, <1>4, ResetTypes DEF CoordTypeInv
    <2>2. UNCHANGED coordVars /\ UNCHANGED fpgaVars /\ UNCHANGED gpuVars
      BY <1>4
    <2> QED BY <1>a, <1>b, <1>c, <2>1, <2>2
  <1>5. CASE Halted \/ UNCHANGED vars
    <2>1. UNCHANGED netVars /\ UNCHANGED coordVars /\ UNCHANGED fpgaVars /\ UNCHANGED gpuVars
      BY <1>5 DEF Halted, vars
    <2> QED BY <1>a, <1>b, <1>c, <1>d, <2>1
  <1> QED BY <1>1, <1>2, <1>3, <1>4, <1>5 DEF Next

\* The invariant holds in every state of the system.
LEMMA TypeInductive == Spec => []TypeInv
BY InitTypeInv, NextTypeInv, PTL DEF Spec

\* For any number of FPGAs, batches, queries and resets: every loop counter
\* stays in its range, no semaphore underflows, every message is a header, a
\* query or a result, and the simulator reads only headers it has received.
THEOREM TypeCorrect == Spec => []TypeOK
<1>1. TypeInv => TypeOK
  BY DEF TypeInv
<1> QED BY <1>1, TypeInductive, PTL

-----------------------------------------------------------------------------
(* Semaphore accounting.                                                   *)

\* The counters the accounting compares.
Counters == /\ sem_query_window_free_slots \in Nat /\ sem_batch_window_free_slots \in Nat
            /\ sem_available_batches_to_send \in Nat
            /\ g2c_batch_id \in Int /\ c2f_batch_id \in Int /\ f2c_batch_id \in Int
            /\ finish_C2F_query_id \in Int /\ finish_F2C_query_id \in Int

\* Every wait, post, failed send() and failed read() keeps the accounts.
LEMMA NextWindow ==
  ASSUME TypeInv, WindowAccounting, [Next]_vars
  PROVE  WindowAccounting'
  <1>0. Counters
    BY FromMinusOne DEF TypeInv, TypeOK, SharedTypeOK, G2CTypeOK, C2FTypeOK, F2CTypeOK, Counters
  <1> USE DEF WindowAccounting, QueriesBegun, BatchesAdmitted, BatchesTaken
  <1>1. CASE thread_G2C
    <2>1. CASE connect_G2C \/ G2C_wait_C2F
      BY <2>1 DEF connect_G2C, G2C_wait_C2F, semVars, c2fVars, f2cVars
    <2>2. CASE G2C_window
      BY <1>0, <2>2 DEF G2C_window, c2fVars, f2cVars, Counters
    <2>3. CASE receive_G2C_batch_query
      BY <2>3 DEF receive_G2C_batch_query, semVars, c2fVars, f2cVars
    <2>4. CASE G2C_post
      BY <1>0, <2>4 DEF G2C_post, c2fVars, f2cVars, Counters
    <2> QED BY <1>1, <2>1, <2>2, <2>3, <2>4 DEF thread_G2C
  <1>2. CASE thread_C2F
    <2>1. CASE C2F_wait_F2C \/ C2F_wait_G2C \/ connect_C2F
      BY <2>1 DEF C2F_wait_F2C, C2F_wait_G2C, connect_C2F, semVars, g2cVars, f2cVars
    <2>2. CASE send_C2F_header
      <3>1. pcC = "header" /\ pcC' \in {"header", "done", "available"}
        BY <2>2 DEF send_C2F_header
      <3> QED BY <2>2, <3>1 DEF send_C2F_header, semVars, g2cVars, f2cVars
    <2>3. CASE C2F_available
      BY <1>0, <2>3 DEF C2F_available, g2cVars, f2cVars, Counters
    <2>4. CASE C2F_read_slot
      BY <2>4 DEF C2F_read_slot, semVars, g2cVars, f2cVars
    <2>5. CASE C2F_window
      BY <1>0, <2>5 DEF C2F_window, g2cVars, f2cVars, Counters
    <2>6. CASE send_C2F_query
      BY <1>0, <2>6 DEF send_C2F_query, semVars, g2cVars, f2cVars, Counters
    <2>7. CASE C2F_sigpipe
      BY <2>7 DEF C2F_sigpipe, semVars, g2cVars, c2fVars, f2cVars
    <2> QED BY <1>2, <2>1, <2>2, <2>3, <2>4, <2>5, <2>6, <2>7 DEF thread_C2F
  <1>3. CASE thread_F2C_C2G
    <2>1. CASE F2C_listen \/ F2C_accept \/ F2C_wait_C2F
      BY <2>1 DEF F2C_listen, F2C_accept, F2C_wait_C2F, semVars, g2cVars, c2fVars
    <2>2. CASE receive_F2C_batch_result
      BY <2>2 DEF receive_F2C_batch_result, semVars, g2cVars, c2fVars
    <2>3. CASE F2C_post_query
      BY <1>0, <2>3 DEF F2C_post_query, g2cVars, c2fVars, Counters
    <2>4. CASE send_C2G_batch_result
      BY <2>4 DEF send_C2G_batch_result, semVars, g2cVars, c2fVars
    <2>5. CASE C2G_sigpipe
      BY <2>5 DEF C2G_sigpipe, semVars, g2cVars, c2fVars, f2cVars
    <2>6. CASE F2C_post_batch
      BY <1>0, <2>6 DEF F2C_post_batch, g2cVars, c2fVars, Counters
    <2> QED BY <1>3, <2>1, <2>2, <2>3, <2>4, <2>5, <2>6 DEF thread_F2C_C2G
  <1>4. CASE UNCHANGED coordVars
    BY <1>4 DEF coordVars, semVars, g2cVars, c2fVars, f2cVars
  <1> QED BY <1>1, <1>2, <1>3, <1>4 DEF Next, CoordNext, GPU_send, GPU_receive, Halted, vars

\* For every window size, number of FPGAs and failure of a connection, the
\* semaphores of the coordinator count exactly the queries and batches between
\* their waits and posts: no slot of a window is lost or gained.
LEMMA Accounting == Spec => []WindowAccounting
<1>1. Init => WindowAccounting
  <2> SUFFICES ASSUME Init PROVE WindowAccounting
    OBVIOUS
  <2>1. /\ sem_query_window_free_slots = query_window_size
        /\ sem_batch_window_free_slots = batch_window_size
        /\ sem_available_batches_to_send = 0
        /\ pcG = "connect" /\ pcC = "wait_F2C"
        /\ g2c_batch_id = 0 /\ c2f_batch_id = 0 /\ f2c_batch_id = 0
        /\ finish_C2F_query_id = -1 /\ finish_F2C_query_id = -1
    BY DEF Init, CoordInit
  <2>2. QueriesBegun = 0 /\ finish_F2C_query_id + 1 = 0
    BY <2>1 DEF QueriesBegun
  <2>3. BatchesAdmitted = 0 /\ BatchesTaken = 0
    BY <2>1 DEF BatchesAdmitted, BatchesTaken
  <2> QED BY <2>1, <2>2, <2>3 DEF WindowAccounting
<1>2. TypeInv /\ WindowAccounting /\ [Next]_vars => WindowAccounting'
  BY NextWindow
<1> QED BY <1>1, <1>2, TypeInductive, PTL DEF Spec

\* For any windows, batches and FPGAs, and whatever accept(), send() and read()
\* return: the G2C thread is at most the batch window ahead of the answers, the
\* C2F thread at most the query window, and no batch is taken before it is announced.
THEOREM Windows == Spec => []WithinWindows
<1>1. TypeInv /\ WindowAccounting => WithinWindows
  <2> SUFFICES ASSUME TypeInv, WindowAccounting PROVE WithinWindows
    OBVIOUS
  <2>1. Counters
    BY FromMinusOne DEF TypeInv, TypeOK, SharedTypeOK, G2CTypeOK, C2FTypeOK, F2CTypeOK, Counters
  <2>2. QueriesBegun \in Int /\ BatchesAdmitted \in Int /\ BatchesTaken \in Int
    BY <2>1 DEF QueriesBegun, BatchesAdmitted, BatchesTaken, Counters
  <2> QED BY <2>1, <2>2, CoordinatorAssumption
          DEF WindowAccounting, WithinWindows, Counters
<1> QED BY <1>1, TypeInductive, Accounting, PTL

-----------------------------------------------------------------------------
(* Set-up before data.                                                     *)

\* The result connection of FPGA n was established.
ResultConnUp(n) == conn_f2c[n] \notin {"none", "listen"}

\* The start flags of the threads tell the truth about their connections; the
\* F2C_C2G thread accepts the FPGAs in order.
FlagsInv ==
  /\ start_G2C => conn_g2c # "none"
  /\ start_F2C => pcF \notin {"listen", "accept"}
  /\ pcF \in {"listen", "accept"} => \A m \in FPGA : m < f2c_n => ResultConnUp(m)
  /\ pcF = "accept" => conn_f2c[f2c_n] # "none"
  /\ pcF \notin {"listen", "accept"} => \A m \in FPGA : ResultConnUp(m)

\* The C2F thread has passed the flags it spins on, and so has what it sent.
PassedFlags ==
  /\ pcC # "wait_F2C" => start_F2C
  /\ pcC \notin {"wait_F2C", "wait_G2C"} => start_G2C
  /\ (\E n \in FPGA : chan_c2f[n] # <<>> \/ buf_header[n] # <<>>) =>
       start_F2C /\ start_G2C

\* Whatever the order of the programs and whatever fails, a flag is set only
\* after its connections, and a connection never returns to its first states.
LEMMA NextFlags ==
  ASSUME TypeInv, FlagsInv, [Next]_vars
  PROVE  FlagsInv'
  <1>0. /\ conn_f2c \in [FPGA -> ConnState] /\ f2c_n \in FPGA
        /\ \A m \in FPGA : m \in Nat
    BY DEF TypeInv, TypeOK, NetTypeOK, F2CTypeOK, FPGA
  <1> USE DEF FlagsInv, ResultConnUp
  <1>1. CASE thread_G2C
    <2>1. /\ UNCHANGED <<conn_f2c, pcF, f2c_n, start_F2C>>
          /\ start_G2C' => start_G2C \/ conn_g2c' = "open"
          /\ conn_g2c' # conn_g2c => conn_g2c' \in {"open", "dead"}
      BY <1>1 DEF thread_G2C, connect_G2C, G2C_wait_C2F, G2C_window, receive_G2C_batch_query,
                  G2C_post, f2cVars, startVars, netVars
    <2> QED BY <2>1
  <1>2. CASE thread_C2F
    <2>1. UNCHANGED <<conn_f2c, conn_g2c, pcF, f2c_n, start_F2C, start_G2C>>
      BY <1>2 DEF thread_C2F, C2F_wait_F2C, C2F_wait_G2C, connect_C2F, send_C2F_header,
                  C2F_available, C2F_read_slot, C2F_window, send_C2F_query, C2F_sigpipe,
                  f2cVars, startVars, netVars
    <2> QED BY <2>1
  <1>3. CASE F2C_listen
    <2>1. /\ pcF = "listen" /\ pcF' = "accept"
          /\ conn_f2c' = [conn_f2c EXCEPT ![f2c_n] = "listen"]
          /\ UNCHANGED <<conn_g2c, f2c_n, start_F2C, start_G2C>>
      BY <1>3 DEF F2C_listen, startVars
    <2> QED BY <1>0, <2>1
  <1>4. CASE F2C_accept
    <2>1. /\ pcF = "accept" /\ conn_f2c[f2c_n] # "listen"
          /\ UNCHANGED <<conn_f2c, conn_g2c, start_G2C>>
      BY <1>4 DEF F2C_accept, netVars
    <2>2. \A m \in FPGA : m <= f2c_n => ResultConnUp(m)
      BY <1>0, <2>1
    <2>3. CASE f2c_n = num_FPGA - 1
      BY <1>4, <2>1, <2>2, <2>3 DEF F2C_accept, FPGA
    <2>4. CASE f2c_n # num_FPGA - 1
      <3>1. pcF' = "listen" /\ f2c_n' = f2c_n + 1 /\ start_F2C' = FALSE
        BY <1>4, <2>4 DEF F2C_accept
      <3> QED BY <1>0, <2>1, <2>2, <3>1
    <2> QED BY <2>3, <2>4
  <1>5. CASE thread_F2C_C2G /\ ~F2C_listen /\ ~F2C_accept
    <2>1. /\ UNCHANGED <<start_F2C, start_G2C>>
          /\ pcF \notin {"listen", "accept"} /\ pcF' \notin {"listen", "accept"}
          /\ conn_g2c' # conn_g2c => conn_g2c' = "dead"
      BY <1>5 DEF thread_F2C_C2G, F2C_wait_C2F, receive_F2C_batch_result, F2C_post_query,
                  send_C2G_batch_result, C2G_sigpipe, F2C_post_batch, f2cVars, startVars, netVars
    <2>2. conn_f2c' # conn_f2c => conn_f2c' = [conn_f2c EXCEPT ![f2c_n] = "dead"]
      BY <1>5 DEF thread_F2C_C2G, F2C_wait_C2F, receive_F2C_batch_result, F2C_post_query,
                  send_C2G_batch_result, C2G_sigpipe, F2C_post_batch, netVars
    <2> QED BY <1>0, <2>1, <2>2
  <1>6. ASSUME UNCHANGED coordVars,
               conn_g2c # "none" => conn_g2c' # "none",
               \A m \in FPGA : ResultConnUp(m) => ResultConnUp(m)',
               \A m \in FPGA : conn_f2c[m] # "none" => conn_f2c'[m] # "none"
        PROVE  FlagsInv'
    <2>1. UNCHANGED <<pcF, f2c_n, start_F2C, start_G2C>>
      BY <1>6 DEF coordVars, f2cVars, startVars
    <2> QED BY <1>0, <1>6, <2>1
  <1>7. ASSUME NEW n \in FPGA, FPGANext(n), UNCHANGED <<coordVars, gpuVars>>
        PROVE  FlagsInv'
    <2>1. UNCHANGED conn_g2c
      BY <1>7 DEF FPGANext, start_C2F_F2C_threads, FPGA_thread_C2F, R_listen, R_accept,
                  R_wait_F2C, R_header, R_query, R_fail, FPGA_thread_F2C, S_connect,
                  S_wait_C2F, S_batch, S_result, S_send, S_fail, netVars
    <2>2. conn_f2c' = conn_f2c \/ conn_f2c' = [conn_f2c EXCEPT ![n] = "open"]
      <3>1. CASE S_connect(n)
        BY <1>0, <3>1 DEF S_connect
      <3> QED BY <1>7, <3>1 DEF FPGANext, start_C2F_F2C_threads, FPGA_thread_C2F, R_listen,
                 R_accept, R_wait_F2C, R_header, R_query, R_fail, FPGA_thread_F2C,
                 S_wait_C2F, S_batch, S_result, S_send, S_fail, netVars
    <2> QED BY <1>0, <1>6, <1>7, <2>1, <2>2
  <1>8. CASE Reset /\ UNCHANGED <<coordVars, fpgaVars, gpuVars>>
    <2>1. \/ \E n \in FPGA : conn_f2c' = [conn_f2c EXCEPT ![n] = "reset"]
          \/ conn_f2c' = conn_f2c
      BY <1>8 DEF Reset, ResetC2F, ResetF2C, ResetG2C
    <2>2. conn_g2c' = conn_g2c \/ conn_g2c' = "reset"
      BY <1>8 DEF Reset, ResetC2F, ResetF2C, ResetG2C
    <2> QED BY <1>0, <1>6, <1>8, <2>1, <2>2
  <1>9. CASE GPU_send \/ GPU_receive \/ Halted \/ UNCHANGED vars
    <2>1. UNCHANGED coordVars /\ UNCHANGED <<conn_f2c, conn_g2c>>
      BY <1>9 DEF GPU_send, GPU_receive, Halted, vars, netVars
    <2> QED BY <1>6, <2>1
  <1> QED BY <1>1, <1>2, <1>3, <1>4, <1>5, <1>7, <1>8, <1>9 DEF Next, CoordNext, thread_F2C_C2G

\* Data leaves the coordinator, and reaches a header array, only behind the
\* flags.
LEMMA NextPassed ==
  ASSUME TypeInv, FlagsInv, PassedFlags, [Next]_vars
  PROVE  PassedFlags'
  <1>0. /\ chan_c2f \in [FPGA -> Seq(HeaderType \cup QueryType)]
        /\ buf_header \in [FPGA -> Seq(HeaderType)] /\ c2f_n \in FPGA
    BY DEF TypeInv, TypeOK, NetTypeOK, FPGATypeOK, C2FTypeOK
  <1> DEFINE Data == \E n \in FPGA : chan_c2f[n] # <<>> \/ buf_header[n] # <<>>
  \* A step that keeps the flags set and pcC, and brings no data from nowhere.
  <1>1. ASSUME start_F2C => start_F2C', start_G2C => start_G2C', UNCHANGED pcC,
               Data' => Data
        PROVE  PassedFlags'
    BY <1>1 DEF PassedFlags
  <1>2. CASE thread_G2C /\ UNCHANGED fpgaVars
    <2>1. /\ UNCHANGED <<chan_c2f, pcC, start_F2C>> /\ (start_G2C => start_G2C')
      BY <1>2 DEF thread_G2C, connect_G2C, G2C_wait_C2F, G2C_window, receive_G2C_batch_query,
                  G2C_post, c2fVars, startVars, netVars
    <2>2. UNCHANGED buf_header
      BY <1>2 DEF fpgaVars, rcvVars
    <2> QED BY <1>1, <2>1, <2>2
  <1>3. CASE thread_C2F /\ UNCHANGED fpgaVars
    <2>1. UNCHANGED <<buf_header, start_F2C, start_G2C>>
      BY <1>3 DEF thread_C2F, C2F_wait_F2C, C2F_wait_G2C, connect_C2F, send_C2F_header,
                  C2F_available, C2F_read_slot, C2F_window, send_C2F_query, C2F_sigpipe,
                  startVars, fpgaVars, rcvVars
    <2>2. CASE send_C2F_header \/ send_C2F_query
      <3>1. pcC \in {"header", "send"} /\ pcC' \notin {"wait_F2C", "wait_G2C"}
        BY <2>2 DEF send_C2F_header, send_C2F_query
      <3> QED BY <2>1, <3>1 DEF PassedFlags
    <2>3. CASE C2F_wait_F2C \/ C2F_wait_G2C
      BY <2>1, <2>3 DEF C2F_wait_F2C, C2F_wait_G2C, netVars, PassedFlags
    <2>4. CASE thread_C2F /\ pcC \notin {"wait_F2C", "wait_G2C"}
      BY <2>1, <2>4 DEF PassedFlags
    <2> QED BY <1>3, <2>2, <2>3, <2>4 DEF thread_C2F, connect_C2F, C2F_available,
               C2F_read_slot, C2F_window, C2F_sigpipe
  <1>4. CASE thread_F2C_C2G /\ UNCHANGED fpgaVars
    <2>1. UNCHANGED <<pcC, start_G2C, chan_c2f, buf_header>>
      BY <1>4 DEF thread_F2C_C2G, F2C_listen, F2C_accept, F2C_wait_C2F,
                  receive_F2C_batch_result, F2C_post_query, send_C2G_batch_result,
                  C2G_sigpipe, F2C_post_batch, c2fVars, startVars, netVars, fpgaVars, rcvVars
    <2>2. start_F2C => start_F2C'
      BY <1>4 DEF thread_F2C_C2G, F2C_listen, F2C_accept, F2C_wait_C2F,
                  receive_F2C_batch_result, F2C_post_query, send_C2G_batch_result,
                  C2G_sigpipe, F2C_post_batch, startVars, FlagsInv
    <2> QED BY <1>1, <2>1, <2>2
  \* What is in a header array was in the channel before.
  <1>5. ASSUME UNCHANGED coordVars, Data' => Data
        PROVE  PassedFlags'
    <2>1. UNCHANGED <<pcC, start_F2C, start_G2C>>
      BY <1>5 DEF coordVars, c2fVars, startVars
    <2> QED BY <1>1, <1>5, <2>1
  <1>6. ASSUME NEW n \in FPGA, FPGANext(n), UNCHANGED <<coordVars, gpuVars>>
        PROVE  PassedFlags'
    <2>1. CASE R_header(n) \/ R_query(n)
      BY <1>5, <1>6, <2>1 DEF R_header, R_query
    <2>2. CASE ~R_header(n) /\ ~R_query(n)
      <3>1. UNCHANGED <<chan_c2f, buf_header>>
        BY <1>6, <2>2 DEF FPGANext, start_C2F_F2C_threads, FPGA_thread_C2F, R_listen, R_accept,
                    R_wait_F2C, R_fail, FPGA_thread_F2C, S_connect, S_wait_C2F, S_batch,
                    S_result, S_send, S_fail, netVars, rcvVars
      <3> QED BY <1>5, <1>6, <3>1
    <2> QED BY <2>1, <2>2
  <1>7. CASE Reset /\ UNCHANGED <<coordVars, fpgaVars, gpuVars>>
    <2>1. UNCHANGED buf_header
      BY <1>7 DEF fpgaVars, rcvVars
    <2>2. ASSUME NEW n \in FPGA, chan_c2f'[n] # <<>>
          PROVE  chan_c2f[n] # <<>>
      <3>1. CASE UNCHANGED chan_c2f
        BY <2>2, <3>1
      <3>2. ASSUME NEW m \in FPGA, ResetC2F(m)
            PROVE  chan_c2f[n] # <<>>
        <4>1. PICK s \in Prefix(chan_c2f[m]) : chan_c2f' = [chan_c2f EXCEPT ![m] = s]
          BY <3>2 DEF ResetC2F
        <4>2. chan_c2f[m] = <<>> => s = <<>>
          BY <1>0, <4>1 DEF Prefix
        <4> QED BY <1>0, <2>2, <4>1, <4>2
      <3> QED BY <1>7, <3>1, <3>2 DEF Reset, ResetF2C, ResetG2C
    <2> QED BY <1>5, <1>7, <2>1, <2>2
  <1>8. CASE GPU_send \/ GPU_receive \/ Halted \/ UNCHANGED vars
    <2>1. UNCHANGED coordVars /\ UNCHANGED <<chan_c2f, buf_header>>
      BY <1>8 DEF GPU_send, GPU_receive, Halted, vars, netVars, fpgaVars, rcvVars
    <2> QED BY <1>5, <2>1
  <1> QED BY <1>2, <1>3, <1>4, <1>6, <1>7, <1>8 DEF Next, CoordNext

\* For any number of FPGAs, any start order and any failure: no header or query
\* is sent before the GPU's and every FPGA's result connection are set up.
THEOREM SetupFirst == Spec => []DataAfterSetup
<1>1. Init => FlagsInv /\ PassedFlags
  BY DEF Init, NetInit, CoordInit, FPGAInit, FlagsInv, PassedFlags, FPGA
<1>2. TypeInv /\ FlagsInv /\ PassedFlags /\ [Next]_vars => FlagsInv' /\ PassedFlags'
  BY NextFlags, NextPassed
<1>3. FlagsInv /\ PassedFlags => DataAfterSetup
  BY DEF FlagsInv, PassedFlags, ResultConnUp, DataAfterSetup
<1> QED BY <1>1, <1>2, <1>3, TypeInductive, PTL DEF Spec

-----------------------------------------------------------------------------
(**************************************************************************)
(* Framing: each FPGA's byte stream is a sequence of batches, and both its *)
(* ends know where in a batch they are.  A place in a batch is a number: 0 *)
(* before its header, q + 1 before query q, batch_size + 1 after the       *)
(* terminate header.                                                       *)
(**************************************************************************)

Message == HeaderType \cup QueryType

\* The place of a message, and the place after it.
PlaceOf(msg) == IF msg.type = "header" THEN 0 ELSE msg.query + 1
PlaceAfter(msg) ==
  IF msg.type = "header" THEN (IF msg.terminate THEN batch_size + 1 ELSE 1)
  ELSE IF msg.query = batch_size - 1 THEN 0 ELSE msg.query + 2

\* The stream c starts at place a, and each message is followed by the next.
Framed(c, a) ==
  /\ c # <<>> => PlaceOf(c[1]) = a
  /\ \A i \in 1 .. Len(c) - 1 : PlaceOf(c[i + 1]) = PlaceAfter(c[i])

\* The place after the stream.
EndOf(c, a) == IF c = <<>> THEN a ELSE PlaceAfter(c[Len(c)])

\* Where the simulator of FPGA n is, and where the C2F thread is for it.
Awaited(n) ==
  IF pcR[n] = "query" THEN rcv_query_id[n] + 1
  ELSE IF pcR[n] = "done" THEN batch_size + 1 ELSE 0

AfterQuery == IF c2f_query_id = batch_size - 1 THEN 0 ELSE c2f_query_id + 2
Due(n) ==
  IF pcC = "header" THEN (IF n >= c2f_n THEN 0 ELSE IF terminate THEN batch_size + 1 ELSE 1)
  ELSE IF pcC \in {"available", "read_slot"} THEN 1
  ELSE IF pcC = "window" THEN c2f_query_id + 1
  ELSE IF pcC = "send" THEN (IF n >= c2f_n THEN c2f_query_id + 1 ELSE AfterQuery)
  ELSE IF pcC = "done" THEN batch_size + 1 ELSE 0

\* A failed send ended a broadcast before FPGA n: the next message to the FPGA
\* whose connection failed kills the coordinator before n gets another one.
CutOff(n) == \E m \in FPGA : m < n /\ conn_c2f[m] = "dead" /\ c2f_n <= m

\* The loops over the FPGAs and the queries start at 0.
LoopStarts ==
  /\ pcC \in {"wait_F2C", "wait_G2C", "available", "read_slot", "window"} => c2f_n = 0
  /\ pcC \in {"wait_F2C", "wait_G2C", "connect", "header", "available", "read_slot"} =>
       c2f_query_id = 0

FramedFor(n) ==
  /\ pcR[n] \notin {"query", "failed"} => rcv_query_id[n] = 0
  /\ pcR[n] = "failed" => chan_c2f[n] = <<>> /\ conn_c2f[n] \in {"reset", "dead"}
  /\ conn_c2f[n] \in {"none", "listen"} =>
       pcR[n] \in {"off", "listen", "accept"} /\ chan_c2f[n] = <<>>
  /\ Framed(chan_c2f[n], Awaited(n))
  /\ conn_c2f[n] = "open" => Due(n) = EndOf(chan_c2f[n], Awaited(n)) \/ CutOff(n)

FramingInv == LoopStarts /\ \A n \in FPGA : FramedFor(n)

frameVars == <<chan_c2f, conn_c2f, pcR, rcv_query_id, pcC, c2f_n, c2f_query_id, c2f_batch_id>>

LEMMA MessageFacts ==
  ASSUME NEW msg \in Message
  PROVE  /\ PlaceOf(msg) \in 0 .. batch_size
         /\ msg.type \in {"header", "query"}
         /\ msg.type = "header" <=> PlaceOf(msg) = 0
         /\ msg.type = "query" => msg.query \in Query /\ PlaceOf(msg) = msg.query + 1
  <1>1. CASE msg \in HeaderType
    BY <1>1 DEF HeaderType, PlaceOf
  <1>2. CASE msg \in QueryType
    <2>1. msg.type = "query" /\ msg.query \in Query
      BY <1>2 DEF QueryType
    <2> QED BY <2>1 DEF PlaceOf, Query
  <1> QED BY <1>1, <1>2 DEF Message

\* The right message may be appended.
LEMMA FramedAppend ==
  ASSUME NEW c \in Seq(Message), NEW a, NEW msg \in Message,
         Framed(c, a), PlaceOf(msg) = EndOf(c, a)
  PROVE  Framed(Append(c, msg), a) /\ EndOf(Append(c, msg), a) = PlaceAfter(msg)
  <1> DEFINE d == Append(c, msg)
  <1>1. /\ Len(d) = Len(c) + 1 /\ d # <<>> /\ d[Len(c) + 1] = msg
        /\ \A i \in 1 .. Len(c) : d[i] = c[i]
    OBVIOUS
  <1>2. PlaceOf(d[1]) = a
    BY <1>1 DEF Framed, EndOf
  <1>3. ASSUME NEW i \in 1 .. Len(d) - 1  PROVE PlaceOf(d[i + 1]) = PlaceAfter(d[i])
    <2>1. CASE i = Len(c)
      BY <1>1, <2>1 DEF EndOf
    <2>2. CASE i # Len(c)
      BY <1>1, <2>2 DEF Framed
    <2> QED BY <2>1, <2>2
  <1> QED BY <1>1, <1>2, <1>3 DEF Framed, EndOf

\* The first message may be taken away.
LEMMA FramedTail ==
  ASSUME NEW c \in Seq(Message), NEW a, Framed(c, a), c # <<>>
  PROVE  /\ PlaceOf(Head(c)) = a
         /\ Framed(Tail(c), PlaceAfter(Head(c)))
         /\ EndOf(Tail(c), PlaceAfter(Head(c))) = EndOf(c, a)
  <1>1. /\ Len(Tail(c)) = Len(c) - 1 /\ Head(c) = c[1] /\ Len(c) >= 1
        /\ \A i \in 1 .. Len(c) - 1 : Tail(c)[i] = c[i + 1]
    OBVIOUS
  <1>5. Tail(c) \in Seq(Message)
    OBVIOUS
  <1>6. Tail(c) = <<>> <=> Len(c) = 1
    <2>1. \A s \in Seq(Message) : s = <<>> <=> Len(s) = 0
      OBVIOUS
    <2>2. Tail(c) = <<>> <=> Len(Tail(c)) = 0
      BY <1>5, <2>1, Zenon
    <2>3. Len(Tail(c)) = 0 <=> Len(c) = 1
      BY <1>1
    <2> QED BY <2>2, <2>3, Zenon
  <1>2. \A i \in 1 .. Len(c) - 1 : PlaceOf(c[i + 1]) = PlaceAfter(c[i])
    BY DEF Framed
  <1>3. Tail(c) # <<>> => PlaceOf(Tail(c)[1]) = PlaceAfter(c[1])
    BY <1>1, <1>2
  <1>4. \A i \in 1 .. Len(Tail(c)) - 1 : PlaceOf(Tail(c)[i + 1]) = PlaceAfter(Tail(c)[i])
    BY <1>1, <1>2
  <1>7. EndOf(Tail(c), PlaceAfter(Head(c))) = EndOf(c, a)
    BY <1>1, <1>6 DEF EndOf
  <1> QED BY <1>1, <1>3, <1>4, <1>7 DEF Framed

\* A suffix may be lost.
LEMMA FramedPrefix ==
  ASSUME NEW c \in Seq(Message), NEW a, Framed(c, a), NEW s \in Prefix(c)
  PROVE  Framed(s, a)
  BY DEF Framed, Prefix

FrameTypes ==
  /\ chan_c2f \in [FPGA -> Seq(Message)] /\ conn_c2f \in [FPGA -> ConnState]
  /\ pcR \in [FPGA -> {"off", "listen", "accept", "wait_F2C", "header", "query", "done", "failed"}]
  /\ rcv_query_id \in [FPGA -> Query]
  /\ c2f_n \in FPGA /\ c2f_query_id \in Query /\ \A n \in FPGA \cup Query : n \in Nat

LEMMA FrameTypesHold == TypeInv => FrameTypes
  <1> SUFFICES ASSUME TypeInv PROVE FrameTypes
    OBVIOUS
  <1>1. chan_c2f \in [FPGA -> Seq(Message)] /\ conn_c2f \in [FPGA -> ConnState]
    BY DEF TypeInv, TypeOK, NetTypeOK, Message
  <1>2. /\ pcR \in [FPGA -> {"off", "listen", "accept", "wait_F2C", "header",
                             "query", "done", "failed"}]
        /\ rcv_query_id \in [FPGA -> Query]
    BY DEF TypeInv, TypeOK, FPGATypeOK
  <1>3. c2f_n \in FPGA /\ c2f_query_id \in Query
    BY DEF TypeInv, TypeOK, C2FTypeOK
  <1>4. \A n \in FPGA \cup Query : n \in Nat
    BY DEF FPGA, Query
  <1> QED BY <1>1, <1>2, <1>3, <1>4 DEF FrameTypes

\* A step of the C2F thread that sends nothing, and leaves what is due next.
LEMMA FramedWait ==
  ASSUME FramingInv, LoopStarts', \A n \in FPGA : Due(n)' = Due(n),
         UNCHANGED <<chan_c2f, conn_c2f, pcR, rcv_query_id, c2f_n>>
  PROVE  FramingInv'
  BY DEF FramingInv, FramedFor, Awaited, CutOff

\* A step of one FPGA or one of its connections.
LEMMA FramedAtOne ==
  ASSUME FrameTypes, FramingInv, NEW n \in FPGA, FramedFor(n)',
         UNCHANGED <<pcC, c2f_n, c2f_query_id, c2f_batch_id>>,
         \A m \in FPGA : /\ m # n => /\ chan_c2f'[m] = chan_c2f[m] /\ conn_c2f'[m] = conn_c2f[m]
                                     /\ pcR'[m] = pcR[m] /\ rcv_query_id'[m] = rcv_query_id[m]
                         /\ conn_c2f[m] = "dead" => conn_c2f'[m] = "dead"
  PROVE  FramingInv'
  <1>1. LoopStarts'
    BY DEF FramingInv, LoopStarts
  <1>2. ASSUME NEW m \in FPGA, m # n  PROVE FramedFor(m)'
    <2>1. FramedFor(m)
      BY DEF FramingInv
    <2>2. Due(m)' = Due(m) /\ Awaited(m)' = Awaited(m)
      BY <1>2 DEF Due, Awaited, AfterQuery, terminate
    <2>3. CutOff(m) => CutOff(m)'
      BY DEF CutOff
    <2> QED BY <1>2, <2>1, <2>2, <2>3 DEF FramedFor
  <1> QED BY <1>1, <1>2 DEF FramingInv

\* One send of a broadcast, to FPGA k, of the message that is due.
LEMMA FramedSend ==
  ASSUME FrameTypes, FramingInv, NEW msg \in Message, NEW k \in FPGA, k = c2f_n,
         send_C2F(msg), PlaceOf(msg) = Due(k), LoopStarts',
         UNCHANGED <<pcR, rcv_query_id>>,
         c2f_n' = IF send_C2F_returns THEN 0 ELSE c2f_n + 1,
         \A n \in FPGA : n < k \/ (n > k /\ ~send_C2F_returns) => Due(n)' = Due(n),
         Due(k)' = PlaceAfter(msg)
  PROVE  FramingInv'
  <1> USE DEF FrameTypes
  <1>0. \A n \in FPGA : n <= num_FPGA - 1 /\ FramedFor(n) /\ Awaited(n)' = Awaited(n)
    BY DEF FPGA, FramingInv, Awaited
  <1>1. CASE conn_c2f[k] = "open"
    <2>1. /\ chan_c2f' = [chan_c2f EXCEPT ![k] = Append(chan_c2f[k], msg)]
          /\ UNCHANGED conn_c2f
      BY <1>1 DEF send_C2F
    <2>2. FramedFor(k)'
      <3>1. ~CutOff(k)
        BY DEF CutOff
      <3>2. /\ Framed(chan_c2f'[k], Awaited(k))
            /\ EndOf(chan_c2f'[k], Awaited(k)) = PlaceAfter(msg)
        BY <1>0, <1>1, <2>1, <3>1, FramedAppend DEF FramedFor
      <3>3. pcR[k] # "failed"
        BY <1>0, <1>1 DEF FramedFor
      <3> QED BY <1>0, <1>1, <2>1, <3>2, <3>3 DEF FramedFor
    <2>3. ASSUME NEW n \in FPGA, n # k  PROVE FramedFor(n)'
      <3>1. CutOff(n) => CutOff(n)'
        <4>1. ASSUME NEW m \in FPGA, m < n, conn_c2f[m] = "dead", c2f_n <= m
              PROVE  c2f_n' <= m
          <5>1. m # k
            BY <1>1, <4>1
          <5> QED BY <4>1, <5>1
        <4> QED BY <2>1, <4>1 DEF CutOff
      <3>2. n < k \/ ~send_C2F_returns
        BY <1>0, <1>1, <2>3 DEF send_C2F_returns
      <3>3. Due(n)' = Due(n)
        BY <2>3, <3>2
      <3> QED BY <1>0, <2>1, <2>3, <3>1, <3>3 DEF FramedFor
    <2> QED BY <2>2, <2>3 DEF FramingInv
  <1>2. CASE conn_c2f[k] # "open"
    <2>1. /\ UNCHANGED chan_c2f /\ send_C2F_returns /\ conn_c2f[k] = "reset"
          /\ conn_c2f' = [conn_c2f EXCEPT ![k] = "dead"]
      BY <1>2 DEF send_C2F, send_C2F_returns, CanSend
    <2>2. FramedFor(k)'
      BY <1>0, <2>1 DEF FramedFor
    <2>3. ASSUME NEW n \in FPGA, n < k  PROVE FramedFor(n)'
      <3>1. CutOff(n) => CutOff(n)'
        BY <2>1 DEF CutOff
      <3> QED BY <1>0, <2>1, <2>3, <3>1 DEF FramedFor
    <2>4. ASSUME NEW n \in FPGA, n > k  PROVE FramedFor(n)'
      <3>1. CutOff(n)'
        BY <2>1, <2>4 DEF CutOff
      <3> QED BY <1>0, <2>1, <2>4, <3>1 DEF FramedFor
    <2> QED BY <2>2, <2>3, <2>4 DEF FramingInv
  <1> QED BY <1>1, <1>2

\* Every step keeps both ends of every stream at the same place.
LEMMA NextFraming ==
  ASSUME TypeInv, FramingInv, [Next]_vars
  PROVE  FramingInv'
  <1>0. FrameTypes
    BY FrameTypesHold
  <1> USE DEF FrameTypes
  <1>a. /\ LoopStarts /\ \A n \in FPGA : FramedFor(n)
    BY DEF FramingInv
  <1>b. UNCHANGED frameVars => FramingInv'
    <2> SUFFICES ASSUME UNCHANGED frameVars PROVE FramingInv'
      OBVIOUS
    <2>1. /\ UNCHANGED <<chan_c2f, conn_c2f, pcR, rcv_query_id, c2f_n>>
          /\ UNCHANGED <<pcC, c2f_query_id, c2f_batch_id>>
      BY DEF frameVars
    <2>2. LoopStarts' /\ \A n \in FPGA : Due(n)' = Due(n)
      BY <1>a, <2>1 DEF LoopStarts, Due, AfterQuery, terminate
    <2> QED BY <2>1, <2>2, FramedWait
  \* Steps that touch neither end of a stream.
  <1>1. CASE thread_G2C /\ UNCHANGED fpgaVars
    BY <1>b, <1>1 DEF thread_G2C, connect_G2C, G2C_wait_C2F, G2C_window, receive_G2C_batch_query,
                  G2C_post, c2fVars, netVars, fpgaVars, rcvVars, frameVars
  <1>2. CASE thread_F2C_C2G /\ UNCHANGED fpgaVars
    BY <1>b, <1>2 DEF thread_F2C_C2G, F2C_listen, F2C_accept, F2C_wait_C2F,
                  receive_F2C_batch_result, F2C_post_query, send_C2G_batch_result,
                  C2G_sigpipe, F2C_post_batch, c2fVars, netVars, fpgaVars, rcvVars, frameVars
  <1>3. CASE GPU_send \/ GPU_receive \/ Halted \/ UNCHANGED vars
    BY <1>b, <1>3 DEF GPU_send, GPU_receive, Halted, vars, coordVars, c2fVars, netVars,
                  fpgaVars, rcvVars, frameVars
  \* The C2F thread.
  <1>4. CASE (C2F_wait_F2C \/ C2F_wait_G2C \/ C2F_available \/ C2F_read_slot \/ C2F_window)
             /\ UNCHANGED fpgaVars
    <2>1. /\ UNCHANGED <<chan_c2f, conn_c2f, pcR, rcv_query_id, c2f_n>>
          /\ UNCHANGED <<c2f_query_id, c2f_batch_id>>
      BY <1>4 DEF C2F_wait_F2C, C2F_wait_G2C, C2F_available, C2F_read_slot, C2F_window,
                  netVars, fpgaVars, rcvVars
    <2>2. <<pcC, pcC'>> \in {<<"wait_F2C", "wait_G2C">>, <<"wait_G2C", "connect">>,
             <<"available", "read_slot">>, <<"read_slot", "window">>, <<"window", "send">>}
      BY <1>4 DEF C2F_wait_F2C, C2F_wait_G2C, C2F_available, C2F_read_slot, C2F_window
    <2>3. LoopStarts'
      BY <1>a, <2>1, <2>2 DEF LoopStarts
    <2>4. ASSUME NEW n \in FPGA  PROVE Due(n)' = Due(n)
      BY <1>0, <1>a, <2>1, <2>2 DEF Due, AfterQuery, LoopStarts, FPGA
    <2> QED BY <2>1, <2>3, <2>4, FramedWait
  <1>5. CASE connect_C2F /\ UNCHANGED fpgaVars
    <2>1. /\ pcC = "connect" /\ pcC' \in {"connect", "header"}
          /\ pcC' = "header" => c2f_n' = 0
          /\ UNCHANGED <<chan_c2f, pcR, rcv_query_id, c2f_query_id>>
          /\ conn_c2f' = [conn_c2f EXCEPT
                            ![c2f_n] = IF conn_c2f[c2f_n] = "listen" THEN "open" ELSE "dead"]
      BY <1>5 DEF connect_C2F, fpgaVars, rcvVars
    <2>2. LoopStarts'
      BY <1>a, <2>1 DEF LoopStarts
    <2>3. \A n \in FPGA : Due(n) = 0 /\ Due(n)' = 0
      BY <1>0, <2>1 DEF Due, FPGA
    <2>4. \A n \in FPGA : Awaited(n)' = Awaited(n)
      BY <2>1 DEF Awaited
    <2>5. ASSUME NEW n \in FPGA, n = c2f_n  PROVE FramedFor(n)'
      <3>1. conn_c2f[n] = "listen" => Awaited(n) = 0 /\ chan_c2f[n] = <<>>
        BY <1>a DEF FramedFor, Awaited
      <3> QED BY <1>0, <1>a, <2>1, <2>3, <2>4, <2>5, <3>1 DEF FramedFor, EndOf
    <2>6. ASSUME NEW n \in FPGA, n # c2f_n  PROVE FramedFor(n)'
      <3>1. ASSUME NEW m \in FPGA, m < n, conn_c2f[m] = "dead", c2f_n <= m
            PROVE  conn_c2f'[m] = "dead" /\ c2f_n' <= m
        <4>1. m = c2f_n => c2f_n' = 0
          BY <1>5, <3>1 DEF connect_C2F
        <4>2. c2f_n' \in {0, c2f_n + 1}
          BY <1>5 DEF connect_C2F
        <4> QED BY <1>0, <2>1, <3>1, <4>1, <4>2
      <3>2. CutOff(n) => CutOff(n)'
        BY <3>1 DEF CutOff
      <3> QED BY <1>0, <1>a, <2>1, <2>3, <2>4, <2>6, <3>2 DEF FramedFor
    <2> QED BY <2>2, <2>5, <2>6 DEF FramingInv
  <1>6. CASE send_C2F_header /\ UNCHANGED fpgaVars
    <2> DEFINE msg == [type |-> "header", batch_size |-> batch_size, terminate |-> terminate]
    <2>1. /\ pcC = "header" /\ send_C2F(msg)
          /\ UNCHANGED <<pcR, rcv_query_id, c2f_query_id, c2f_batch_id>>
          /\ c2f_n' = IF send_C2F_returns THEN 0 ELSE c2f_n + 1
          /\ pcC' = IF ~send_C2F_returns THEN "header" ELSE IF terminate THEN "done" ELSE "available"
      BY <1>6 DEF send_C2F_header, fpgaVars, rcvVars
    <2>2. msg \in Message /\ PlaceOf(msg) = 0 /\ terminate' = terminate
          /\ PlaceAfter(msg) = IF terminate THEN batch_size + 1 ELSE 1
      BY <2>1 DEF Message, HeaderType, PlaceOf, PlaceAfter, terminate
    <2>3. LoopStarts'
      BY <1>a, <2>1 DEF LoopStarts
    <2> HIDE DEF msg
    <2>4. ASSUME NEW n \in FPGA, n < c2f_n \/ (n > c2f_n /\ ~send_C2F_returns)
          PROVE  Due(n)' = Due(n)
      BY <1>0, <2>1, <2>2, <2>4 DEF Due
    <2>5. ASSUME NEW n \in FPGA, n = c2f_n
          PROVE  Due(n)' = PlaceAfter(msg) /\ Due(n) = PlaceOf(msg)
      BY <1>0, <2>1, <2>2, <2>5 DEF Due
    <2> QED BY <1>0, <2>1, <2>2, <2>3, <2>4, <2>5, FramedSend
  <1>7. CASE send_C2F_query /\ UNCHANGED fpgaVars
    <2> DEFINE msg == [type |-> "query", batch |-> G2C_conv_buf, query |-> c2f_query_id]
               last == c2f_query_id = batch_size - 1
    <2>1. /\ pcC = "send" /\ send_C2F(msg)
          /\ UNCHANGED <<pcR, rcv_query_id>>
          /\ c2f_n' = IF send_C2F_returns THEN 0 ELSE c2f_n + 1
          /\ ~send_C2F_returns => UNCHANGED <<pcC, c2f_query_id>>
          /\ send_C2F_returns /\ last => pcC' = "header" /\ c2f_query_id' = 0
          /\ send_C2F_returns /\ ~last => pcC' = "window" /\ c2f_query_id' = c2f_query_id + 1
      BY <1>7 DEF send_C2F_query, fpgaVars, rcvVars
    <2>2. msg \in Message /\ PlaceOf(msg) = c2f_query_id + 1
          /\ PlaceAfter(msg) = IF last THEN 0 ELSE c2f_query_id + 2
      BY <1>0 DEF TypeInv, TypeOK, C2FTypeOK, Message, QueryType, PlaceOf, PlaceAfter
    <2>3. LoopStarts'
      BY <1>a, <2>1 DEF LoopStarts
    <2> HIDE DEF msg
    <2>4. ASSUME NEW n \in FPGA, n < c2f_n \/ (n > c2f_n /\ ~send_C2F_returns)
          PROVE  Due(n)' = Due(n)
      BY <1>0, <2>1, <2>4 DEF Due, AfterQuery
    <2>5. ASSUME NEW n \in FPGA, n = c2f_n
          PROVE  Due(n)' = PlaceAfter(msg) /\ Due(n) = PlaceOf(msg)
      BY <1>0, <2>1, <2>2, <2>5 DEF Due, AfterQuery
    <2> QED BY <1>0, <2>1, <2>2, <2>3, <2>4, <2>5, FramedSend
  <1>8. CASE C2F_sigpipe /\ UNCHANGED fpgaVars
    BY <1>b, <1>8 DEF C2F_sigpipe, c2fVars, netVars, fpgaVars, rcvVars, frameVars
  \* The simulators.
  <1>9. ASSUME NEW n \in FPGA, FPGANext(n), UNCHANGED <<coordVars, gpuVars>>
        PROVE  FramingInv'
    <2>0. UNCHANGED <<pcC, c2f_n, c2f_query_id, c2f_batch_id>>
      BY <1>9 DEF coordVars, c2fVars
    <2>a. Due(n)' = Due(n)
      BY <2>0 DEF Due, AfterQuery, terminate
    <2>b. FramedFor(n)
      BY <1>a
    <2>1. CASE start_C2F_F2C_threads(n) \/ R_accept(n) \/ R_wait_F2C(n)
      <3>1. /\ UNCHANGED <<chan_c2f, conn_c2f, rcv_query_id>>
            /\ \/ pcR[n] = "off" /\ pcR' = [pcR EXCEPT ![n] = "listen"]
               \/ /\ pcR[n] = "accept" /\ pcR' = [pcR EXCEPT ![n] = "wait_F2C"]
                  /\ conn_c2f[n] \in {"open", "reset"}
               \/ pcR[n] = "wait_F2C" /\ pcR' = [pcR EXCEPT ![n] = "header"]
        BY <2>1 DEF start_C2F_F2C_threads, R_accept, R_wait_F2C, netVars
      <3>2. Awaited(n)' = Awaited(n) /\ (CutOff(n)' <=> CutOff(n))
        BY <1>0, <2>0, <3>1 DEF Awaited, CutOff
      <3>3. FramedFor(n)'
        BY <1>0, <2>a, <2>b, <3>1, <3>2 DEF FramedFor
      <3> QED BY <1>0, <2>0, <3>1, <3>3, FramedAtOne
    <2>2. CASE R_listen(n)
      <3>1. /\ UNCHANGED <<chan_c2f, rcv_query_id>>
            /\ pcR[n] = "listen" /\ pcR' = [pcR EXCEPT ![n] = "accept"]
            /\ conn_c2f' = [conn_c2f EXCEPT ![n] = IF @ = "none" THEN "listen" ELSE @]
        BY <2>2 DEF R_listen
      <3>2. Awaited(n)' = Awaited(n) /\ (CutOff(n) => CutOff(n)')
        BY <1>0, <2>0, <3>1 DEF Awaited, CutOff
      <3>3. FramedFor(n)'
        BY <1>0, <2>a, <2>b, <3>1, <3>2 DEF FramedFor
      <3> QED BY <1>0, <2>0, <3>1, <3>3, FramedAtOne
    <2>3. CASE R_header(n)
      <3> DEFINE msg == Head(chan_c2f[n])
      <3>1. /\ UNCHANGED <<conn_c2f, rcv_query_id>>
            /\ pcR[n] = "header" /\ chan_c2f[n] # <<>> /\ msg.type = "header"
            /\ pcR' = [pcR EXCEPT ![n] = IF msg.terminate THEN "done" ELSE "query"]
            /\ chan_c2f' = [chan_c2f EXCEPT ![n] = Tail(@)]
        BY <2>3 DEF R_header
      <3>2. /\ Framed(Tail(chan_c2f[n]), PlaceAfter(msg))
            /\ EndOf(Tail(chan_c2f[n]), PlaceAfter(msg)) = EndOf(chan_c2f[n], Awaited(n))
        BY <1>0, <2>b, <3>1, FramedTail DEF FramedFor
      <3>3. rcv_query_id[n] = 0 /\ conn_c2f[n] \notin {"none", "listen"}
        BY <2>b, <3>1 DEF FramedFor
      <3>4. Awaited(n)' = PlaceAfter(msg)
        BY <1>0, <3>1, <3>3 DEF Awaited, PlaceAfter
      <3>5. FramedFor(n)'
        <4>1. CutOff(n)' <=> CutOff(n)
          BY <2>0, <3>1 DEF CutOff
        <4>2. chan_c2f'[n] = Tail(chan_c2f[n]) /\ pcR'[n] \in {"query", "done"}
          BY <1>0, <3>1
        <4> HIDE DEF msg
        <4> QED BY <2>a, <2>b, <3>1, <3>2, <3>3, <3>4, <4>1, <4>2 DEF FramedFor
      <3> QED BY <1>0, <2>0, <3>1, <3>5, FramedAtOne
    <2>4. CASE R_query(n)
      <3> DEFINE msg == Head(chan_c2f[n])
                 last == rcv_query_id[n] = batch_size - 1
      <3>0. R_last_query(n) <=> last
        <4>1. buf_header[n] \in Seq(HeaderType) /\ Len(buf_header[n]) > 0
          BY <2>4 DEF R_query, TypeInv, TypeOK, FPGATypeOK, HeaderAccounting, HeadersOf
        <4>2. buf_header[n][Len(buf_header[n])] \in HeaderType
          BY <4>1
        <4> QED BY <4>2, HeaderTypes DEF R_last_query
      <3>1. /\ UNCHANGED conn_c2f
            /\ pcR[n] = "query" /\ chan_c2f[n] # <<>> /\ msg.type = "query"
            /\ pcR' = [pcR EXCEPT ![n] = IF last THEN "header" ELSE "query"]
            /\ rcv_query_id' = [rcv_query_id EXCEPT ![n] = IF last THEN 0 ELSE @ + 1]
            /\ chan_c2f' = [chan_c2f EXCEPT ![n] = Tail(@)]
        BY <2>4, <3>0 DEF R_query
      <3>2. /\ Framed(Tail(chan_c2f[n]), PlaceAfter(msg))
            /\ EndOf(Tail(chan_c2f[n]), PlaceAfter(msg)) = EndOf(chan_c2f[n], Awaited(n))
            /\ PlaceOf(msg) = Awaited(n)
        BY <1>0, <2>b, <3>1, FramedTail DEF FramedFor
      <3>3. conn_c2f[n] \notin {"none", "listen"}
        BY <2>b, <3>1 DEF FramedFor
      <3>4. msg.query = rcv_query_id[n]
        <4>1. msg \in Message
          BY <1>0, <3>1
        <4>2. PlaceOf(msg) = msg.query + 1 /\ msg.query \in Nat
          BY <3>1, <4>1, MessageFacts DEF Query
        <4>3. Awaited(n) = rcv_query_id[n] + 1 /\ rcv_query_id[n] \in Nat
          BY <1>0, <3>1 DEF Awaited
        <4> QED BY <3>2, <4>2, <4>3
      <3>5. /\ Awaited(n)' = PlaceAfter(msg)
            /\ pcR'[n] # "query" => rcv_query_id'[n] = 0
        <4>1. PlaceAfter(msg) = IF last THEN 0 ELSE rcv_query_id[n] + 2
          BY <3>1, <3>4 DEF PlaceAfter
        <4> QED BY <1>0, <3>1, <4>1 DEF Awaited
      <3>6. FramedFor(n)'
        <4>1. CutOff(n)' <=> CutOff(n)
          BY <2>0, <3>1 DEF CutOff
        <4>2. chan_c2f'[n] = Tail(chan_c2f[n]) /\ pcR'[n] \in {"query", "header"}
          BY <1>0, <3>1
        <4> HIDE DEF msg
        <4> QED BY <2>a, <2>b, <3>1, <3>2, <3>3, <3>5, <4>1, <4>2 DEF FramedFor
      <3> QED BY <1>0, <2>0, <3>1, <3>6, FramedAtOne
    <2>5. CASE R_fail(n)
      <3>1. /\ UNCHANGED <<chan_c2f, conn_c2f, rcv_query_id>>
            /\ chan_c2f[n] = <<>> /\ conn_c2f[n] \in {"reset", "dead"}
            /\ pcR' = [pcR EXCEPT ![n] = "failed"]
        BY <2>5 DEF R_fail, netVars
      <3>2. FramedFor(n)'
        BY <1>0, <3>1 DEF FramedFor, Framed
      <3> QED BY <1>0, <2>0, <3>1, <3>2, FramedAtOne
    <2>6. CASE FPGA_thread_F2C(n)
      BY <1>b, <2>0, <2>6 DEF FPGA_thread_F2C, S_connect, S_wait_C2F, S_batch, S_result, S_send,
                    S_fail, netVars, rcvVars, frameVars
    <2> QED BY <1>9, <2>1, <2>2, <2>3, <2>4, <2>5, <2>6 DEF FPGANext, FPGA_thread_C2F
  \* Resets.
  <1>10. CASE Reset /\ UNCHANGED <<coordVars, fpgaVars, gpuVars>>
    <2>0. UNCHANGED <<pcC, c2f_n, c2f_query_id, c2f_batch_id, pcR, rcv_query_id>>
      BY <1>10 DEF coordVars, c2fVars, fpgaVars, rcvVars
    <2>1. CASE UNCHANGED <<chan_c2f, conn_c2f>>
      BY <1>b, <2>0, <2>1 DEF frameVars
    <2>2. ASSUME NEW n \in FPGA, ResetC2F(n)
          PROVE  FramingInv'
      <3>1. PICK s \in Prefix(chan_c2f[n]) : chan_c2f' = [chan_c2f EXCEPT ![n] = s]
        BY <2>2 DEF ResetC2F
      <3>2. conn_c2f[n] = "open" /\ conn_c2f' = [conn_c2f EXCEPT ![n] = "reset"]
        BY <2>2 DEF ResetC2F
      <3>3. Framed(s, Awaited(n)) /\ Awaited(n)' = Awaited(n)
        BY <1>0, <1>a, <2>0, FramedPrefix DEF FramedFor, Awaited
      <3>4. chan_c2f'[n] = s /\ conn_c2f'[n] = "reset"
        BY <1>0, <3>1, <3>2
      <3>5. pcR[n] # "failed" /\ (pcR[n] # "query" => rcv_query_id[n] = 0)
        BY <1>a, <3>2 DEF FramedFor
      <3>6. FramedFor(n)'
        BY <2>0, <3>3, <3>4, <3>5 DEF FramedFor
      <3> QED BY <1>0, <2>0, <3>1, <3>2, <3>6, FramedAtOne
    <2> QED BY <1>10, <2>1, <2>2 DEF Reset, ResetF2C, ResetG2C
  <1> QED BY <1>1, <1>2, <1>3, <1>4, <1>5, <1>6, <1>7, <1>8, <1>9, <1>10
         DEF Next, CoordNext, thread_C2F

LEMMA FramingHolds == Spec => []FramingInv
<1>1. Init => FramingInv
  BY DEF Init, NetInit, CoordInit, FPGAInit, FramingInv, LoopStarts, FramedFor, Framed, Awaited, FPGA
<1>2. TypeInv /\ FramingInv /\ [Next]_vars => FramingInv'
  BY NextFraming
<1> QED BY <1>1, <1>2, TypeInductive, PTL DEF Spec

\* For any number of FPGAs, batches and queries, and whatever send(), connect()
\* and read() return: a simulator never takes a query for a header or a header
\* for a query, also when a broadcast was cut short.
THEOREM InSync == Spec => []FramingInSync
<1>1. TypeInv /\ FramingInv => FramingInSync
  <2> SUFFICES ASSUME TypeInv, FramingInv, NEW n \in FPGA, chan_c2f[n] # <<>>
               PROVE  /\ pcR[n] = "header" => Head(chan_c2f[n]).type = "header"
                      /\ pcR[n] = "query" => Head(chan_c2f[n]).type = "query"
    BY DEF FramingInSync
  <2>1. chan_c2f[n] \in Seq(Message) /\ rcv_query_id[n] \in Nat
    BY FrameTypesHold DEF FrameTypes
  <2>2. Head(chan_c2f[n]) \in Message /\ PlaceOf(Head(chan_c2f[n])) = Awaited(n)
    BY <2>1, FramedTail DEF FramingInv, FramedFor
  <2> QED BY <2>1, <2>2, MessageFacts DEF Awaited
<1> QED BY <1>1, FramingHolds, TypeInductive, PTL

-----------------------------------------------------------------------------
(* Answers.                                                                *)

\* The results of FPGA n the F2C_C2G thread has read.
Received(n) ==
  finish_F2C_query_id + 1
    + (IF pcF = "post_query" \/ (pcF = "read" /\ n < f2c_n) THEN 1 ELSE 0)

\* What FPGA n has sent is what was read from it and what is on the way, in
\* order.
ResultsOf(n) ==
  /\ conn_f2c[n] \notin {"reset", "dead"}
  /\ fpga_finish_F2C_query_id[n] + 1 = Received(n) + Len(chan_f2c[n])
  /\ \A i \in 1 .. Len(chan_f2c[n]) : chan_f2c[n][i].id = Received(n) + i - 1

BatchStart == f2c_batch_id * batch_size

\* The loops of the F2C_C2G thread count the same queries as
\* finish_F2C_query_id, and the rows filled so far hold their own results.
AnswerLoops ==
  /\ pcF \notin {"listen", "accept", "read"} => f2c_n = 0
  /\ pcF \notin {"read", "post_query"} => f2c_query_id = 0
  /\ finish_F2C_query_id + 1 =
       BatchStart + (IF pcF \in {"answer", "post_batch"} THEN batch_size ELSE f2c_query_id)
  /\ pcF = "post_query" => buf_F2C.id = finish_F2C_query_id + 1
  /\ \A q \in Query : pcF \in {"answer", "post_batch"} \/ q < f2c_query_id =>
       vector_ids_buf[q].id = BatchStart + q

AnswerInv == AnswerLoops /\ \A n \in FPGA : ResultsOf(n)

AnswerTypes ==
  /\ chan_f2c \in [FPGA -> Seq(ResultType)] /\ conn_f2c \in [FPGA -> ConnState]
  /\ fpga_finish_F2C_query_id \in [FPGA -> Int]
  /\ f2c_n \in FPGA /\ f2c_query_id \in Query /\ f2c_batch_id \in Int
  /\ finish_F2C_query_id \in Int /\ BatchStart \in Int
  /\ vector_ids_buf \in [Query -> ResultType] /\ buf_F2C \in ResultType
  /\ \A n \in FPGA \cup Query : n \in Nat

LEMMA AnswerTypesHold == TypeInv => AnswerTypes
  <1> SUFFICES ASSUME TypeInv PROVE AnswerTypes
    OBVIOUS
  <1>1. chan_f2c \in [FPGA -> Seq(ResultType)] /\ conn_f2c \in [FPGA -> ConnState]
    BY DEF TypeInv, TypeOK, NetTypeOK
  <1>2. fpga_finish_F2C_query_id \in [FPGA -> Int]
    BY DEF TypeInv, TypeOK, FPGATypeOK
  <1>3. /\ f2c_n \in FPGA /\ f2c_query_id \in Query /\ f2c_batch_id \in Int
        /\ finish_F2C_query_id \in Int /\ buf_F2C \in ResultType
        /\ vector_ids_buf \in [Query -> ResultType]
    BY DEF TypeInv, TypeOK, F2CTypeOK
  <1>4. BatchStart \in Int
    BY <1>3 DEF BatchStart
  <1>5. \A n \in FPGA \cup Query : n \in Nat
    BY DEF FPGA, Query
  <1> QED BY <1>1, <1>2, <1>3, <1>4, <1>5 DEF AnswerTypes

answerVars == <<chan_f2c, conn_f2c, fpga_finish_F2C_query_id, f2cVars>>

\* Without resets every step keeps the results in order.
LEMMA NextAnswers ==
  ASSUME MaxResets = 0, TypeInv, AnswerInv, [Next]_vars
  PROVE  AnswerInv'
  <1>0. AnswerTypes
    BY AnswerTypesHold
  <1> USE DEF AnswerTypes
  <1>a. AnswerLoops /\ \A n \in FPGA : ResultsOf(n)
    BY DEF AnswerInv
  <1>b. UNCHANGED answerVars => AnswerInv'
    BY <1>a DEF answerVars, f2cVars, AnswerInv, AnswerLoops, ResultsOf, Received, BatchStart
  <1>1. CASE (thread_G2C \/ thread_C2F) /\ UNCHANGED fpgaVars
    BY <1>b, <1>1 DEF thread_G2C, connect_G2C, G2C_wait_C2F, G2C_window, receive_G2C_batch_query,
         G2C_post, thread_C2F, C2F_wait_F2C, C2F_wait_G2C, connect_C2F, send_C2F_header,
         C2F_available, C2F_read_slot, C2F_window, send_C2F_query, C2F_sigpipe, netVars,
         fpgaVars, sndVars, answerVars
  <1>2. CASE GPU_send \/ GPU_receive \/ Halted \/ UNCHANGED vars
    BY <1>b, <1>2 DEF GPU_send, GPU_receive, Halted, vars, coordVars, netVars, fpgaVars, sndVars,
         answerVars
  <1>3. CASE Reset
    BY <1>3 DEF Reset, TypeInv, TypeOK, NetTypeOK
  \* The F2C_C2G thread.
  <1>4. CASE (F2C_listen \/ F2C_accept \/ F2C_wait_C2F) /\ UNCHANGED fpgaVars
    <2>1. /\ UNCHANGED <<chan_f2c, fpga_finish_F2C_query_id, f2c_batch_id, f2c_query_id,
                         buf_F2C, vector_ids_buf, finish_F2C_query_id>>
          /\ pcF \in {"listen", "accept", "wait_C2F"}
          /\ pcF' \in {"listen", "accept", "wait_C2F", "read"}
          /\ pcF' \in {"wait_C2F", "read"} => f2c_n' = 0
      BY <1>a, <1>4 DEF F2C_listen, F2C_accept, F2C_wait_C2F, netVars, fpgaVars, sndVars,
                        AnswerLoops
    <2>2. \A n \in FPGA : conn_f2c'[n] \in {conn_f2c[n], "listen"}
      BY <1>0, <1>4 DEF F2C_listen, F2C_accept, F2C_wait_C2F, netVars
    <2>3. AnswerLoops'
      BY <1>a, <2>1 DEF AnswerLoops, BatchStart
    <2>4. \A n \in FPGA : Received(n)' = Received(n)
      BY <1>0, <2>1 DEF Received, FPGA
    <2> QED BY <1>a, <2>1, <2>2, <2>3, <2>4 DEF AnswerInv, ResultsOf
  <1>5. CASE receive_F2C_batch_result /\ UNCHANGED fpgaVars
    <2>0. ResultsOf(f2c_n) /\ pcF = "read" /\ Received(f2c_n) = finish_F2C_query_id + 1
      BY <1>0, <1>a, <1>5 DEF receive_F2C_batch_result, Received
    <2>1. /\ chan_f2c[f2c_n] # <<>> /\ buf_F2C' = Head(chan_f2c[f2c_n])
          /\ chan_f2c' = [chan_f2c EXCEPT ![f2c_n] = Tail(@)]
          /\ UNCHANGED <<conn_f2c, fpga_finish_F2C_query_id, f2c_batch_id, f2c_query_id,
                         vector_ids_buf, finish_F2C_query_id>>
      BY <1>5, <2>0 DEF receive_F2C_batch_result, F2C_arrived, ResultsOf, fpgaVars, sndVars
    <2>2. /\ f2c_n = num_FPGA - 1 => pcF' = "post_query" /\ f2c_n' = 0
          /\ f2c_n # num_FPGA - 1 => pcF' = "read" /\ f2c_n' = f2c_n + 1
      BY <1>5, <2>1 DEF receive_F2C_batch_result, F2C_arrived, receive_F2C_returns
    <2>3. /\ chan_f2c[f2c_n] \in Seq(ResultType) /\ Len(chan_f2c[f2c_n]) >= 1
          /\ Head(chan_f2c[f2c_n]) = chan_f2c[f2c_n][1]
          /\ Len(Tail(chan_f2c[f2c_n])) = Len(chan_f2c[f2c_n]) - 1
          /\ \A i \in 1 .. Len(chan_f2c[f2c_n]) - 1 :
               Tail(chan_f2c[f2c_n])[i] = chan_f2c[f2c_n][i + 1]
      BY <1>0, <2>1
    <2>4. buf_F2C'.id = finish_F2C_query_id + 1
      BY <1>0, <2>0, <2>1, <2>3 DEF ResultsOf
    <2>5. AnswerLoops'
      BY <1>a, <2>0, <2>1, <2>2, <2>4 DEF AnswerLoops, BatchStart
    <2>6. ASSUME NEW n \in FPGA, n # f2c_n  PROVE ResultsOf(n)'
      <3>1. Received(n)' = Received(n)
        BY <1>0, <2>0, <2>1, <2>2, <2>6 DEF Received, FPGA
      <3> QED BY <1>0, <1>a, <2>1, <2>6, <3>1 DEF ResultsOf
    <2>7. ASSUME NEW n \in FPGA, n = f2c_n  PROVE ResultsOf(n)'
      <3>1. Received(n)' = Received(n) + 1 /\ Received(n) \in Int
        BY <1>0, <2>0, <2>1, <2>2, <2>7 DEF Received, FPGA
      <3>2. /\ chan_f2c'[n] = Tail(chan_f2c[n]) /\ conn_f2c'[n] = conn_f2c[n]
            /\ fpga_finish_F2C_query_id'[n] = fpga_finish_F2C_query_id[n]
        BY <1>0, <2>1, <2>7
      <3>3. /\ Len(chan_f2c[n]) \in Nat /\ Len(chan_f2c'[n]) = Len(chan_f2c[n]) - 1
            /\ \A i \in 1 .. Len(chan_f2c'[n]) : chan_f2c'[n][i] = chan_f2c[n][i + 1]
        BY <2>3, <2>7, <3>2
      <3>4. /\ conn_f2c[n] \notin {"reset", "dead"}
            /\ fpga_finish_F2C_query_id[n] + 1 = Received(n) + Len(chan_f2c[n])
            /\ \A i \in 1 .. Len(chan_f2c[n]) : chan_f2c[n][i].id = Received(n) + i - 1
        BY <2>0, <2>7 DEF ResultsOf
      <3>5. fpga_finish_F2C_query_id'[n] + 1 = Received(n)' + Len(chan_f2c'[n])
        BY <3>1, <3>2, <3>3, <3>4
      <3>6. ASSUME NEW i \in 1 .. Len(chan_f2c'[n])
            PROVE  chan_f2c'[n][i].id = Received(n)' + i - 1
        <4>1. i + 1 \in 1 .. Len(chan_f2c[n]) /\ i \in Int
          BY <3>3
        <4>2. chan_f2c'[n][i].id = Received(n) + (i + 1) - 1
          BY <3>3, <3>4, <4>1
        <4> QED BY <3>1, <4>1, <4>2
      <3> QED BY <3>2, <3>4, <3>5, <3>6 DEF ResultsOf
    <2> QED BY <2>5, <2>6, <2>7 DEF AnswerInv
  <1>6. CASE F2C_post_query /\ UNCHANGED fpgaVars
    <2> DEFINE last == f2c_query_id = batch_size - 1
    <2>1. /\ pcF = "post_query"
          /\ vector_ids_buf' = [vector_ids_buf EXCEPT ![f2c_query_id] = buf_F2C]
          /\ finish_F2C_query_id' = finish_F2C_query_id + 1
          /\ f2c_query_id' = IF last THEN 0 ELSE f2c_query_id + 1
          /\ pcF' = IF last THEN "answer" ELSE "read"
          /\ UNCHANGED <<chan_f2c, conn_f2c, fpga_finish_F2C_query_id, f2c_n, f2c_batch_id, buf_F2C>>
      BY <1>6 DEF F2C_post_query, answer_row, netVars, fpgaVars, sndVars
    <2>2. f2c_n = 0 /\ BatchStart' = BatchStart
      BY <1>a, <2>1 DEF AnswerLoops, BatchStart
    <2>3. buf_F2C.id = BatchStart + f2c_query_id
      BY <1>0, <1>a, <2>1 DEF AnswerLoops
    <2>4. ASSUME NEW q \in Query, pcF' \in {"answer", "post_batch"} \/ q < f2c_query_id'
          PROVE  vector_ids_buf'[q].id = BatchStart + q
      <3>1. q <= f2c_query_id
        BY <1>0, <2>1, <2>4 DEF Query
      <3>2. CASE q = f2c_query_id
        BY <1>0, <2>1, <2>3, <3>2
      <3>3. CASE q < f2c_query_id
        BY <1>0, <1>a, <2>1, <3>3 DEF AnswerLoops
      <3> QED BY <1>0, <3>1, <3>2, <3>3
    <2>5. AnswerLoops'
      <3>1. finish_F2C_query_id + 1 = BatchStart + f2c_query_id
        BY <1>a, <2>1 DEF AnswerLoops
      <3>2. finish_F2C_query_id' + 1 = BatchStart' + (IF last THEN batch_size ELSE f2c_query_id')
        BY <1>0, <2>1, <2>2, <3>1, CoordinatorAssumption DEF Query
      <3>3. /\ pcF' \in {"answer", "post_batch"} <=> last
            /\ pcF' # "read" => f2c_query_id' = 0
            /\ pcF' \notin {"listen", "accept", "post_query"} /\ f2c_n' = 0
        BY <2>1, <2>2
      <3> HIDE DEF last
      <3> QED BY <2>2, <2>4, <3>2, <3>3 DEF AnswerLoops
    <2>6. \A n \in FPGA : Received(n)' = Received(n)
      BY <1>0, <2>1, <2>2 DEF Received, FPGA
    <2> QED BY <1>a, <2>1, <2>5, <2>6 DEF AnswerInv, ResultsOf
  <1>7. CASE (send_C2G_batch_result \/ C2G_sigpipe) /\ UNCHANGED fpgaVars
    <2>1. /\ UNCHANGED <<chan_f2c, conn_f2c, fpga_finish_F2C_query_id, f2c_n, f2c_batch_id,
                         f2c_query_id, buf_F2C, vector_ids_buf, finish_F2C_query_id>>
          /\ pcF = "answer" /\ pcF' \in {"answer", "post_batch"}
      BY <1>7 DEF send_C2G_batch_result, C2G_sigpipe, f2cVars, netVars, fpgaVars, sndVars
    <2>2. AnswerLoops' /\ \A n \in FPGA : Received(n)' = Received(n)
      BY <1>a, <2>1 DEF AnswerLoops, BatchStart, Received
    <2> QED BY <1>a, <2>1, <2>2 DEF AnswerInv, ResultsOf
  <1>8. CASE F2C_post_batch /\ UNCHANGED fpgaVars
    <2>1. /\ pcF = "post_batch" /\ pcF' \in {"read", "done"}
          /\ f2c_batch_id' = f2c_batch_id + 1
          /\ UNCHANGED <<chan_f2c, conn_f2c, fpga_finish_F2C_query_id, f2c_n, f2c_query_id,
                         buf_F2C, vector_ids_buf, finish_F2C_query_id>>
      BY <1>8 DEF F2C_post_batch, netVars, fpgaVars, sndVars
    <2>2. f2c_n = 0 /\ f2c_query_id = 0
      BY <1>a, <2>1 DEF AnswerLoops
    <2>3. BatchStart' = BatchStart + batch_size
      BY <1>0, <2>1 DEF BatchStart
    <2>4. AnswerLoops'
      BY <1>0, <1>a, <2>1, <2>2, <2>3 DEF AnswerLoops
    <2>5. \A n \in FPGA : Received(n)' = Received(n)
      BY <1>0, <2>1, <2>2 DEF Received, FPGA
    <2> QED BY <1>a, <2>1, <2>4, <2>5 DEF AnswerInv, ResultsOf
  \* The simulators.
  <1>9. ASSUME NEW n \in FPGA, FPGANext(n), UNCHANGED <<coordVars, gpuVars>>
        PROVE  AnswerInv'
    <2>0. UNCHANGED f2cVars
      BY <1>9 DEF coordVars
    <2>1. AnswerLoops' /\ \A m \in FPGA : Received(m)' = Received(m)
      BY <1>a, <2>0 DEF AnswerLoops, BatchStart, Received, f2cVars
    <2>2. CASE S_connect(n)
      <3>1. /\ UNCHANGED <<chan_f2c, fpga_finish_F2C_query_id>>
            /\ \A m \in FPGA : conn_f2c'[m] \in {conn_f2c[m], "open"}
        BY <1>0, <2>2 DEF S_connect
      <3> QED BY <1>a, <2>1, <3>1 DEF AnswerInv, ResultsOf
    <2>3. CASE S_send(n)
      <3> DEFINE msg == [fpga |-> n, id |-> fpga_finish_F2C_query_id[n] + 1]
      <3>1. /\ chan_f2c' = [chan_f2c EXCEPT ![n] = Append(@, msg)] /\ UNCHANGED conn_f2c
            /\ fpga_finish_F2C_query_id' = [fpga_finish_F2C_query_id EXCEPT ![n] = @ + 1]
        BY <2>3 DEF S_send
      <3>2. /\ Len(Append(chan_f2c[n], msg)) = Len(chan_f2c[n]) + 1
            /\ Append(chan_f2c[n], msg)[Len(chan_f2c[n]) + 1] = msg
            /\ \A i \in 1 .. Len(chan_f2c[n]) : Append(chan_f2c[n], msg)[i] = chan_f2c[n][i]
            /\ Len(chan_f2c[n]) \in Nat
        BY <1>0
      <3>3. ResultsOf(n) /\ Received(n) \in Int
        BY <1>0, <1>a DEF Received
      <3>4. msg.id = Received(n) + Len(chan_f2c[n])
        BY <3>3 DEF ResultsOf
      <3> HIDE DEF msg
      <3>5. /\ chan_f2c'[n] = Append(chan_f2c[n], msg)
            /\ fpga_finish_F2C_query_id'[n] = fpga_finish_F2C_query_id[n] + 1
        BY <1>0, <3>1
      <3>6. \A i \in 1 .. Len(chan_f2c'[n]) : chan_f2c'[n][i].id = Received(n) + i - 1
        <4>1. ASSUME NEW i \in 1 .. Len(chan_f2c[n]) + 1
              PROVE  Append(chan_f2c[n], msg)[i].id = Received(n) + i - 1
          <5>1. CASE i = Len(chan_f2c[n]) + 1
            BY <3>2, <3>3, <3>4, <5>1
          <5>2. CASE i \in 1 .. Len(chan_f2c[n])
            BY <3>2, <3>3, <5>2 DEF ResultsOf
          <5> QED BY <3>2, <5>1, <5>2
        <4> QED BY <3>2, <3>5, <4>1
      <3>7. ResultsOf(n)'
        <4>1. Received(n)' = Received(n) /\ conn_f2c'[n] = conn_f2c[n]
          BY <2>1, <3>1
        <4>2. fpga_finish_F2C_query_id'[n] + 1 = Received(n) + Len(chan_f2c'[n])
          BY <3>2, <3>3, <3>5 DEF ResultsOf
        <4> QED BY <3>3, <3>6, <4>1, <4>2 DEF ResultsOf
      <3>8. ASSUME NEW m \in FPGA, m # n  PROVE ResultsOf(m)'
        BY <1>0, <1>a, <2>1, <3>1, <3>8 DEF ResultsOf
      <3> QED BY <2>1, <3>7, <3>8 DEF AnswerInv
    <2>4. CASE ~S_connect(n) /\ ~S_send(n)
      BY <1>9, <1>b, <2>0, <2>4 DEF FPGANext, start_C2F_F2C_threads, FPGA_thread_C2F, R_listen,
           R_accept, R_wait_F2C, R_header, R_query, R_fail, FPGA_thread_F2C, S_wait_C2F,
           S_batch, S_result, S_fail, netVars, sndVars, answerVars
    <2> QED BY <2>2, <2>3, <2>4
  <1> QED BY <1>1, <1>2, <1>3, <1>4, <1>5, <1>6, <1>7, <1>8, <1>9
         DEF Next, CoordNext, thread_F2C_C2G

LEMMA AnswersHold ==
  ASSUME MaxResets = 0
  PROVE  Spec => []AnswerInv
<1>1. Init => AnswerInv
  <2> SUFFICES ASSUME Init PROVE AnswerInv
    OBVIOUS
  <2>1. /\ \A n \in FPGA : conn_f2c[n] = "none" /\ chan_f2c[n] = <<>>
                           /\ fpga_finish_F2C_query_id[n] = -1
        /\ pcF = "listen" /\ f2c_n = 0 /\ f2c_query_id = 0 /\ f2c_batch_id = 0
        /\ finish_F2C_query_id = -1
    BY DEF Init, NetInit, CoordInit, FPGAInit
  <2>2. BatchStart = 0 /\ \A n \in FPGA : Received(n) = 0
    BY <2>1 DEF BatchStart, Received
  <2>3. AnswerLoops
    BY <2>1, <2>2 DEF AnswerLoops, Query
  <2>4. \A n \in FPGA : ResultsOf(n)
    BY <2>1, <2>2 DEF ResultsOf
  <2> QED BY <2>3, <2>4 DEF AnswerInv
<1>2. TypeInv /\ AnswerInv /\ [Next]_vars => AnswerInv'
  BY NextAnswers
<1> QED BY <1>1, <1>2, TypeInductive, PTL DEF Spec

\* For any number of FPGAs, batches and queries and any windows: as long as no
\* connection fails, the result in buf_F2C and every row of the answer arrays
\* belong to their own query, although results carry no query number.
THEOREM AnswersMatch ==
  ASSUME MaxResets = 0
  PROVE  Spec => []AnswersMatchQueries
<1>1. AnswerInv => AnswersMatchQueries
  BY DEF AnswerInv, AnswerLoops, AnswersMatchQueries, BatchStart
<1> QED BY <1>1, AnswersHold, PTL

-----------------------------------------------------------------------------
(* The query window.                                                       *)

\* The queries in a stream, by their positions.
QueriesIn(c) == {i \in DOMAIN c : c[i].type = "query"}

LEMMA QueriesFinite ==
  ASSUME NEW c \in Seq(Message)
  PROVE  IsFiniteSet(QueriesIn(c)) /\ Cardinality(QueriesIn(c)) \in Nat
  <1>1. Len(c) \in Int /\ QueriesIn(c) \in SUBSET (1 .. Len(c))
    BY DEF QueriesIn
  <1>2. IsFiniteSet(1 .. Len(c))
    BY <1>1, FS_Interval
  <1> QED BY <1>1, <1>2, FS_Subset, FS_CardinalityType

\* A message sent adds one query, or none.
LEMMA QueriesAppend ==
  ASSUME NEW c \in Seq(Message), NEW msg \in Message
  PROVE  Cardinality(QueriesIn(Append(c, msg))) =
           Cardinality(QueriesIn(c)) + (IF msg.type = "query" THEN 1 ELSE 0)
  <1> DEFINE d == Append(c, msg)
             k == Len(c) + 1
  <1>1. /\ DOMAIN d = 1 .. k /\ DOMAIN c = 1 .. k - 1 /\ d[k] = msg /\ k \in Nat
        /\ \A i \in 1 .. k - 1 : d[i] = c[i]
    OBVIOUS
  <1> HIDE DEF d, k
  <1>2. CASE msg.type = "query"
    <2>1. \A i : i \in QueriesIn(d) <=> i \in QueriesIn(c) \/ i = k
      <3>1. /\ \A i \in 1 .. k : i \in 1 .. k - 1 \/ i = k
            /\ \A i \in 1 .. k - 1 : i \in 1 .. k
            /\ k \in 1 .. k
        <4>1. k \in Nat /\ k >= 1
          BY <1>1 DEF k
        <4> QED BY <4>1
      <3> QED BY <1>1, <1>2, <3>1, Zenon DEF QueriesIn
    <2>2. QueriesIn(d) = QueriesIn(c) \cup {k}
      BY <2>1
    <2>3. k \notin QueriesIn(c)
      BY <1>1 DEF QueriesIn
    <2> QED BY <1>2, <2>2, <2>3, QueriesFinite, FS_AddElement DEF d
  <1>3. CASE msg.type # "query"
    <2>1. QueriesIn(d) = QueriesIn(c)
      BY <1>1, <1>3 DEF QueriesIn
    <2> QED BY <1>3, <2>1, QueriesFinite DEF d
  <1> QED BY <1>2, <1>3

\* A message taken away leaves the others, one place further ahead.
LEMMA QueriesTail ==
  ASSUME NEW c \in Seq(Message), c # <<>>
  PROVE  Cardinality(QueriesIn(c)) =
           Cardinality(QueriesIn(Tail(c))) + (IF Head(c).type = "query" THEN 1 ELSE 0)
  <1> DEFINE d == Tail(c)
             rest == QueriesIn(c) \ {1}
             ahead == [i \in QueriesIn(d) |-> i + 1]
  <1>1. /\ DOMAIN c = 1 .. Len(c) /\ DOMAIN d = 1 .. Len(c) - 1 /\ Head(c) = c[1]
        /\ Len(c) \in Nat /\ Len(c) >= 1 /\ d \in Seq(Message)
        /\ \A i \in 1 .. Len(c) - 1 : d[i] = c[i + 1]
    OBVIOUS
  <1> HIDE DEF d
  <1>2. ahead \in Bijection(QueriesIn(d), rest)
    <2>1. ahead \in [QueriesIn(d) -> rest]
      BY <1>1 DEF QueriesIn
    <2>2. \A i, j \in QueriesIn(d) : ahead[i] = ahead[j] => i = j
      BY <1>1 DEF QueriesIn
    <2>3. \A j \in rest : \E i \in QueriesIn(d) : ahead[i] = j
      <3> SUFFICES ASSUME NEW j \in rest PROVE \E i \in QueriesIn(d) : ahead[i] = j
        OBVIOUS
      <3>1. j - 1 \in QueriesIn(d) /\ ahead[j - 1] = j
        BY <1>1 DEF QueriesIn
      <3> QED BY <3>1
    <2> HIDE DEF ahead
    <2> QED BY <2>1, <2>2, <2>3, Fun_IsInj, Fun_IsSurj DEF Bijection
  <1>3. Cardinality(rest) = Cardinality(QueriesIn(d))
    BY <1>1, <1>2, QueriesFinite, FS_Bijection DEF ExistsBijection
  <1>4. Cardinality(rest) =
          Cardinality(QueriesIn(c)) - (IF Head(c).type = "query" THEN 1 ELSE 0)
    <2>1. 1 \in QueriesIn(c) <=> Head(c).type = "query"
      BY <1>1 DEF QueriesIn
    <2>2. Cardinality(QueriesIn(c)) \in Nat /\ IsFiniteSet(QueriesIn(c))
      BY QueriesFinite
    <2>3. Cardinality(rest) =
            IF 1 \in QueriesIn(c) THEN Cardinality(QueriesIn(c)) - 1 ELSE Cardinality(QueriesIn(c))
      BY <2>2, FS_RemoveElement
    <2> HIDE DEF rest
    <2> QED BY <2>1, <2>2, <2>3
  <1>5. Cardinality(QueriesIn(c)) \in Nat /\ Cardinality(QueriesIn(d)) \in Nat
    BY <1>1, QueriesFinite
  <1> QED BY <1>3, <1>4, <1>5 DEF d
\* The queries the C2F thread has sent to FPGA n.
SentTo(n) == finish_C2F_query_id + 1 + (IF pcC = "send" /\ n < c2f_n THEN 1 ELSE 0)

\* What was sent to FPGA n is what it has received and what is on the way.
SentFor(n) ==
  /\ conn_c2f[n] # "reset"
  /\ SentTo(n) = fpga_finish_C2F_query_id[n] + 1 + Cardinality(QueriesIn(chan_c2f[n]))

SentInv == \A n \in FPGA : SentFor(n)

SentTypes ==
  /\ FrameTypes
  /\ fpga_finish_C2F_query_id \in [FPGA -> Int] /\ finish_C2F_query_id \in Int
  /\ \A n \in FPGA : Cardinality(QueriesIn(chan_c2f[n])) \in Nat /\ SentTo(n) \in Int

LEMMA SentTypesHold == TypeInv => SentTypes
  <1> SUFFICES ASSUME TypeInv PROVE SentTypes
    OBVIOUS
  <1>1. FrameTypes
    BY FrameTypesHold
  <1>2. fpga_finish_C2F_query_id \in [FPGA -> Int] /\ finish_C2F_query_id \in Int
    BY DEF TypeInv, TypeOK, FPGATypeOK, C2FTypeOK
  <1>3. \A n \in FPGA : Cardinality(QueriesIn(chan_c2f[n])) \in Nat
    BY <1>1, QueriesFinite DEF FrameTypes
  <1>4. \A n \in FPGA : SentTo(n) \in Int
    BY <1>2 DEF SentTo
  <1> QED BY <1>1, <1>2, <1>3, <1>4 DEF SentTypes

sentVars == <<chan_c2f, conn_c2f, fpga_finish_C2F_query_id, finish_C2F_query_id, pcC, c2f_n>>

\* Without resets every step keeps the count of the queries sent.
LEMMA NextSent ==
  ASSUME MaxResets = 0, TypeInv, FramingInv, SentInv, [Next]_vars
  PROVE  SentInv'
  <1>0. SentTypes
    BY SentTypesHold
  <1> USE DEF SentTypes, FrameTypes
  <1>a. \A n \in FPGA : SentFor(n) /\ conn_c2f[n] # "reset"
    BY DEF SentInv, SentFor
  <1>b. UNCHANGED sentVars => SentInv'
    BY <1>a DEF sentVars, SentInv, SentFor, SentTo
  \* Steps that touch neither end of a stream.
  <1>1. CASE (thread_G2C \/ thread_F2C_C2G \/ C2F_wait_F2C \/ C2F_wait_G2C \/ C2F_sigpipe)
             /\ UNCHANGED fpgaVars
    <2>1. CASE thread_G2C
      BY <1>b, <1>1, <2>1 DEF thread_G2C, connect_G2C, G2C_wait_C2F, G2C_window,
           receive_G2C_batch_query, G2C_post, c2fVars, netVars, fpgaVars, rcvVars, sentVars
    <2>2. CASE thread_F2C_C2G
      BY <1>b, <1>1, <2>2 DEF thread_F2C_C2G, F2C_listen, F2C_accept, F2C_wait_C2F,
           receive_F2C_batch_result, F2C_post_query, send_C2G_batch_result, C2G_sigpipe,
           F2C_post_batch, c2fVars, netVars, fpgaVars, rcvVars, sentVars
    <2>3. CASE C2F_wait_F2C \/ C2F_wait_G2C \/ C2F_sigpipe
      <3>1. UNCHANGED <<chan_c2f, conn_c2f, fpga_finish_C2F_query_id, finish_C2F_query_id, c2f_n>>
            /\ (pcC' = "send" <=> pcC = "send")
        BY <1>1, <2>3 DEF C2F_wait_F2C, C2F_wait_G2C, C2F_sigpipe, c2fVars, netVars, fpgaVars,
                          rcvVars
      <3> QED BY <1>a, <3>1 DEF SentInv, SentFor, SentTo
    <2> QED BY <1>1, <2>1, <2>2, <2>3
  <1>2. CASE GPU_send \/ GPU_receive \/ Halted \/ UNCHANGED vars
    BY <1>b, <1>2 DEF GPU_send, GPU_receive, Halted, vars, coordVars, c2fVars, netVars,
         fpgaVars, rcvVars, sentVars
  <1>3. CASE Reset
    BY <1>3 DEF Reset, TypeInv, TypeOK, NetTypeOK
  \* The C2F thread.
  <1>4. CASE (C2F_available \/ C2F_read_slot \/ C2F_window) /\ UNCHANGED fpgaVars
    <2>1. UNCHANGED <<chan_c2f, conn_c2f, fpga_finish_C2F_query_id, finish_C2F_query_id, c2f_n>>
          /\ pcC \in {"available", "read_slot", "window"}
      BY <1>4 DEF C2F_available, C2F_read_slot, C2F_window, netVars, fpgaVars, rcvVars
    <2>2. c2f_n = 0
      BY <2>1 DEF FramingInv, LoopStarts
    <2>3. \A n \in FPGA : SentTo(n)' = SentTo(n)
      BY <1>0, <2>1, <2>2 DEF SentTo, FPGA
    <2> QED BY <1>a, <2>1, <2>3 DEF SentInv, SentFor
  <1>5. CASE connect_C2F /\ UNCHANGED fpgaVars
    <2>1. /\ UNCHANGED <<chan_c2f, fpga_finish_C2F_query_id, finish_C2F_query_id>>
          /\ pcC = "connect" /\ pcC' \in {"connect", "header"}
          /\ \A n \in FPGA : conn_c2f'[n] \in {conn_c2f[n], "open", "dead"}
      BY <1>0, <1>5 DEF connect_C2F, fpgaVars, rcvVars
    <2>2. \A n \in FPGA : SentTo(n)' = SentTo(n)
      BY <2>1 DEF SentTo
    <2> QED BY <1>a, <2>1, <2>2 DEF SentInv, SentFor
  <1>6. CASE send_C2F_header /\ UNCHANGED fpgaVars
    <2> DEFINE msg == [type |-> "header", batch_size |-> batch_size, terminate |-> terminate]
    <2>1. /\ pcC = "header" /\ pcC' # "send" /\ send_C2F(msg)
          /\ UNCHANGED <<fpga_finish_C2F_query_id, finish_C2F_query_id>>
      BY <1>6 DEF send_C2F_header, fpgaVars, rcvVars
    <2>2. msg \in Message /\ msg.type = "header"
      BY DEF Message, HeaderType, terminate
    <2> HIDE DEF msg
    <2>3. /\ chan_c2f' = [chan_c2f EXCEPT ![c2f_n] = Append(chan_c2f[c2f_n], msg)]
          /\ UNCHANGED conn_c2f
      BY <1>0, <1>a, <2>1 DEF send_C2F
    <2>4. \A n \in FPGA : Cardinality(QueriesIn(chan_c2f'[n])) = Cardinality(QueriesIn(chan_c2f[n]))
      <3> SUFFICES ASSUME NEW n \in FPGA
                   PROVE  Cardinality(QueriesIn(chan_c2f'[n])) = Cardinality(QueriesIn(chan_c2f[n]))
        OBVIOUS
      <3>1. CASE n = c2f_n
        <4>1. Cardinality(QueriesIn(Append(chan_c2f[n], msg))) = Cardinality(QueriesIn(chan_c2f[n])) + 0
          BY <1>0, <2>2, QueriesAppend
        <4> QED BY <1>0, <2>3, <3>1, <4>1
      <3>2. CASE n # c2f_n
        BY <1>0, <2>3, <3>2
      <3> QED BY <3>1, <3>2
    <2>5. \A n \in FPGA : SentTo(n)' = SentTo(n)
      BY <2>1 DEF SentTo
    <2> QED BY <1>a, <2>1, <2>3, <2>4, <2>5 DEF SentInv, SentFor
  <1>7. CASE send_C2F_query /\ UNCHANGED fpgaVars
    <2> DEFINE msg == [type |-> "query", batch |-> G2C_conv_buf, query |-> c2f_query_id]
    <2>1. /\ pcC = "send" /\ send_C2F(msg)
          /\ UNCHANGED fpga_finish_C2F_query_id
      BY <1>7 DEF send_C2F_query, fpgaVars, rcvVars
    <2>2. msg \in Message /\ msg.type = "query"
      BY <1>0 DEF TypeInv, TypeOK, C2FTypeOK, Message, QueryType
    <2>3. /\ chan_c2f' = [chan_c2f EXCEPT ![c2f_n] = Append(chan_c2f[c2f_n], msg)]
          /\ UNCHANGED conn_c2f
      <3> HIDE DEF msg
      <3> QED BY <1>0, <1>a, <2>1 DEF send_C2F
    <2>4. /\ c2f_n = num_FPGA - 1 =>
               /\ c2f_n' = 0 /\ finish_C2F_query_id' = finish_C2F_query_id + 1 /\ pcC' # "send"
          /\ c2f_n # num_FPGA - 1 =>
               c2f_n' = c2f_n + 1 /\ UNCHANGED <<finish_C2F_query_id, pcC>>
      BY <1>0, <1>7, <1>a DEF send_C2F_query, send_C2F_returns
    <2> HIDE DEF msg
    <2>5. ASSUME NEW n \in FPGA, n # c2f_n  PROVE SentFor(n)'
      <3>1. SentTo(n)' = SentTo(n)
        <4>1. n \in Nat /\ n <= num_FPGA - 1 /\ c2f_n \in Nat /\ c2f_n <= num_FPGA - 1
          BY <1>0 DEF FPGA
        <4>2. CASE c2f_n = num_FPGA - 1
          BY <1>0, <2>1, <2>4, <2>5, <4>1, <4>2 DEF SentTo
        <4>3. CASE c2f_n # num_FPGA - 1
          BY <1>0, <2>1, <2>4, <2>5, <4>1, <4>3 DEF SentTo
        <4> QED BY <4>2, <4>3
      <3>2. chan_c2f'[n] = chan_c2f[n]
        BY <1>0, <2>3, <2>5
      <3> QED BY <1>a, <2>1, <2>3, <3>1, <3>2 DEF SentFor
    <2>6. ASSUME NEW n \in FPGA, n = c2f_n  PROVE SentFor(n)'
      <3>1. SentTo(n)' = SentTo(n) + 1
        <4>1. n \in Nat /\ SentTo(n) = finish_C2F_query_id + 1
          BY <1>0, <2>1, <2>6 DEF SentTo
        <4>2. CASE c2f_n = num_FPGA - 1
          BY <1>0, <2>4, <4>1, <4>2 DEF SentTo
        <4>3. CASE c2f_n # num_FPGA - 1
          BY <1>0, <2>1, <2>4, <2>6, <4>1, <4>3 DEF SentTo
        <4> QED BY <4>2, <4>3
      <3>2. Cardinality(QueriesIn(Append(chan_c2f[n], msg))) = Cardinality(QueriesIn(chan_c2f[n])) + 1
        BY <1>0, <2>2, QueriesAppend
      <3>3. chan_c2f'[n] = Append(chan_c2f[n], msg)
        BY <1>0, <2>3, <2>6
      <3> QED BY <1>0, <1>a, <2>1, <2>3, <3>1, <3>2, <3>3 DEF SentFor
    <2> QED BY <2>5, <2>6 DEF SentInv
  \* The simulators.
  <1>8. ASSUME NEW n \in FPGA, FPGANext(n), UNCHANGED <<coordVars, gpuVars>>
        PROVE  SentInv'
    <2>0. UNCHANGED <<finish_C2F_query_id, pcC, c2f_n>>
      BY <1>8 DEF coordVars, c2fVars
    <2>a. \A m \in FPGA : SentTo(m)' = SentTo(m)
      BY <2>0 DEF SentTo
    <2>1. CASE R_listen(n)
      <3>1. UNCHANGED <<chan_c2f, fpga_finish_C2F_query_id>>
            /\ \A m \in FPGA : conn_c2f'[m] \in {conn_c2f[m], "listen"}
        BY <1>0, <2>1 DEF R_listen
      <3> QED BY <1>a, <2>a, <3>1 DEF SentInv, SentFor
    <2>2. CASE R_header(n) \/ R_query(n)
      <3> DEFINE one == IF Head(chan_c2f[n]).type = "query" THEN 1 ELSE 0
      <3>1. /\ chan_c2f[n] # <<>> /\ chan_c2f' = [chan_c2f EXCEPT ![n] = Tail(@)]
            /\ UNCHANGED conn_c2f
        BY <2>2 DEF R_header, R_query
      <3>2. fpga_finish_C2F_query_id' =
              [fpga_finish_C2F_query_id EXCEPT ![n] = fpga_finish_C2F_query_id[n] + one]
        <4>1. CASE R_header(n)
          <5>1. one = 0 /\ UNCHANGED fpga_finish_C2F_query_id
            BY <4>1 DEF R_header
          <5> HIDE DEF one
          <5> QED BY <1>0, <5>1
        <4>2. CASE R_query(n)
          BY <4>2 DEF R_query
        <4> QED BY <2>2, <4>1, <4>2
      <3>3. Cardinality(QueriesIn(chan_c2f[n])) = Cardinality(QueriesIn(Tail(chan_c2f[n]))) + one
        BY <1>0, <3>1, QueriesTail
      <3> HIDE DEF one
      <3>4. Cardinality(QueriesIn(Tail(chan_c2f[n]))) \in Nat /\ one \in Int
        <4>1. Tail(chan_c2f[n]) \in Seq(Message)
          BY <1>0, <3>1
        <4>2. one \in Int
          BY DEF one
        <4> QED BY <4>1, <4>2, QueriesFinite
      <3>5. ASSUME NEW m \in FPGA, m # n  PROVE SentFor(m)'
        BY <1>0, <1>a, <2>a, <3>1, <3>2, <3>5 DEF SentFor
      <3>6. SentFor(n)'
        <4>1. /\ chan_c2f'[n] = Tail(chan_c2f[n]) /\ conn_c2f'[n] # "reset"
              /\ fpga_finish_C2F_query_id'[n] = fpga_finish_C2F_query_id[n] + one
          BY <1>0, <1>a, <3>1, <3>2
        <4>2. SentTo(n) = fpga_finish_C2F_query_id[n] + 1 + Cardinality(QueriesIn(chan_c2f[n]))
          BY <1>a DEF SentFor
        <4>3. fpga_finish_C2F_query_id[n] \in Int
          BY <1>0
        <4>4. SentTo(n) = fpga_finish_C2F_query_id'[n] + 1 + Cardinality(QueriesIn(chan_c2f'[n]))
          BY <3>3, <3>4, <4>1, <4>2, <4>3
        <4> QED BY <2>a, <4>1, <4>4 DEF SentFor
      <3> QED BY <3>5, <3>6 DEF SentInv
    <2>3. CASE ~R_listen(n) /\ ~R_header(n) /\ ~R_query(n)
      BY <1>8, <1>b, <2>0, <2>3 DEF FPGANext, start_C2F_F2C_threads, FPGA_thread_C2F, R_accept,
           R_wait_F2C, R_fail, FPGA_thread_F2C, S_connect, S_wait_C2F, S_batch, S_result, S_send,
           S_fail, netVars, rcvVars, sentVars
    <2> QED BY <2>1, <2>2, <2>3
  <1> QED BY <1>1, <1>2, <1>3, <1>4, <1>5, <1>6, <1>7, <1>8
         DEF Next, CoordNext, thread_C2F

\* Without resets the count of the queries sent is an invariant.
LEMMA SentHolds ==
  ASSUME MaxResets = 0
  PROVE  Spec => []SentInv
  <1>1. Init => SentInv
    <2> SUFFICES ASSUME Init, NEW n \in FPGA PROVE SentFor(n)
      BY DEF SentInv
    <2>1. /\ conn_c2f[n] = "none" /\ chan_c2f[n] = <<>> /\ fpga_finish_C2F_query_id[n] = -1
          /\ pcC = "wait_F2C" /\ finish_C2F_query_id = -1
      BY DEF Init, NetInit, CoordInit, FPGAInit
    <2>2. QueriesIn(chan_c2f[n]) = {}
      BY <2>1 DEF QueriesIn
    <2> QED BY <2>1, <2>2, FS_EmptySet DEF SentFor, SentTo
  <1>2. TypeInv /\ FramingInv /\ SentInv /\ [Next]_vars => SentInv'
    BY NextSent
  <1>3. Spec => []FramingInv
    BY FramingHolds
  <1> QED BY <1>1, <1>2, <1>3, TypeInductive, PTL DEF Spec

\* For any number of FPGAs, batches and queries: as long as no connection
\* fails, query_window_size bounds the queries between the C2F and the
\* F2C_C2G thread through each FPGA: in its streams and inside the simulator.
THEOREM WithinWindow ==
  ASSUME MaxResets = 0
  PROVE  Spec => []InFlightWithinWindow
<1>1. TypeInv /\ AnswerInv /\ SentInv /\ WindowAccounting => InFlightWithinWindow
  <2> SUFFICES ASSUME TypeInv, AnswerInv, SentInv, WindowAccounting, NEW n \in FPGA
               PROVE  InFlight(n) <= query_window_size
    BY DEF InFlightWithinWindow
  <2>1. SentTypes /\ AnswerTypes
    BY SentTypesHold, AnswerTypesHold
  <2>2. SentTo(n) <= QueriesBegun
    BY <2>1 DEF SentTypes, SentTo, QueriesBegun
  <2>3. QueriesBegun - (finish_F2C_query_id + 1) <= query_window_size
        /\ QueriesBegun \in Int
    BY <2>1 DEF WindowAccounting, QueriesBegun, SentTypes, AnswerTypes, TypeInv, TypeOK,
                SharedTypeOK
  <2>4. Received(n) >= finish_F2C_query_id + 1 /\ Received(n) \in Int
    BY <2>1 DEF Received, AnswerTypes
  <2>5. fpga_finish_F2C_query_id[n] + 1 = Received(n) + Len(chan_f2c[n])
    BY DEF AnswerInv, ResultsOf
  <2>6. SentTo(n) = fpga_finish_C2F_query_id[n] + 1 + Cardinality(QueriesIn(chan_c2f[n]))
    BY DEF SentInv, SentFor
  <2>7. /\ fpga_finish_F2C_query_id[n] \in Int /\ Len(chan_f2c[n]) \in Nat
        /\ fpga_finish_C2F_query_id[n] \in Int /\ SentTo(n) \in Int
        /\ Cardinality(QueriesIn(chan_c2f[n])) \in Nat /\ finish_F2C_query_id \in Int
    BY <2>1 DEF SentTypes, AnswerTypes
  <2>8. InFlight(n) = Cardinality(QueriesIn(chan_c2f[n]))
                      + (fpga_finish_C2F_query_id[n] - fpga_finish_F2C_query_id[n])
                      + Len(chan_f2c[n])
    BY DEF InFlight, QueriesIn
  <2>9. InFlight(n) = SentTo(n) - Received(n)
    <3> DEFINE waiting == Cardinality(QueriesIn(chan_c2f[n]))
               back == Len(chan_f2c[n])
    <3>1. waiting \in Int /\ back \in Int
      BY <2>7
    <3> HIDE DEF waiting, back
    <3>2. InFlight(n) = waiting + (fpga_finish_C2F_query_id[n] - fpga_finish_F2C_query_id[n]) + back
      BY <2>8 DEF waiting, back
    <3>3. /\ SentTo(n) = fpga_finish_C2F_query_id[n] + 1 + waiting
          /\ fpga_finish_F2C_query_id[n] + 1 = Received(n) + back
      BY <2>5, <2>6 DEF waiting, back
    <3>4. \A received, sent, w, b, s, r \in Int :
            s = received + 1 + w /\ sent + 1 = r + b => w + (received - sent) + b = s - r
      OBVIOUS
    <3>5. /\ fpga_finish_C2F_query_id[n] \in Int /\ fpga_finish_F2C_query_id[n] \in Int
          /\ SentTo(n) \in Int /\ Received(n) \in Int
      BY <2>4, <2>7
    <3> QED BY <3>1, <3>2, <3>3, <3>4, <3>5
  <2> QED BY <2>2, <2>3, <2>4, <2>7, <2>9, CoordinatorAssumption
<1>2. Spec => []AnswerInv
  BY AnswersHold
<1>3. Spec => []SentInv
  BY SentHolds
<1> QED BY <1>1, <1>2, <1>3, TypeInductive, Accounting, PTL
-----------------------------------------------------------------------------
(* Answers lost when connections fail.                                     *)

Dead == {m \in FPGA : conn_f2c[m] = "dead"}

LEMMA DeadFinite == IsFiniteSet(Dead) /\ Cardinality(Dead) \in Nat
  <1>1. IsFiniteSet(FPGA)
    BY FS_Interval DEF FPGA
  <1> QED BY <1>1, FS_Subset, FS_CardinalityType DEF Dead

\* The results read from FPGA n: those it sent and that are not on the way.
ReadFrom(n) == fpga_finish_F2C_query_id[n] + 1 - Len(chan_f2c[n])

\* As long as the connection of FPGA n is up, the F2C_C2G thread has passed
\* over its result once for every connection that died.
LostFrom(n) ==
  conn_f2c[n] \notin {"reset", "dead"} => Received(n) <= ReadFrom(n) + Cardinality(Dead)

\* While the F2C_C2G thread sets up its ports, those it has not come to are
\* untouched.
NotYetListening ==
  pcF \in {"listen", "accept"} =>
    \A n \in FPGA : n > f2c_n \/ (n = f2c_n /\ pcF = "listen") => conn_f2c[n] = "none"

LostInv ==
  /\ pcF \notin {"listen", "accept", "read"} => f2c_n = 0
  /\ NotYetListening
  /\ \A n \in FPGA : LostFrom(n)

\* Every step keeps the bound on lost answers, whatever it returns.
LEMMA NextLost ==
  ASSUME TypeInv, LostInv, [Next]_vars
  PROVE  LostInv'
  <1>0. AnswerTypes
    BY AnswerTypesHold
  <1> USE DEF AnswerTypes
  <1>a. \A n \in FPGA : /\ LostFrom(n) /\ Received(n) \in Int /\ ReadFrom(n) \in Int
    BY <1>0 DEF LostInv, Received, ReadFrom
  <1>b. UNCHANGED answerVars => LostInv'
    BY <1>a DEF answerVars, f2cVars, LostInv, NotYetListening, LostFrom, Received, ReadFrom, Dead
  <1>1. CASE (thread_G2C \/ thread_C2F) /\ UNCHANGED fpgaVars
    BY <1>b, <1>1 DEF thread_G2C, connect_G2C, G2C_wait_C2F, G2C_window, receive_G2C_batch_query,
         G2C_post, thread_C2F, C2F_wait_F2C, C2F_wait_G2C, connect_C2F, send_C2F_header,
         C2F_available, C2F_read_slot, C2F_window, send_C2F_query, C2F_sigpipe, netVars,
         fpgaVars, sndVars, answerVars
  <1>2. CASE GPU_send \/ GPU_receive \/ Halted \/ UNCHANGED vars
    BY <1>b, <1>2 DEF GPU_send, GPU_receive, Halted, vars, coordVars, netVars, fpgaVars, sndVars,
         answerVars
  \* The F2C_C2G thread.
  <1>3. CASE (F2C_listen \/ F2C_accept \/ F2C_wait_C2F) /\ UNCHANGED fpgaVars
    <2>1. /\ UNCHANGED <<chan_f2c, fpga_finish_F2C_query_id, finish_F2C_query_id>>
          /\ pcF \in {"listen", "accept", "wait_C2F"}
          /\ pcF' \in {"listen", "accept", "wait_C2F", "read"}
          /\ pcF' \in {"wait_C2F", "read"} => f2c_n' = 0
      BY <1>3 DEF F2C_listen, F2C_accept, F2C_wait_C2F, netVars, fpgaVars, sndVars, LostInv
    <2>2. \A n \in FPGA : \/ conn_f2c'[n] = conn_f2c[n]
                          \/ conn_f2c[n] = "none" /\ conn_f2c'[n] = "listen"
      <3>1. CASE F2C_listen
        <4>1. /\ pcF = "listen" /\ conn_f2c[f2c_n] = "none"
              /\ conn_f2c' = [conn_f2c EXCEPT ![f2c_n] = "listen"]
          BY <1>0, <3>1 DEF F2C_listen, LostInv, NotYetListening
        <4>2. conn_f2c \in [FPGA -> ConnState] /\ f2c_n \in FPGA
          BY <1>0
        <4> QED BY ONLY <4>1, <4>2
      <3>2. CASE F2C_accept \/ F2C_wait_C2F
        <4>1. UNCHANGED conn_f2c
          BY <3>2 DEF F2C_accept, F2C_wait_C2F, netVars
        <4> QED BY ONLY <4>1
      <3> QED BY <1>3, <3>1, <3>2
    <2>3. \A n \in FPGA : Received(n)' = Received(n)
      <3> SUFFICES ASSUME NEW n \in FPGA PROVE Received(n)' = Received(n)
        OBVIOUS
      <3>1. pcF' # "post_query" /\ ~(pcF' = "read" /\ n < f2c_n') /\ pcF \notin {"post_query", "read"}
        BY <1>0, <2>1
      <3> QED BY <2>1, <3>1 DEF Received
    <2>4. \A n \in FPGA : ReadFrom(n)' = ReadFrom(n)
      BY <2>1 DEF ReadFrom
    <2>5. UNCHANGED Dead
      BY <2>2 DEF Dead
    <2>6. NotYetListening'
      BY <1>0, <1>3 DEF F2C_listen, F2C_accept, F2C_wait_C2F, netVars, LostInv, NotYetListening
    <2>7. \A n \in FPGA : LostFrom(n)'
      BY <1>a, <2>2, <2>3, <2>4, <2>5 DEF LostFrom
    <2> QED BY <2>1, <2>6, <2>7 DEF LostInv
  <1>4. CASE receive_F2C_batch_result /\ F2C_arrived /\ UNCHANGED fpgaVars
    <2>1. /\ chan_f2c[f2c_n] # <<>> /\ pcF = "read"
          /\ chan_f2c' = [chan_f2c EXCEPT ![f2c_n] = Tail(@)]
          /\ UNCHANGED <<conn_f2c, fpga_finish_F2C_query_id, finish_F2C_query_id>>
          /\ f2c_n = num_FPGA - 1 => pcF' = "post_query" /\ f2c_n' = 0
          /\ f2c_n # num_FPGA - 1 => pcF' = "read" /\ f2c_n' = f2c_n + 1
      BY <1>4 DEF receive_F2C_batch_result, F2C_arrived, receive_F2C_returns, fpgaVars, sndVars
    <2>2. UNCHANGED Dead
      BY <2>1 DEF Dead
    <2>3. ASSUME NEW n \in FPGA, n # f2c_n  PROVE LostFrom(n)'
      <3>1. Received(n)' = Received(n)
        BY <1>0, <2>1, <2>3 DEF Received, FPGA
      <3> QED BY <1>0, <1>a, <2>1, <2>2, <2>3, <3>1 DEF LostFrom, ReadFrom
    <2>4. ASSUME NEW n \in FPGA, n = f2c_n  PROVE LostFrom(n)'
      <3>1. Received(n)' = Received(n) + 1
        BY <1>0, <2>1, <2>4 DEF Received, FPGA
      <3>2. chan_f2c'[n] = Tail(chan_f2c[n]) /\ Len(Tail(chan_f2c[n])) = Len(chan_f2c[n]) - 1
        BY <1>0, <2>1, <2>4
      <3>3. Len(chan_f2c[n]) \in Nat /\ fpga_finish_F2C_query_id[n] \in Int
        BY <1>0
      <3>4. ReadFrom(n)' = ReadFrom(n) + 1
        <4> DEFINE rest == Tail(chan_f2c[n])
        <4>1. chan_f2c'[n] = rest /\ Len(rest) = Len(chan_f2c[n]) - 1
          BY <3>2
        <4>2. fpga_finish_F2C_query_id'[n] = fpga_finish_F2C_query_id[n]
          BY <2>1
        <4>3. Len(chan_f2c'[n]) = Len(chan_f2c[n]) - 1
          BY <4>1
        <4> QED BY <3>3, <4>2, <4>3 DEF ReadFrom
      <3> QED BY <1>a, <2>1, <2>2, <3>1, <3>4, DeadFinite DEF LostFrom
    <2> QED BY <2>1, <2>3, <2>4 DEF LostInv, NotYetListening
  <1>5. CASE receive_F2C_batch_result /\ ~F2C_arrived /\ UNCHANGED fpgaVars
    <2>1. /\ pcF = "read" /\ conn_f2c[f2c_n] = "reset"
          /\ conn_f2c' = [conn_f2c EXCEPT ![f2c_n] = "dead"]
          /\ UNCHANGED <<chan_f2c, fpga_finish_F2C_query_id, finish_F2C_query_id>>
          /\ pcF' = "post_query" /\ f2c_n' = 0
      BY <1>5 DEF receive_F2C_batch_result, F2C_arrived, receive_F2C_returns, fpgaVars, sndVars
    <2>2. Dead' = Dead \cup {f2c_n} /\ f2c_n \notin Dead
      BY <1>0, <2>1 DEF Dead
    <2>3. Cardinality(Dead)' = Cardinality(Dead) + 1
      BY <2>2, DeadFinite, FS_AddElement
    <2>4. ASSUME NEW n \in FPGA  PROVE LostFrom(n)'
      <3>1. Received(n)' <= Received(n) + 1 /\ Received(n)' \in Int
        BY <1>0, <2>1 DEF Received
      <3>2. conn_f2c'[n] \notin {"reset", "dead"} => conn_f2c[n] \notin {"reset", "dead"}
        BY <1>0, <2>1
      <3>3. ReadFrom(n)' = ReadFrom(n)
        BY <2>1 DEF ReadFrom
      <3> QED BY <1>a, <2>3, <3>1, <3>2, <3>3, DeadFinite DEF LostFrom
    <2> QED BY <2>1, <2>4 DEF LostInv, NotYetListening
  <1>6. CASE (F2C_post_query \/ send_C2G_batch_result \/ C2G_sigpipe \/ F2C_post_batch)
             /\ UNCHANGED fpgaVars
    <2>1. UNCHANGED <<chan_f2c, conn_f2c, fpga_finish_F2C_query_id, f2c_n>>
      BY <1>6 DEF F2C_post_query, send_C2G_batch_result, C2G_sigpipe, F2C_post_batch, f2cVars,
           netVars, fpgaVars, sndVars
    <2>2. f2c_n = 0 /\ pcF \notin {"listen", "accept", "read"}
      BY <1>6 DEF LostInv, F2C_post_query, send_C2G_batch_result, C2G_sigpipe, F2C_post_batch
    <2>3. /\ pcF = "post_query" => pcF' # "post_query" /\ finish_F2C_query_id' = finish_F2C_query_id + 1
          /\ pcF # "post_query" => pcF' # "post_query" /\ UNCHANGED finish_F2C_query_id
      BY <1>6 DEF F2C_post_query, send_C2G_batch_result, C2G_sigpipe, F2C_post_batch, f2cVars
    <2>4. \A n \in FPGA : Received(n)' = Received(n)
      BY <1>0, <2>1, <2>2, <2>3 DEF Received, FPGA
    <2>5. pcF' \notin {"listen", "accept", "read"} \/ (pcF' = "read" /\ f2c_n' = 0)
      BY <1>6, <2>1, <2>2 DEF F2C_post_query, send_C2G_batch_result, C2G_sigpipe, F2C_post_batch,
                              f2cVars
    <2> QED BY <1>a, <2>1, <2>2, <2>4, <2>5 DEF LostInv, NotYetListening, LostFrom, ReadFrom, Dead
  \* The simulators.
  <1>7. ASSUME NEW n \in FPGA, FPGANext(n), UNCHANGED <<coordVars, gpuVars>>
        PROVE  LostInv'
    <2>0. UNCHANGED f2cVars
      BY <1>7 DEF coordVars
    <2>1. /\ pcF' \notin {"listen", "accept", "read"} => f2c_n' = 0
          /\ \A m \in FPGA : Received(m)' = Received(m)
      BY <2>0 DEF LostInv, Received, f2cVars
    <2>2. CASE S_connect(n)
      <3>1. /\ UNCHANGED <<chan_f2c, fpga_finish_F2C_query_id>>
            /\ \A m \in FPGA : \/ conn_f2c'[m] = conn_f2c[m]
                               \/ conn_f2c[m] = "listen" /\ conn_f2c'[m] = "open"
        BY <1>0, <2>2 DEF S_connect
      <3>2. UNCHANGED Dead
        BY <3>1 DEF Dead
      <3>3. NotYetListening'
        BY <2>0, <3>1 DEF LostInv, NotYetListening, f2cVars
      <3> QED BY <1>a, <2>1, <3>1, <3>2, <3>3 DEF LostInv, LostFrom, ReadFrom
    <2>3. CASE S_send(n)
      <3> DEFINE msg == [fpga |-> n, id |-> fpga_finish_F2C_query_id[n] + 1]
      <3>1. /\ chan_f2c' = [chan_f2c EXCEPT ![n] = Append(@, msg)] /\ UNCHANGED conn_f2c
            /\ fpga_finish_F2C_query_id' = [fpga_finish_F2C_query_id EXCEPT ![n] = @ + 1]
        BY <2>3 DEF S_send
      <3> HIDE DEF msg
      <3>2. Len(Append(chan_f2c[n], msg)) = Len(chan_f2c[n]) + 1 /\ Len(chan_f2c[n]) \in Nat
        BY <1>0
      <3>3. \A m \in FPGA : ReadFrom(m)' = ReadFrom(m)
        <4>1. ReadFrom(n)' = ReadFrom(n)
          BY <1>0, <3>1, <3>2 DEF ReadFrom
        <4>2. \A m \in FPGA : m # n => ReadFrom(m)' = ReadFrom(m)
          BY <1>0, <3>1 DEF ReadFrom
        <4> QED BY <4>1, <4>2
      <3>4. NotYetListening'
        BY <2>0, <3>1 DEF LostInv, NotYetListening, f2cVars
      <3> QED BY <1>a, <2>1, <3>1, <3>3, <3>4 DEF LostInv, LostFrom, Dead
    <2>4. CASE ~S_connect(n) /\ ~S_send(n)
      BY <1>7, <1>b, <2>0, <2>4 DEF FPGANext, start_C2F_F2C_threads, FPGA_thread_C2F, R_listen,
           R_accept, R_wait_F2C, R_header, R_query, R_fail, FPGA_thread_F2C, S_wait_C2F,
           S_batch, S_result, S_fail, netVars, sndVars, answerVars
    <2> QED BY <2>2, <2>3, <2>4
  \* Resets.
  <1>8. CASE Reset /\ UNCHANGED <<coordVars, fpgaVars, gpuVars>>
    <2>0. UNCHANGED <<f2cVars, fpga_finish_F2C_query_id>>
      BY <1>8 DEF coordVars, fpgaVars, sndVars
    <2>1. CASE UNCHANGED <<chan_f2c, conn_f2c>>
      BY <1>b, <2>0, <2>1 DEF answerVars
    <2>2. ASSUME NEW n \in FPGA, ResetF2C(n)  PROVE LostInv'
      <3>1. PICK s \in Prefix(chan_f2c[n]) : chan_f2c' = [chan_f2c EXCEPT ![n] = s]
        BY <2>2 DEF ResetF2C
      <3>2. conn_f2c[n] = "open" /\ conn_f2c' = [conn_f2c EXCEPT ![n] = "reset"]
        BY <2>2 DEF ResetF2C
      <3>3. UNCHANGED Dead /\ \A m \in FPGA : Received(m)' = Received(m)
        BY <1>0, <2>0, <3>2 DEF Dead, Received, f2cVars
      <3>4. \A m \in FPGA : m # n => ReadFrom(m)' = ReadFrom(m)
        BY <1>0, <2>0, <3>1 DEF ReadFrom
      <3>5. NotYetListening'
        BY <1>0, <2>0, <3>2 DEF LostInv, NotYetListening, f2cVars
      <3> QED BY <1>0, <1>a, <2>0, <3>2, <3>3, <3>4, <3>5 DEF LostInv, LostFrom, f2cVars
    <2> QED BY <1>8, <2>1, <2>2 DEF Reset, ResetC2F, ResetG2C
  <1> QED BY <1>1, <1>2, <1>3, <1>4, <1>5, <1>6, <1>7, <1>8
         DEF Next, CoordNext, thread_F2C_C2G

\* Whatever fails.
LEMMA LostHolds == Spec => []LostInv
<1>1. Init => LostInv
  <2> SUFFICES ASSUME Init PROVE LostInv
    OBVIOUS
  <2>1. \A n \in FPGA : Received(n) = 0 /\ ReadFrom(n) = 0
    BY DEF Init, NetInit, CoordInit, FPGAInit, Received, ReadFrom
  <2>2. NotYetListening
    BY DEF Init, NetInit, NotYetListening
  <2> QED BY <2>1, <2>2, DeadFinite DEF Init, CoordInit, LostInv, LostFrom
<1>2. TypeInv /\ LostInv /\ [Next]_vars => LostInv'
  BY NextLost
<1> QED BY <1>1, <1>2, TypeInductive, PTL DEF Spec

\* For any number of FPGAs, batches and queries, and whatever send(), connect()
\* and read() return: the queries counted as finished exceed the results read
\* from an FPGA whose connection is up by at most the connections that died.
THEOREM LostBounded == Spec => []LostAnswersBounded
<1>1. TypeInv /\ LostInv => LostAnswersBounded
  <2> SUFFICES ASSUME TypeInv, LostInv, NEW n \in FPGA, conn_f2c[n] = "open"
               PROVE  finish_F2C_query_id - (fpga_finish_F2C_query_id[n] - Len(chan_f2c[n]))
                        <= Cardinality(Dead)
    BY DEF LostAnswersBounded, Dead
  <2>1. /\ finish_F2C_query_id \in Int /\ fpga_finish_F2C_query_id[n] \in Int
        /\ Len(chan_f2c[n]) \in Int
    BY AnswerTypesHold DEF AnswerTypes
  <2>2. Received(n) >= finish_F2C_query_id + 1 /\ Received(n) \in Int
    BY <2>1 DEF Received
  <2>3. Received(n) <= ReadFrom(n) + Cardinality(Dead)
    BY DEF LostInv, LostFrom
  <2> DEFINE sent == fpga_finish_F2C_query_id[n]
             back == Len(chan_f2c[n])
             lost == Cardinality(Dead)
  <2>4. ReadFrom(n) = sent + 1 - back /\ sent \in Int /\ back \in Int /\ lost \in Int
    BY <2>1, DeadFinite DEF ReadFrom
  <2>5. Received(n) <= sent + 1 - back + lost
    BY <2>3, <2>4
  <2> HIDE DEF sent, back, lost
  <2>6. finish_F2C_query_id - (sent - back) <= lost
    BY <2>1, <2>2, <2>4, <2>5
  <2> QED BY <2>6 DEF sent, back, lost
<1> QED BY <1>1, TypeInductive, LostHolds, PTL

-----------------------------------------------------------------------------
(* Queries sent, received and answered, whatever fails.                    *)

\* A simulator sends no more results than it has received queries.
ResultsBacked ==
  \A n \in FPGA :
    fpga_finish_F2C_query_id[n] + (IF pcS[n] = "send" THEN 1 ELSE 0)
      + sem_available_results[n] <= fpga_finish_C2F_query_id[n]

BackedTypes ==
  /\ fpga_finish_C2F_query_id \in [FPGA -> Int] /\ fpga_finish_F2C_query_id \in [FPGA -> Int]
  /\ sem_available_results \in [FPGA -> Nat] /\ DOMAIN pcS = FPGA

\* For any resets.
LEMMA BackedHolds == Spec => []ResultsBacked
  <1>1. Init => ResultsBacked
    BY DEF Init, FPGAInit, ResultsBacked
  <1>2. TypeInv /\ ResultsBacked /\ [Next]_vars => ResultsBacked'
    <2> SUFFICES ASSUME TypeInv, ResultsBacked, [Next]_vars  PROVE ResultsBacked'
      OBVIOUS
    <2>0. BackedTypes
      BY DEF TypeInv, TypeOK, FPGATypeOK, BackedTypes
    <2> USE DEF BackedTypes
    <2>1. CASE UNCHANGED fpgaVars
      BY <2>1 DEF fpgaVars, rcvVars, sndVars, ResultsBacked
    <2>2. ASSUME NEW n \in FPGA, FPGANext(n)  PROVE ResultsBacked'
      <3>1. CASE R_query(n)
        <4>1. /\ fpga_finish_C2F_query_id' = [fpga_finish_C2F_query_id EXCEPT ![n] = @ + 1]
              /\ sem_available_results' = [sem_available_results EXCEPT ![n] = @ + 1]
              /\ UNCHANGED <<fpga_finish_F2C_query_id, pcS>>
          BY <3>1 DEF R_query, sndVars
        <4> QED BY <2>0, <4>1 DEF ResultsBacked
      <3>2. CASE S_result(n)
        <4>1. /\ sem_available_results' = [sem_available_results EXCEPT ![n] = @ - 1]
              /\ pcS[n] = "result" /\ pcS' = [pcS EXCEPT ![n] = "send"]
              /\ UNCHANGED <<fpga_finish_F2C_query_id, fpga_finish_C2F_query_id>>
          BY <3>2 DEF S_result, rcvVars
        <4> QED BY <2>0, <4>1 DEF ResultsBacked
      <3>3. CASE S_send(n)
        <4>1. /\ fpga_finish_F2C_query_id' = [fpga_finish_F2C_query_id EXCEPT ![n] = @ + 1]
              /\ pcS[n] = "send" /\ pcS'[n] # "send" /\ \A m \in FPGA : m # n => pcS'[m] = pcS[m]
              /\ UNCHANGED <<fpga_finish_C2F_query_id, sem_available_results>>
          BY <2>0, <3>3 DEF S_send, rcvVars
        <4> QED BY <2>0, <4>1 DEF ResultsBacked
      <3>4. CASE ~R_query(n) /\ ~S_result(n) /\ ~S_send(n)
        <4>1. /\ UNCHANGED <<fpga_finish_C2F_query_id, fpga_finish_F2C_query_id,
                             sem_available_results>>
              /\ \A m \in FPGA : pcS'[m] = "send" => pcS[m] = "send"
          BY <2>0, <2>2, <3>4 DEF FPGANext, start_C2F_F2C_threads, FPGA_thread_C2F, R_listen,
             R_accept, R_wait_F2C, R_header, R_fail, FPGA_thread_F2C, S_connect, S_wait_C2F,
             S_batch, S_fail, rcvVars, sndVars
        <4> QED BY <2>0, <4>1 DEF ResultsBacked
      <3> QED BY <3>1, <3>2, <3>3, <3>4
    <2> QED BY <2>1, <2>2 DEF Next, GPU_send, GPU_receive, Halted, vars
  <1> QED BY <1>1, <1>2, TypeInductive, PTL DEF Spec

\* The batches the G2C thread has counted or is about to count, and those the
\* C2F thread has read.
Written == g2c_batch_id + (IF pcG = "post" THEN 1 ELSE 0)
Taken == c2f_batch_id + (IF pcC \in {"window", "send"} THEN 1 ELSE 0)

OrderTypes ==
  /\ c2f_batch_id \in Nat /\ c2f_query_id \in Query /\ c2f_n \in FPGA
  /\ g2c_batch_id \in Nat /\ f2c_batch_id \in Nat
  /\ finish_C2F_query_id \in Int /\ finish_F2C_query_id \in Int /\ gpu_sent \in Int
  /\ chan_g2c \in Seq(Batch) /\ ring_buffer_G2C \in RB!RingType(Batch)
  /\ chan_c2f \in [FPGA -> Seq(Message)]
  /\ fpga_finish_C2F_query_id \in [FPGA -> Int]
  /\ Written \in Int /\ Taken \in Int

LEMMA OrderTypesHold == TypeInv => OrderTypes
  <1> SUFFICES ASSUME TypeInv PROVE OrderTypes
    OBVIOUS
  <1>1. /\ c2f_batch_id \in Nat /\ c2f_query_id \in Query /\ c2f_n \in FPGA
        /\ g2c_batch_id \in Nat /\ f2c_batch_id \in Nat
        /\ finish_C2F_query_id \in Int /\ finish_F2C_query_id \in Int /\ gpu_sent \in Int
    BY DEF TypeInv, TypeOK, C2FTypeOK, F2CTypeOK, G2CTypeOK, GPUTypeOK
  <1>2. chan_g2c \in Seq(Batch) /\ chan_c2f \in [FPGA -> Seq(Message)]
    BY DEF TypeInv, TypeOK, NetTypeOK, Message
  <1>3. ring_buffer_G2C \in RB!RingType(Batch)
    BY DEF TypeInv, TypeOK, SharedTypeOK
  <1>4. fpga_finish_C2F_query_id \in [FPGA -> Int]
    BY DEF TypeInv, TypeOK, FPGATypeOK
  <1>5. Written \in Int /\ Taken \in Int
    BY <1>1 DEF Written, Taken
  <1> QED BY <1>1, <1>2, <1>3, <1>4, <1>5 DEF OrderTypes

\* The F2C_C2G thread asks FPGA 0 first, so of its results only the one being
\* read when its connection died is missing.
LeadFrom ==
  /\ conn_f2c[0] = "dead" => chan_f2c[0] = <<>>
  /\ Received(0) <= ReadFrom(0) + (IF conn_f2c[0] = "dead" THEN 1 ELSE 0)

\* The loops of the F2C_C2G thread count what finish_F2C_query_id counts,
\* whether or not a result arrived.
AnswersCounted ==
  /\ pcF \notin {"read", "post_query"} => f2c_query_id = 0
  /\ finish_F2C_query_id + 1 =
       BatchStart + (IF pcF \in {"answer", "post_batch"} THEN batch_size ELSE f2c_query_id)

LEMMA NextCounted ==
  ASSUME TypeInv, AnswersCounted, [Next]_vars
  PROVE  AnswersCounted'
  <1>0. /\ f2c_query_id \in Query /\ f2c_batch_id \in Int /\ finish_F2C_query_id \in Int
        /\ BatchStart \in Int
    BY AnswerTypesHold DEF AnswerTypes
  <1>b. UNCHANGED <<pcF, f2c_query_id, f2c_batch_id, finish_F2C_query_id>> => AnswersCounted'
    BY DEF AnswersCounted, BatchStart
  <1>1. CASE F2C_listen \/ F2C_accept \/ F2C_wait_C2F \/ send_C2G_batch_result \/ C2G_sigpipe
             \/ receive_F2C_batch_result
    <2>1. /\ UNCHANGED <<f2c_query_id, f2c_batch_id, finish_F2C_query_id>>
          /\ \/ pcF \in {"answer", "post_batch"} /\ pcF' \in {"answer", "post_batch"}
             \/ pcF \in {"listen", "accept", "wait_C2F"}
                /\ pcF' \in {"listen", "accept", "wait_C2F", "read"}
             \/ pcF = "read" /\ pcF' \in {"read", "post_query"}
      BY <1>1 DEF F2C_listen, F2C_accept, F2C_wait_C2F, send_C2G_batch_result, C2G_sigpipe,
                  receive_F2C_batch_result, f2cVars
    <2> QED BY <2>1 DEF AnswersCounted, BatchStart
  <1>2. CASE F2C_post_query
    <2> DEFINE last == f2c_query_id = batch_size - 1
    <2>1. /\ pcF = "post_query" /\ finish_F2C_query_id' = finish_F2C_query_id + 1
          /\ f2c_query_id' = IF last THEN 0 ELSE f2c_query_id + 1
          /\ pcF' = IF last THEN "answer" ELSE "read"
          /\ UNCHANGED f2c_batch_id
      BY <1>2 DEF F2C_post_query
    <2>2. BatchStart' = BatchStart /\ finish_F2C_query_id + 1 = BatchStart + f2c_query_id
      BY <2>1 DEF AnswersCounted, BatchStart
    <2>3. finish_F2C_query_id' + 1 = BatchStart' + (IF last THEN batch_size ELSE f2c_query_id')
      BY <1>0, <2>1, <2>2, CoordinatorAssumption DEF Query
    <2>4. /\ pcF' \in {"answer", "post_batch"} <=> last
          /\ pcF' # "read" => f2c_query_id' = 0
      BY <2>1
    <2> HIDE DEF last
    <2> QED BY <2>3, <2>4 DEF AnswersCounted
  <1>3. CASE F2C_post_batch
    <2>1. /\ pcF = "post_batch" /\ pcF' \in {"read", "done"}
          /\ f2c_batch_id' = f2c_batch_id + 1
          /\ UNCHANGED <<f2c_query_id, finish_F2C_query_id>>
      BY <1>3 DEF F2C_post_batch
    <2>2. BatchStart' = BatchStart + batch_size
      BY <1>0, <2>1 DEF BatchStart
    <2>3. f2c_query_id = 0 /\ finish_F2C_query_id + 1 = BatchStart + batch_size
      BY <2>1 DEF AnswersCounted
    <2> QED BY <1>0, <2>1, <2>2, <2>3 DEF AnswersCounted
  <1>4. CASE UNCHANGED f2cVars
    BY <1>b, <1>4 DEF f2cVars
  <1>5. UNCHANGED f2cVars \/ thread_F2C_C2G
    BY DEF Next, CoordNext, thread_G2C, connect_G2C, G2C_wait_C2F, G2C_window,
       receive_G2C_batch_query, G2C_post, thread_C2F, C2F_wait_F2C, C2F_wait_G2C, connect_C2F,
       send_C2F_header, C2F_available, C2F_read_slot, C2F_window, send_C2F_query, C2F_sigpipe,
       GPU_send, GPU_receive, Halted, coordVars, vars
  <1> QED BY <1>1, <1>2, <1>3, <1>4, <1>5 DEF thread_F2C_C2G

LEMMA NextLead ==
  ASSUME TypeInv, LostInv, LeadFrom, [Next]_vars
  PROVE  LeadFrom'
  <1>0. AnswerTypes /\ 0 \in FPGA
    BY AnswerTypesHold DEF FPGA
  <1> USE DEF AnswerTypes
  <1>a. Received(0) \in Int /\ ReadFrom(0) \in Int
    BY <1>0 DEF Received, ReadFrom
  <1>b. UNCHANGED answerVars => LeadFrom'
    BY DEF answerVars, f2cVars, LeadFrom, Received, ReadFrom
  <1>1. CASE (thread_G2C \/ thread_C2F) /\ UNCHANGED fpgaVars
    BY <1>b, <1>1 DEF thread_G2C, connect_G2C, G2C_wait_C2F, G2C_window, receive_G2C_batch_query,
         G2C_post, thread_C2F, C2F_wait_F2C, C2F_wait_G2C, connect_C2F, send_C2F_header,
         C2F_available, C2F_read_slot, C2F_window, send_C2F_query, C2F_sigpipe, netVars,
         fpgaVars, sndVars, answerVars
  <1>2. CASE GPU_send \/ GPU_receive \/ Halted \/ UNCHANGED vars
    BY <1>b, <1>2 DEF GPU_send, GPU_receive, Halted, vars, coordVars, netVars, fpgaVars, sndVars,
         answerVars
  \* The F2C_C2G thread.
  <1>3. CASE (F2C_listen \/ F2C_accept \/ F2C_wait_C2F) /\ UNCHANGED fpgaVars
    <2>1. /\ UNCHANGED <<chan_f2c, fpga_finish_F2C_query_id, finish_F2C_query_id>>
          /\ pcF \in {"listen", "accept", "wait_C2F"}
          /\ pcF' \in {"listen", "accept", "wait_C2F", "read"}
          /\ pcF' \in {"wait_C2F", "read"} => f2c_n' = 0
      BY <1>3 DEF F2C_listen, F2C_accept, F2C_wait_C2F, netVars, fpgaVars, sndVars, LostInv
    <2>2. conn_f2c'[0] = conn_f2c[0] \/ (conn_f2c[0] = "none" /\ conn_f2c'[0] = "listen")
      <3>1. CASE F2C_listen
        <4>1. /\ pcF = "listen" /\ conn_f2c[f2c_n] = "none"
              /\ conn_f2c' = [conn_f2c EXCEPT ![f2c_n] = "listen"]
          BY <1>0, <3>1 DEF F2C_listen, LostInv, NotYetListening
        <4>2. conn_f2c \in [FPGA -> ConnState] /\ f2c_n \in FPGA
          BY <1>0
        <4> QED BY ONLY <1>0, <4>1, <4>2
      <3>2. CASE F2C_accept \/ F2C_wait_C2F
        BY <3>2 DEF F2C_accept, F2C_wait_C2F, netVars
      <3> QED BY <1>3, <3>1, <3>2
    <2>3. Received(0)' = Received(0)
      <3>1. pcF' # "post_query" /\ ~(pcF' = "read" /\ 0 < f2c_n') /\ pcF \notin {"post_query", "read"}
        BY <1>0, <2>1
      <3> QED BY <2>1, <3>1 DEF Received
    <2>4. ReadFrom(0)' = ReadFrom(0)
      BY <2>1 DEF ReadFrom
    <2> QED BY <2>1, <2>2, <2>3, <2>4 DEF LeadFrom
  <1>4. CASE receive_F2C_batch_result /\ UNCHANGED fpgaVars
    <2>1. /\ pcF = "read" /\ UNCHANGED <<fpga_finish_F2C_query_id, finish_F2C_query_id>>
          /\ \/ pcF' = "post_query" /\ f2c_n' = 0
             \/ pcF' = "read" /\ f2c_n' = f2c_n + 1
      BY <1>4 DEF receive_F2C_batch_result, fpgaVars, sndVars
    <2>2. Received(0)' = finish_F2C_query_id + 2
      BY <1>0, <2>1 DEF Received
    <2>3. CASE f2c_n # 0
      <3>1. Received(0)' = Received(0)
        BY <1>0, <2>1, <2>2, <2>3 DEF Received
      <3>2. chan_f2c'[0] = chan_f2c[0] /\ conn_f2c'[0] = conn_f2c[0]
        BY <1>0, <1>4, <2>3 DEF receive_F2C_batch_result
      <3> QED BY <2>1, <3>1, <3>2 DEF LeadFrom, ReadFrom
    <2>4. CASE f2c_n = 0
      <3>1. Received(0)' = Received(0) + 1
        BY <1>0, <2>1, <2>2, <2>4 DEF Received
      <3>2. CASE F2C_arrived
        <4>1. chan_f2c[0] # <<>> /\ chan_f2c'[0] = Tail(chan_f2c[0]) /\ UNCHANGED conn_f2c
          BY <1>0, <1>4, <2>4, <3>2 DEF receive_F2C_batch_result, F2C_arrived
        <4>2. Len(chan_f2c'[0]) = Len(chan_f2c[0]) - 1 /\ Len(chan_f2c[0]) \in Nat
          BY <1>0, <4>1
        <4>3. fpga_finish_F2C_query_id'[0] = fpga_finish_F2C_query_id[0]
              /\ fpga_finish_F2C_query_id[0] \in Int
          BY <1>0, <2>1
        <4>4. ReadFrom(0)' = ReadFrom(0) + 1
          BY <4>2, <4>3 DEF ReadFrom
        <4>5. conn_f2c[0] # "dead" /\ conn_f2c'[0] # "dead"
          BY <4>1 DEF LeadFrom
        <4> QED BY <1>a, <3>1, <4>4, <4>5 DEF LeadFrom
      <3>3. CASE ~F2C_arrived
        <4>1. chan_f2c[0] = <<>> /\ UNCHANGED chan_f2c /\ conn_f2c[0] = "reset"
              /\ conn_f2c'[0] = "dead"
          BY <1>0, <1>4, <2>4, <3>3 DEF receive_F2C_batch_result, F2C_arrived
        <4>2. ReadFrom(0)' = ReadFrom(0)
          BY <2>1, <4>1 DEF ReadFrom
        <4> QED BY <1>a, <3>1, <4>1, <4>2 DEF LeadFrom
      <3> QED BY <3>2, <3>3
    <2> QED BY <2>3, <2>4
  <1>5. CASE (F2C_post_query \/ send_C2G_batch_result \/ C2G_sigpipe \/ F2C_post_batch)
             /\ UNCHANGED fpgaVars
    <2>1. UNCHANGED <<chan_f2c, conn_f2c, fpga_finish_F2C_query_id, f2c_n>>
      BY <1>5 DEF F2C_post_query, send_C2G_batch_result, C2G_sigpipe, F2C_post_batch, f2cVars,
           netVars, fpgaVars, sndVars
    <2>2. f2c_n = 0 /\ pcF \notin {"listen", "accept", "read"}
      BY <1>5 DEF LostInv, F2C_post_query, send_C2G_batch_result, C2G_sigpipe, F2C_post_batch
    <2>3. /\ pcF = "post_query" => pcF' # "post_query" /\ finish_F2C_query_id' = finish_F2C_query_id + 1
          /\ pcF # "post_query" => pcF' # "post_query" /\ UNCHANGED finish_F2C_query_id
      BY <1>5 DEF F2C_post_query, send_C2G_batch_result, C2G_sigpipe, F2C_post_batch, f2cVars
    <2>4. Received(0)' = Received(0)
      BY <1>0, <2>1, <2>2, <2>3 DEF Received
    <2> QED BY <2>1, <2>4 DEF LeadFrom, ReadFrom
  \* The simulators.
  <1>6. ASSUME NEW n \in FPGA, FPGANext(n), UNCHANGED <<coordVars, gpuVars>>
        PROVE  LeadFrom'
    <2>0. UNCHANGED f2cVars
      BY <1>6 DEF coordVars
    <2>1. Received(0)' = Received(0)
      BY <2>0 DEF Received, f2cVars
    <2>2. CASE S_connect(n)
      <3>1. /\ UNCHANGED <<chan_f2c, fpga_finish_F2C_query_id>>
            /\ \/ conn_f2c'[0] = conn_f2c[0]
               \/ conn_f2c[0] = "listen" /\ conn_f2c'[0] = "open"
        BY <1>0, <2>2 DEF S_connect
      <3> QED BY <2>1, <3>1 DEF LeadFrom, ReadFrom
    <2>3. CASE S_send(n)
      <3> DEFINE msg == [fpga |-> n, id |-> fpga_finish_F2C_query_id[n] + 1]
      <3>1. /\ chan_f2c' = [chan_f2c EXCEPT ![n] = Append(@, msg)] /\ UNCHANGED conn_f2c
            /\ fpga_finish_F2C_query_id' = [fpga_finish_F2C_query_id EXCEPT ![n] = @ + 1]
            /\ conn_f2c[n] = "open"
        BY <2>3 DEF S_send, CanSend
      <3> HIDE DEF msg
      <3>2. Len(Append(chan_f2c[n], msg)) = Len(chan_f2c[n]) + 1 /\ Len(chan_f2c[n]) \in Nat
        BY <1>0
      <3>3. ReadFrom(0)' = ReadFrom(0)
        BY <1>0, <3>1, <3>2 DEF ReadFrom
      <3>4. conn_f2c[0] = "dead" => chan_f2c'[0] = chan_f2c[0]
        BY <1>0, <3>1
      <3> QED BY <2>1, <3>1, <3>3, <3>4 DEF LeadFrom
    <2>4. CASE ~S_connect(n) /\ ~S_send(n)
      BY <1>6, <1>b, <2>0, <2>4 DEF FPGANext, start_C2F_F2C_threads, FPGA_thread_C2F, R_listen,
           R_accept, R_wait_F2C, R_header, R_query, R_fail, FPGA_thread_F2C, S_wait_C2F,
           S_batch, S_result, S_fail, netVars, sndVars, answerVars
    <2> QED BY <2>2, <2>3, <2>4
  \* Resets.
  <1>7. CASE Reset /\ UNCHANGED <<coordVars, fpgaVars, gpuVars>>
    <2>0. UNCHANGED <<f2cVars, fpga_finish_F2C_query_id>>
      BY <1>7 DEF coordVars, fpgaVars, sndVars
    <2>1. CASE UNCHANGED <<chan_f2c, conn_f2c>>
      BY <1>b, <2>0, <2>1 DEF answerVars
    <2>2. ASSUME NEW n \in FPGA, ResetF2C(n)  PROVE LeadFrom'
      <3>1. PICK s \in Prefix(chan_f2c[n]) : chan_f2c' = [chan_f2c EXCEPT ![n] = s]
        BY <2>2 DEF ResetF2C
      <3>2. conn_f2c[n] = "open" /\ conn_f2c' = [conn_f2c EXCEPT ![n] = "reset"]
        BY <2>2 DEF ResetF2C
      <3>3. Received(0)' = Received(0)
        BY <2>0 DEF Received, f2cVars
      <3>4. CASE n = 0
        <4>1. chan_f2c'[0] = s /\ conn_f2c[0] # "dead" /\ conn_f2c'[0] # "dead"
          BY <1>0, <3>1, <3>2, <3>4
        <4>2. Len(s) <= Len(chan_f2c[0]) /\ Len(s) \in Nat /\ Len(chan_f2c[0]) \in Nat
          <5>1. PICK k \in 0 .. Len(chan_f2c[0]) : s = SubSeq(chan_f2c[0], 1, k)
            BY <3>1, <3>4 DEF Prefix
          <5>2. chan_f2c[0] \in Seq(ResultType)
            BY <1>0
          <5> QED BY <5>1, <5>2
        <4>3. ReadFrom(0) <= ReadFrom(0)' /\ ReadFrom(0)' \in Int
          <5>1. /\ fpga_finish_F2C_query_id'[0] = fpga_finish_F2C_query_id[0]
                /\ fpga_finish_F2C_query_id[0] \in Int
            BY <1>0, <2>0
          <5> QED BY <4>1, <4>2, <5>1 DEF ReadFrom
        <4> QED BY <1>a, <3>3, <4>1, <4>3 DEF LeadFrom
      <3>5. CASE n # 0
        <4>1. chan_f2c'[0] = chan_f2c[0] /\ conn_f2c'[0] = conn_f2c[0]
          BY <1>0, <3>1, <3>2, <3>5
        <4> QED BY <2>0, <3>3, <4>1 DEF LeadFrom, ReadFrom
      <3> QED BY <3>4, <3>5
    <2> QED BY <1>7, <2>1, <2>2 DEF Reset, ResetC2F, ResetG2C
  <1> QED BY <1>1, <1>2, <1>3, <1>4, <1>5, <1>6, <1>7
         DEF Next, CoordNext, thread_F2C_C2G

\* What FPGA n has received and what is on the way to it was sent.
SentAtMost(n) ==
  fpga_finish_C2F_query_id[n] + 1 + Cardinality(QueriesIn(chan_c2f[n])) <= SentTo(n)

\* The loops of the C2F thread count what finish_C2F_query_id counts, whether
\* or not send() succeeded.
SendsCounted ==
  /\ pcC \notin {"window", "send"} => c2f_query_id = 0
  /\ finish_C2F_query_id + 1 = c2f_batch_id * batch_size + c2f_query_id

LEMMA NextSendsCounted ==
  ASSUME TypeInv, SendsCounted, [Next]_vars
  PROVE  SendsCounted'
  <1>0. c2f_query_id \in Query /\ c2f_batch_id \in Int /\ finish_C2F_query_id \in Int
    BY OrderTypesHold DEF OrderTypes
  <1>b. UNCHANGED <<pcC, c2f_batch_id, c2f_query_id, finish_C2F_query_id>> => SendsCounted'
    BY DEF SendsCounted
  <1>1. CASE C2F_wait_F2C \/ C2F_wait_G2C \/ connect_C2F \/ send_C2F_header \/ C2F_available
             \/ C2F_sigpipe \/ C2F_read_slot \/ C2F_window
    <2>1. /\ UNCHANGED <<c2f_batch_id, c2f_query_id, finish_C2F_query_id>>
          /\ pcC \in {"window", "send"} => pcC' \in {"window", "send"}
      <3>1. CASE send_C2F_header
        BY <3>1 DEF send_C2F_header
      <3>2. CASE connect_C2F
        BY <3>2 DEF connect_C2F
      <3> QED BY <1>1, <3>1, <3>2 DEF C2F_wait_F2C, C2F_wait_G2C, C2F_available, C2F_sigpipe,
                                      C2F_read_slot, C2F_window, c2fVars
    <2> QED BY <2>1 DEF SendsCounted
  <1>2. CASE send_C2F_query
    <2>1. CASE ~send_C2F_returns
      BY <1>2, <1>b, <2>1 DEF send_C2F_query
    <2>2. CASE send_C2F_returns /\ c2f_query_id # batch_size - 1
      <3>1. /\ pcC' = "window" /\ c2f_query_id' = c2f_query_id + 1
            /\ finish_C2F_query_id' = finish_C2F_query_id + 1
            /\ UNCHANGED c2f_batch_id
        BY <1>2, <2>2 DEF send_C2F_query
      <3> DEFINE done == c2f_batch_id * batch_size
      <3>2. finish_C2F_query_id + 1 = done + c2f_query_id /\ done \in Int
        BY <1>0 DEF SendsCounted
      <3>3. finish_C2F_query_id' + 1 = done + c2f_query_id'
        <4> HIDE DEF done
        <4> QED BY <1>0, <3>1, <3>2 DEF Query
      <3>4. c2f_batch_id' * batch_size = done
        BY <3>1
      <3> QED BY <3>1, <3>3, <3>4 DEF SendsCounted
    <2>3. CASE send_C2F_returns /\ c2f_query_id = batch_size - 1
      <3>1. /\ c2f_query_id' = 0 /\ c2f_batch_id' = c2f_batch_id + 1
            /\ finish_C2F_query_id' = finish_C2F_query_id + 1
        BY <1>2, <2>3 DEF send_C2F_query
      <3> DEFINE done == c2f_batch_id * batch_size
                 next == (c2f_batch_id + 1) * batch_size
      <3>2. finish_C2F_query_id + 1 = done + (batch_size - 1)
        BY <2>3 DEF SendsCounted
      <3>3. next = done + batch_size /\ done \in Int
        BY <1>0, CoordinatorAssumption, SMT
      <3>4. finish_C2F_query_id' + 1 = next + 0
        <4> HIDE DEF done, next
        <4> QED BY <1>0, <3>1, <3>2, <3>3, CoordinatorAssumption
      <3> QED BY <3>1, <3>4 DEF SendsCounted
    <2> QED BY <2>1, <2>2, <2>3
  <1>3. CASE UNCHANGED c2fVars
    BY <1>3, <1>b DEF c2fVars
  <1>4. UNCHANGED c2fVars \/ thread_C2F
    BY DEF Next, CoordNext, thread_G2C, connect_G2C, G2C_wait_C2F, G2C_window,
       receive_G2C_batch_query, G2C_post, thread_F2C_C2G, F2C_listen, F2C_accept, F2C_wait_C2F,
       receive_F2C_batch_result, F2C_post_query, send_C2G_batch_result, C2G_sigpipe,
       F2C_post_batch, GPU_send, GPU_receive, Halted, coordVars, vars
  <1> QED BY <1>1, <1>2, <1>3, <1>4 DEF thread_C2F

\* A reset takes queries away.
LEMMA QueriesPrefix ==
  ASSUME NEW c \in Seq(Message), NEW s \in Prefix(c)
  PROVE  /\ s \in Seq(Message)
         /\ Cardinality(QueriesIn(s)) <= Cardinality(QueriesIn(c))
  <1>1. PICK k \in 0 .. Len(c) : s = SubSeq(c, 1, k)
    BY DEF Prefix
  <1>2. /\ s \in Seq(Message) /\ DOMAIN s = 1 .. k /\ DOMAIN c = 1 .. Len(c) /\ Len(c) \in Nat
        /\ \A i \in 1 .. k : s[i] = c[i]
    BY <1>1
  <1>3. QueriesIn(s) \subseteq QueriesIn(c)
    BY <1>2 DEF QueriesIn
  <1> QED BY <1>2, <1>3, QueriesFinite, FS_Subset

LEMMA NextSentAtMost ==
  ASSUME TypeInv, FramingInv, \A n \in FPGA : SentAtMost(n), [Next]_vars
  PROVE  \A n \in FPGA : SentAtMost(n)'
  <1>0. SentTypes
    BY SentTypesHold
  <1> USE DEF SentTypes, FrameTypes
  <1>b. UNCHANGED sentVars => \A n \in FPGA : SentAtMost(n)'
    BY DEF sentVars, SentAtMost, SentTo
  \* Steps that touch neither end of a stream.
  <1>1. CASE (thread_G2C \/ thread_F2C_C2G \/ C2F_wait_F2C \/ C2F_wait_G2C \/ C2F_sigpipe)
             /\ UNCHANGED fpgaVars
    <2>1. CASE thread_G2C
      BY <1>b, <1>1, <2>1 DEF thread_G2C, connect_G2C, G2C_wait_C2F, G2C_window,
           receive_G2C_batch_query, G2C_post, c2fVars, netVars, fpgaVars, rcvVars, sentVars
    <2>2. CASE thread_F2C_C2G
      BY <1>b, <1>1, <2>2 DEF thread_F2C_C2G, F2C_listen, F2C_accept, F2C_wait_C2F,
           receive_F2C_batch_result, F2C_post_query, send_C2G_batch_result, C2G_sigpipe,
           F2C_post_batch, c2fVars, netVars, fpgaVars, rcvVars, sentVars
    <2>3. CASE C2F_wait_F2C \/ C2F_wait_G2C \/ C2F_sigpipe
      <3>1. UNCHANGED <<chan_c2f, fpga_finish_C2F_query_id, finish_C2F_query_id, c2f_n>>
            /\ (pcC' = "send" <=> pcC = "send")
        BY <1>1, <2>3 DEF C2F_wait_F2C, C2F_wait_G2C, C2F_sigpipe, c2fVars, netVars, fpgaVars,
                          rcvVars
      <3> QED BY <3>1 DEF SentAtMost, SentTo
    <2> QED BY <1>1, <2>1, <2>2, <2>3
  <1>2. CASE GPU_send \/ GPU_receive \/ Halted \/ UNCHANGED vars
    BY <1>b, <1>2 DEF GPU_send, GPU_receive, Halted, vars, coordVars, c2fVars, netVars,
         fpgaVars, rcvVars, sentVars
  <1>3. CASE Reset /\ UNCHANGED <<coordVars, fpgaVars, gpuVars>>
    <2>0. UNCHANGED <<pcC, c2f_n, finish_C2F_query_id, fpga_finish_C2F_query_id>>
      BY <1>3 DEF coordVars, c2fVars, fpgaVars, rcvVars
    <2>a. \A n \in FPGA : SentTo(n)' = SentTo(n)
      BY <2>0 DEF SentTo
    <2>1. CASE UNCHANGED chan_c2f
      BY <2>0, <2>a, <2>1 DEF SentAtMost
    <2>2. ASSUME NEW m \in FPGA, ResetC2F(m), NEW n \in FPGA  PROVE SentAtMost(n)'
      <3>1. PICK s \in Prefix(chan_c2f[m]) : chan_c2f' = [chan_c2f EXCEPT ![m] = s]
        BY <2>2 DEF ResetC2F
      <3>2. CASE n = m
        <4>1. chan_c2f'[n] = s /\ s \in Seq(Message)
              /\ Cardinality(QueriesIn(s)) <= Cardinality(QueriesIn(chan_c2f[n]))
          BY <1>0, <3>1, <3>2, QueriesPrefix
        <4>2. Cardinality(QueriesIn(s)) \in Nat
          BY <4>1, QueriesFinite
        <4>3. Cardinality(QueriesIn(chan_c2f[n])) \in Nat /\ fpga_finish_C2F_query_id[n] \in Int
              /\ SentTo(n) \in Int
          BY <1>0
        <4>4. fpga_finish_C2F_query_id[n] + 1 + Cardinality(QueriesIn(chan_c2f[n])) <= SentTo(n)
          BY DEF SentAtMost
        <4>5. fpga_finish_C2F_query_id[n] + 1 + Cardinality(QueriesIn(s)) <= SentTo(n)
          BY <4>1, <4>2, <4>3, <4>4
        <4> QED BY <2>0, <2>a, <4>1, <4>5 DEF SentAtMost
      <3>3. CASE n # m
        <4>1. chan_c2f'[n] = chan_c2f[n]
          BY <1>0, <3>1, <3>3
        <4> QED BY <2>0, <2>a, <4>1 DEF SentAtMost
      <3> QED BY <3>2, <3>3
    <2> QED BY <1>3, <2>1, <2>2 DEF Reset, ResetF2C, ResetG2C
  \* The C2F thread.
  <1>4. CASE (C2F_available \/ C2F_read_slot \/ C2F_window) /\ UNCHANGED fpgaVars
    <2>1. UNCHANGED <<chan_c2f, fpga_finish_C2F_query_id, finish_C2F_query_id, c2f_n>>
          /\ pcC \in {"available", "read_slot", "window"}
      BY <1>4 DEF C2F_available, C2F_read_slot, C2F_window, netVars, fpgaVars, rcvVars
    <2>2. c2f_n = 0
      BY <2>1 DEF FramingInv, LoopStarts
    <2>3. \A n \in FPGA : SentTo(n)' = SentTo(n)
      BY <1>0, <2>1, <2>2 DEF SentTo, FPGA
    <2> QED BY <2>1, <2>3 DEF SentAtMost
  <1>5. CASE connect_C2F /\ UNCHANGED fpgaVars
    <2>1. /\ UNCHANGED <<chan_c2f, fpga_finish_C2F_query_id, finish_C2F_query_id>>
          /\ pcC = "connect" /\ pcC' \in {"connect", "header"}
      BY <1>0, <1>5 DEF connect_C2F, fpgaVars, rcvVars
    <2>2. \A n \in FPGA : SentTo(n)' = SentTo(n)
      BY <2>1 DEF SentTo
    <2> QED BY <2>1, <2>2 DEF SentAtMost
  <1>6. CASE send_C2F_header /\ UNCHANGED fpgaVars
    <2> DEFINE msg == [type |-> "header", batch_size |-> batch_size, terminate |-> terminate]
    <2>1. /\ pcC = "header" /\ pcC' # "send" /\ send_C2F(msg)
          /\ UNCHANGED <<fpga_finish_C2F_query_id, finish_C2F_query_id>>
      BY <1>6 DEF send_C2F_header, fpgaVars, rcvVars
    <2>2. msg \in Message /\ msg.type = "header"
      BY DEF Message, HeaderType, terminate
    <2> HIDE DEF msg
    <2>3. \/ chan_c2f' = [chan_c2f EXCEPT ![c2f_n] = Append(chan_c2f[c2f_n], msg)]
          \/ UNCHANGED chan_c2f
      BY <1>0, <2>1 DEF send_C2F
    <2>4. \A n \in FPGA : Cardinality(QueriesIn(chan_c2f'[n])) = Cardinality(QueriesIn(chan_c2f[n]))
      <3> SUFFICES ASSUME NEW n \in FPGA
                   PROVE  Cardinality(QueriesIn(chan_c2f'[n])) = Cardinality(QueriesIn(chan_c2f[n]))
        OBVIOUS
      <3>1. CASE chan_c2f'[n] = Append(chan_c2f[n], msg)
        <4>1. Cardinality(QueriesIn(Append(chan_c2f[n], msg))) = Cardinality(QueriesIn(chan_c2f[n])) + 0
          BY <1>0, <2>2, QueriesAppend
        <4> QED BY <1>0, <3>1, <4>1
      <3>2. chan_c2f'[n] = Append(chan_c2f[n], msg) \/ chan_c2f'[n] = chan_c2f[n]
        BY <1>0, <2>3
      <3> QED BY <3>1, <3>2
    <2>5. \A n \in FPGA : SentTo(n)' = SentTo(n)
      BY <2>1 DEF SentTo
    <2> QED BY <2>1, <2>4, <2>5 DEF SentAtMost
  <1>7. CASE send_C2F_query /\ UNCHANGED fpgaVars
    <2> DEFINE msg == [type |-> "query", batch |-> G2C_conv_buf, query |-> c2f_query_id]
    <2>1. /\ pcC = "send" /\ send_C2F(msg)
          /\ UNCHANGED fpga_finish_C2F_query_id
      BY <1>7 DEF send_C2F_query, fpgaVars, rcvVars
    <2>2. msg \in Message /\ msg.type = "query"
      BY <1>0 DEF TypeInv, TypeOK, C2FTypeOK, Message, QueryType
    <2>3. \/ chan_c2f' = [chan_c2f EXCEPT ![c2f_n] = Append(chan_c2f[c2f_n], msg)]
          \/ UNCHANGED chan_c2f
      <3> HIDE DEF msg
      <3> QED BY <1>0, <2>1 DEF send_C2F
    <2>4. \/ finish_C2F_query_id' = finish_C2F_query_id + 1 /\ pcC' # "send"
          \/ /\ c2f_n # num_FPGA - 1 /\ c2f_n' = c2f_n + 1
             /\ UNCHANGED <<finish_C2F_query_id, pcC>>
      BY <1>7 DEF send_C2F_query, send_C2F_returns
    <2> HIDE DEF msg
    <2>5. ASSUME NEW n \in FPGA  PROVE SentAtMost(n)'
      <3> DEFINE waiting == Cardinality(QueriesIn(chan_c2f[n]))
      <3>0. /\ n \in Nat /\ n <= num_FPGA - 1 /\ c2f_n \in Nat /\ c2f_n <= num_FPGA - 1
            /\ waiting \in Nat /\ fpga_finish_C2F_query_id[n] \in Int /\ finish_C2F_query_id \in Int
            /\ fpga_finish_C2F_query_id'[n] = fpga_finish_C2F_query_id[n]
        BY <1>0, <2>1 DEF FPGA
      <3>1. fpga_finish_C2F_query_id[n] + 1 + waiting <= SentTo(n) /\ SentTo(n) \in Int
        BY <1>0 DEF SentAtMost
      <3>2. CASE n = c2f_n
        <4>1. Cardinality(QueriesIn(chan_c2f'[n])) \in {waiting, waiting + 1}
          <5>1. Cardinality(QueriesIn(Append(chan_c2f[n], msg))) = waiting + 1
            BY <1>0, <2>2, QueriesAppend
          <5>2. chan_c2f'[n] \in {chan_c2f[n], Append(chan_c2f[n], msg)}
            BY <1>0, <2>3, <3>2
          <5> QED BY <5>1, <5>2
        <4>2. SentTo(n)' = SentTo(n) + 1
          BY <2>1, <2>4, <3>0, <3>2 DEF SentTo
        <4> HIDE DEF waiting
        <4> QED BY <3>0, <3>1, <4>1, <4>2 DEF SentAtMost
      <3>3. CASE n # c2f_n
        <4>1. chan_c2f'[n] = chan_c2f[n]
          BY <1>0, <2>3, <3>3
        <4>2. SentTo(n) <= SentTo(n)' /\ SentTo(n)' \in Int
          BY <2>1, <2>4, <3>0, <3>3 DEF SentTo
        <4>3. fpga_finish_C2F_query_id[n] + 1 + waiting <= SentTo(n)'
          <5> HIDE DEF waiting
          <5> QED BY <3>0, <3>1, <4>2
        <4> QED BY <3>0, <4>1, <4>3 DEF SentAtMost
      <3> QED BY <3>2, <3>3
    <2> QED BY <2>5
  \* The simulators.
  <1>8. ASSUME NEW n \in FPGA, FPGANext(n), UNCHANGED <<coordVars, gpuVars>>
        PROVE  \A m \in FPGA : SentAtMost(m)'
    <2>0. UNCHANGED <<finish_C2F_query_id, pcC, c2f_n>>
      BY <1>8 DEF coordVars, c2fVars
    <2>a. \A m \in FPGA : SentTo(m)' = SentTo(m)
      BY <2>0 DEF SentTo
    <2>1. CASE R_header(n) \/ R_query(n)
      <3> DEFINE one == IF Head(chan_c2f[n]).type = "query" THEN 1 ELSE 0
      <3>1. chan_c2f[n] # <<>> /\ chan_c2f' = [chan_c2f EXCEPT ![n] = Tail(@)]
        BY <2>1 DEF R_header, R_query
      <3>2. fpga_finish_C2F_query_id' =
              [fpga_finish_C2F_query_id EXCEPT ![n] = fpga_finish_C2F_query_id[n] + one]
        <4>1. CASE R_header(n)
          <5>1. one = 0 /\ UNCHANGED fpga_finish_C2F_query_id
            BY <4>1 DEF R_header
          <5> HIDE DEF one
          <5> QED BY <1>0, <5>1
        <4>2. CASE R_query(n)
          BY <4>2 DEF R_query
        <4> QED BY <2>1, <4>1, <4>2
      <3>3. Cardinality(QueriesIn(chan_c2f[n])) = Cardinality(QueriesIn(Tail(chan_c2f[n]))) + one
        BY <1>0, <3>1, QueriesTail
      <3> HIDE DEF one
      <3>4. Cardinality(QueriesIn(Tail(chan_c2f[n]))) \in Nat /\ one \in Int
        <4>1. Tail(chan_c2f[n]) \in Seq(Message)
          BY <1>0, <3>1
        <4>2. one \in Int
          BY DEF one
        <4> QED BY <4>1, <4>2, QueriesFinite
      <3>5. ASSUME NEW m \in FPGA, m # n  PROVE SentAtMost(m)'
        BY <1>0, <2>a, <3>1, <3>2, <3>5 DEF SentAtMost
      <3>6. SentAtMost(n)'
        <4>1. /\ chan_c2f'[n] = Tail(chan_c2f[n])
              /\ fpga_finish_C2F_query_id'[n] = fpga_finish_C2F_query_id[n] + one
          BY <1>0, <3>1, <3>2
        <4>2. fpga_finish_C2F_query_id[n] + 1 + Cardinality(QueriesIn(chan_c2f[n])) <= SentTo(n)
          BY DEF SentAtMost
        <4>3. fpga_finish_C2F_query_id[n] \in Int
          BY <1>0
        <4>4. fpga_finish_C2F_query_id'[n] + 1 + Cardinality(QueriesIn(chan_c2f'[n])) <= SentTo(n)
          BY <3>3, <3>4, <4>1, <4>2, <4>3
        <4> QED BY <2>a, <4>4 DEF SentAtMost
      <3> QED BY <3>5, <3>6
    <2>2. CASE ~R_header(n) /\ ~R_query(n)
      <3>1. UNCHANGED <<chan_c2f, fpga_finish_C2F_query_id>>
        BY <1>8, <2>2 DEF FPGANext, start_C2F_F2C_threads, FPGA_thread_C2F, R_listen, R_accept,
             R_wait_F2C, R_fail, FPGA_thread_F2C, S_connect, S_wait_C2F, S_batch, S_result,
             S_send, S_fail, netVars, rcvVars
      <3> QED BY <2>a, <3>1 DEF SentAtMost
    <2> QED BY <2>1, <2>2
  <1> QED BY <1>1, <1>2, <1>3, <1>4, <1>5, <1>6, <1>7, <1>8
         DEF Next, CoordNext, thread_C2F

\* What is known of the answers and the queries whatever fails.
CountInv ==
  /\ TypeInv /\ WindowAccounting /\ FramingInv /\ ResultsBacked /\ LostInv
  /\ AnswersCounted /\ LeadFrom
  /\ SendsCounted /\ \A n \in FPGA : SentAtMost(n)

LEMMA CountHolds == Spec => []CountInv
  <1>1. Init => AnswersCounted /\ LeadFrom /\ SendsCounted /\ \A n \in FPGA : SentAtMost(n)
    <2> SUFFICES ASSUME Init
                 PROVE  AnswersCounted /\ LeadFrom /\ SendsCounted /\ \A n \in FPGA : SentAtMost(n)
      OBVIOUS
    <2>1. /\ \A n \in FPGA : /\ conn_f2c[n] = "none" /\ chan_f2c[n] = <<>> /\ chan_c2f[n] = <<>>
                             /\ fpga_finish_F2C_query_id[n] = -1
                             /\ fpga_finish_C2F_query_id[n] = -1
          /\ pcF = "listen" /\ f2c_n = 0 /\ f2c_query_id = 0 /\ f2c_batch_id = 0
          /\ finish_F2C_query_id = -1
          /\ pcC = "wait_F2C" /\ c2f_query_id = 0 /\ c2f_batch_id = 0
          /\ finish_C2F_query_id = -1
      BY DEF Init, NetInit, CoordInit, FPGAInit
    <2>2. AnswersCounted
      BY <2>1 DEF AnswersCounted, BatchStart
    <2>3. LeadFrom
      <3>1. 0 \in FPGA
        BY DEF FPGA
      <3> QED BY <2>1, <3>1 DEF LeadFrom, Received, ReadFrom
    <2>4. SendsCounted
      BY <2>1 DEF SendsCounted
    <2>5. ASSUME NEW n \in FPGA  PROVE SentAtMost(n)
      <3>1. QueriesIn(chan_c2f[n]) = {}
        BY <2>1 DEF QueriesIn
      <3> QED BY <2>1, <3>1, FS_EmptySet DEF SentAtMost, SentTo
    <2> QED BY <2>2, <2>3, <2>4, <2>5
  <1>2. TypeInv /\ AnswersCounted /\ [Next]_vars => AnswersCounted'
    BY NextCounted
  <1>3. TypeInv /\ LostInv /\ LeadFrom /\ [Next]_vars => LeadFrom'
    BY NextLead
  <1>4. TypeInv /\ SendsCounted /\ [Next]_vars => SendsCounted'
    BY NextSendsCounted
  <1>5. TypeInv /\ FramingInv /\ (\A n \in FPGA : SentAtMost(n)) /\ [Next]_vars
          => (\A n \in FPGA : SentAtMost(n))'
    BY NextSentAtMost
  <1>6. Spec => []FramingInv
    BY FramingHolds
  <1>7. Spec => []LostInv
    BY LostHolds
  <1> QED BY <1>1, <1>2, <1>3, <1>4, <1>5, <1>6, <1>7, TypeInductive, Accounting, BackedHolds,
             PTL DEF Spec, CountInv

\* Products compare as their factors do.
LEMMA ByBatches ==
  ASSUME NEW a \in Int, NEW b \in Int, a * batch_size <= b * batch_size
  PROVE  a <= b
  <1> SUFFICES ASSUME b + 1 <= a PROVE FALSE
    OBVIOUS
  <1>1. /\ (a - b - 1) \in Nat /\ (a - b - 1) * batch_size >= 0
        /\ a * batch_size = (a - b - 1) * batch_size + b * batch_size + batch_size
    BY CoordinatorAssumption, SMT
  <1> QED BY <1>1, CoordinatorAssumption

\* The batches answered before they were taken: the result that did not arrive
\* counts as one query, which is a whole batch if batches have one query.
Early == IF batch_size = 1 /\ conn_f2c[0] = "dead" THEN 1 ELSE 0

\* A batch is answered only after all its queries were sent, but for those the
\* one result that did not arrive stands for.
LEMMA Ahead ==
  ASSUME CountInv
  PROVE  f2c_batch_id <= Taken + Early
  <1> DEFINE answered == f2c_batch_id * batch_size
             sent == c2f_batch_id * batch_size
             here == IF pcC = "send" THEN 1 ELSE 0
             missing == IF conn_f2c[0] = "dead" THEN 1 ELSE 0
  <1>0. OrderTypes /\ AnswerTypes /\ SentTypes
    BY OrderTypesHold, AnswerTypesHold, SentTypesHold DEF CountInv
  <1>1. answered \in Int /\ sent \in Int
    BY <1>0, CoordinatorAssumption DEF OrderTypes
  <1>2. 0 \in FPGA
    BY DEF FPGA
  <1>3. answered <= finish_F2C_query_id + 1
    <2>1. finish_F2C_query_id + 1 =
            BatchStart + (IF pcF \in {"answer", "post_batch"} THEN batch_size ELSE f2c_query_id)
      BY DEF CountInv, AnswersCounted
    <2>2. BatchStart = answered
      BY DEF BatchStart
    <2>3. f2c_query_id \in Nat
      BY <1>0 DEF AnswerTypes, Query
    <2> HIDE DEF answered
    <2> QED BY <1>1, <2>1, <2>2, <2>3
  <1>4. finish_F2C_query_id + 1 <= fpga_finish_F2C_query_id[0] + 1 + missing
    <2>1. Received(0) <= ReadFrom(0) + missing
      BY DEF CountInv, LeadFrom
    <2>2. finish_F2C_query_id + 1 <= Received(0) /\ Received(0) \in Int
      BY <1>0 DEF AnswerTypes, Received
    <2>3. /\ ReadFrom(0) = fpga_finish_F2C_query_id[0] + 1 - Len(chan_f2c[0])
          /\ Len(chan_f2c[0]) \in Nat /\ finish_F2C_query_id \in Int
          /\ fpga_finish_F2C_query_id[0] \in Int
      BY <1>0, <1>2 DEF AnswerTypes, ReadFrom
    <2>4. missing \in Int
      OBVIOUS
    <2> HIDE DEF missing
    <2> QED BY <2>1, <2>2, <2>3, <2>4
  <1>5. fpga_finish_F2C_query_id[0] <= fpga_finish_C2F_query_id[0]
    <2>1. /\ fpga_finish_F2C_query_id[0] \in Int /\ fpga_finish_C2F_query_id[0] \in Int
          /\ sem_available_results[0] \in Nat
      BY <1>2 DEF CountInv, TypeInv, TypeOK, FPGATypeOK
    <2>2. fpga_finish_F2C_query_id[0] + (IF pcS[0] = "send" THEN 1 ELSE 0)
            + sem_available_results[0] <= fpga_finish_C2F_query_id[0]
      BY <1>2 DEF CountInv, ResultsBacked
    <2> QED BY <2>1, <2>2
  <1>6. fpga_finish_C2F_query_id[0] + 1 <= SentTo(0)
    <2>1. fpga_finish_C2F_query_id[0] + 1 + Cardinality(QueriesIn(chan_c2f[0])) <= SentTo(0)
      BY <1>2 DEF CountInv, SentAtMost
    <2> QED BY <1>0, <1>2, <2>1 DEF SentTypes
  <1>7. SentTo(0) <= sent + c2f_query_id + here
    <2>1. finish_C2F_query_id + 1 = sent + c2f_query_id
      BY DEF CountInv, SendsCounted
    <2> QED BY <1>0, <1>1, <1>2, <2>1 DEF SentTo, OrderTypes
  <1>8. /\ fpga_finish_F2C_query_id[0] \in Int /\ fpga_finish_C2F_query_id[0] \in Int
        /\ SentTo(0) \in Int /\ finish_F2C_query_id \in Int /\ c2f_query_id \in Query
        /\ c2f_batch_id \in Int /\ f2c_batch_id \in Int
    BY <1>0, <1>2 DEF AnswerTypes, SentTypes, OrderTypes
  <1>9. answered <= sent + c2f_query_id + here + missing
    <2>1. missing \in Int
      OBVIOUS
    <2> HIDE DEF missing
    <2> QED BY <1>1, <1>3, <1>4, <1>5, <1>6, <1>7, <1>8, <2>1 DEF Query
  <1>10. answered <= Taken * batch_size + missing
    <2>1. missing \in Int
      OBVIOUS
    <2> HIDE DEF missing
    <2>2. CASE pcC \in {"window", "send"}
      <3>1. c2f_query_id \in Int /\ c2f_query_id + 1 <= batch_size
        BY <1>8, CoordinatorAssumption DEF Query
      <3>2. Taken = c2f_batch_id + 1
        BY <2>2 DEF Taken
      <3>3. (c2f_batch_id + 1) * batch_size = sent + batch_size
        BY <1>8, CoordinatorAssumption, SMT
      <3>4. answered <= sent + batch_size + missing
        BY <1>1, <1>9, <2>1, <3>1, CoordinatorAssumption
      <3> QED BY <3>2, <3>3, <3>4
    <2>3. CASE pcC \notin {"window", "send"}
      <3>1. c2f_query_id = 0 /\ here = 0 /\ Taken = c2f_batch_id
        BY <1>8, <2>3 DEF CountInv, SendsCounted, Taken
      <3>2. answered <= sent + missing
        BY <1>1, <1>9, <2>1, <3>1
      <3> QED BY <3>1, <3>2
    <2> QED BY <2>2, <2>3
  <1>11. missing \in Int /\ Early \in {0, 1} /\ missing < (Early + 1) * batch_size
    <2>1. CASE batch_size = 1 /\ missing = 1
      BY <2>1 DEF Early
    <2>2. CASE batch_size > 1 \/ missing = 0
      BY <2>2, CoordinatorAssumption DEF Early
    <2> QED BY <2>1, <2>2, CoordinatorAssumption
  <1>12. Taken \in Int
    BY <1>8 DEF Taken
  <1> HIDE DEF missing
  <1> QED
    <2> SUFFICES ASSUME Taken + Early + 1 <= f2c_batch_id PROVE FALSE
      BY <1>8, <1>11, <1>12
    <2>1. (Taken + Early + 1) * batch_size <= answered
      BY <1>8, <1>11, <1>12, CoordinatorAssumption, SMT
    <2>2. (Taken + Early + 1) * batch_size = Taken * batch_size + (Early + 1) * batch_size
      BY <1>11, <1>12, CoordinatorAssumption, SMT
    <2> DEFINE taken == Taken * batch_size
               early == (Early + 1) * batch_size
    <2>3. taken \in Int /\ early \in Int /\ missing < early /\ answered <= taken + missing
      BY <1>10, <1>11, <1>12, CoordinatorAssumption
    <2>4. taken + early <= answered
      BY <2>1, <2>2
    <2> HIDE DEF answered, taken, early
    <2> QED BY <1>1, <1>11, <2>3, <2>4

-----------------------------------------------------------------------------
(* The batches in the ring buffer.                                         *)

\* A position at most one turn ahead, wrapped by hand.
Wrap(k) == IF k < G2C_C2F_QUEUE_SIZE THEN k ELSE k - G2C_C2F_QUEUE_SIZE

\* The ring buffer holds the batches first, ..., last - 1, in this order.
RingHolds(ring, first, last) ==
  /\ last - first \in 0 .. G2C_C2F_QUEUE_SIZE
  /\ ring.head_ = Wrap(ring.tail_ + (last - first))
  /\ ring.full_ <=> last - first = G2C_C2F_QUEUE_SIZE
  /\ \A i \in 0 .. last - first - 1 : ring.buf_[Wrap(ring.tail_ + i)] = first + i

\* Steps around the array: the n next slots after t differ from the one after
\* them, which is t again only if they are all there are.
LEMMA Around ==
  ASSUME NEW t \in RB!Slots, NEW n \in 0 .. G2C_C2F_QUEUE_SIZE - 1
  PROVE  /\ RB!next_slot(t) = Wrap(t + 1) /\ Wrap(t) = t
         /\ Wrap(t + 1) \in RB!Slots /\ Wrap(t + n) \in RB!Slots
         /\ \A i \in 0 .. n - 1 : Wrap(t + i) \in RB!Slots /\ Wrap(t + i) # Wrap(t + n)
         /\ Wrap(Wrap(t + n) + 1) = Wrap(t + (n + 1))
         /\ Wrap(t + (n + 1)) = t <=> n + 1 = G2C_C2F_QUEUE_SIZE
         /\ \A i \in 0 .. n : Wrap(Wrap(t + 1) + i) = Wrap(t + (i + 1))
  <1> USE DEF Wrap, RB!Slots
  <1>1. RB!next_slot(t) = Wrap(t + 1)
    <2>1. CASE t + 1 < G2C_C2F_QUEUE_SIZE
      <3>1. (t + 1) % G2C_C2F_QUEUE_SIZE = t + 1
        BY <2>1, SMT
      <3> QED BY <2>1, <3>1 DEF RB!next_slot
    <2>2. CASE t + 1 = G2C_C2F_QUEUE_SIZE
      <3>1. (t + 1) % G2C_C2F_QUEUE_SIZE = 0
        BY <2>2, SMT
      <3> QED BY <2>2, <3>1 DEF RB!next_slot
    <2> QED BY <2>1, <2>2
  <1>2. /\ Wrap(t) = t /\ Wrap(t + 1) \in RB!Slots /\ Wrap(t + n) \in RB!Slots
        /\ \A i \in 0 .. n - 1 : Wrap(t + i) \in RB!Slots /\ Wrap(t + i) # Wrap(t + n)
    OBVIOUS
  <1>3. /\ Wrap(Wrap(t + n) + 1) = Wrap(t + (n + 1))
        /\ Wrap(t + (n + 1)) = t <=> n + 1 = G2C_C2F_QUEUE_SIZE
    OBVIOUS
  <1>4. \A i \in 0 .. n : Wrap(Wrap(t + 1) + i) = Wrap(t + (i + 1))
    OBVIOUS
  <1> QED BY <1>1, <1>2, <1>3, <1>4

\* write_slot adds the next batch, if there is room.
LEMMA RingWrite ==
  ASSUME NEW ring \in RB!RingType(Batch), NEW first \in Int, NEW last \in Int,
         RingHolds(ring, first, last), last - first < G2C_C2F_QUEUE_SIZE
  PROVE  RingHolds(RB!write_slot(ring, last), first, last + 1)
  <1> DEFINE n == last - first
             t == ring.tail_
             next == RB!write_slot(ring, last)
  <1>1. /\ n \in 0 .. G2C_C2F_QUEUE_SIZE - 1 /\ t \in RB!Slots /\ ring.full_ = FALSE
        /\ ring.head_ = Wrap(t + n) /\ last + 1 - first = n + 1 /\ first + n = last
    BY DEF RingHolds, RB!RingType
  <1>2. /\ next.head_ = RB!next_slot(Wrap(t + n)) /\ next.tail_ = t
        /\ next.full_ = (RB!next_slot(Wrap(t + n)) = t)
        /\ next.buf_ = [ring.buf_ EXCEPT ![Wrap(t + n)] = last]
    BY <1>1 DEF RB!write_slot
  <1>3. \A i \in 0 .. n - 1 : ring.buf_[Wrap(t + i)] = first + i
    BY DEF RingHolds
  <1> HIDE DEF n, t, next
  <1>4. Wrap(t + n) \in RB!Slots
    BY <1>1, Around
  <1>5. RB!next_slot(Wrap(t + n)) = Wrap(t + (n + 1))
    <2>1. RB!next_slot(Wrap(t + n)) = Wrap(Wrap(t + n) + 1)
      <3>1. 0 \in 0 .. G2C_C2F_QUEUE_SIZE - 1
        OBVIOUS
      <3> QED BY <1>4, <3>1, Around
    <2> QED BY <1>1, <2>1, Around
  <1>6. next.full_ <=> n + 1 = G2C_C2F_QUEUE_SIZE
    <2>1. Wrap(t + (n + 1)) = t <=> n + 1 = G2C_C2F_QUEUE_SIZE
      <3>1. t \in RB!Slots /\ n \in 0 .. G2C_C2F_QUEUE_SIZE - 1
        BY <1>1
      <3> HIDE DEF t, n
      <3> QED BY <3>1, Around
    <2> QED BY <1>2, <1>5, <2>1, Zenon
  <1>7. ASSUME NEW i \in 0 .. n  PROVE next.buf_[Wrap(t + i)] = first + i
    <2>1. CASE i = n
      BY <1>1, <1>2, <1>4, <2>1 DEF RB!RingType
    <2>2. CASE i # n
      <3>1. i \in 0 .. n - 1
        BY <1>1, <2>2
      <3>2. Wrap(t + i) \in RB!Slots /\ Wrap(t + i) # Wrap(t + n)
        BY <1>1, <3>1, Around
      <3> QED BY <1>2, <1>3, <3>1, <3>2 DEF RB!RingType
    <2> QED BY <2>1, <2>2
  <1>8. n + 1 \in 0 .. G2C_C2F_QUEUE_SIZE /\ n + 1 - 1 = n
    BY <1>1
  <1>9. RingHolds(next, first, last + 1)
    BY <1>1, <1>2, <1>5, <1>6, <1>7, <1>8 DEF RingHolds
  <1> QED BY <1>9 DEF next

\* read_slot takes the first batch away.
LEMMA RingRead ==
  ASSUME NEW ring \in RB!RingType(Batch), NEW first \in Int, NEW last \in Int,
         RingHolds(ring, first, last), first < last, NEW old
  PROVE  /\ RB!read_value(ring, old) = first
         /\ RingHolds(RB!read_slot(ring), first + 1, last)
  <1> DEFINE n == last - first - 1
             t == ring.tail_
             next == RB!read_slot(ring)
  <1>1. /\ n \in 0 .. G2C_C2F_QUEUE_SIZE - 1 /\ t \in RB!Slots
        /\ ring.head_ = Wrap(t + (n + 1)) /\ last - first = n + 1 /\ last - (first + 1) = n
        /\ ring.full_ <=> n + 1 = G2C_C2F_QUEUE_SIZE
    BY DEF RingHolds, RB!RingType
  <1>2. \A i \in 0 .. n : ring.buf_[Wrap(t + i)] = first + i
    BY <1>1 DEF RingHolds
  <1>3. ~RB!empty(ring)
    <2>1. Wrap(t + (n + 1)) = t <=> n + 1 = G2C_C2F_QUEUE_SIZE
      BY <1>1, Around
    <2>2. ring.head_ = t <=> ring.full_
      BY <1>1, <2>1, Zenon
    <2> QED BY <2>2 DEF RB!empty
  <1>4. RB!read_value(ring, old) = ring.buf_[t]
    BY <1>3 DEF RB!read_value
  <1>5. /\ next.head_ = ring.head_ /\ next.full_ = FALSE /\ next.buf_ = ring.buf_
        /\ next.tail_ = Wrap(t + 1) /\ Wrap(t + 1) \in RB!Slots
    <2>1. RB!next_slot(t) = Wrap(t + 1) /\ Wrap(t + 1) \in RB!Slots
      BY <1>1, Around
    <2> QED BY <1>3, <2>1 DEF RB!read_slot, RB!RingType
  <1> HIDE DEF n, t, next
  <1>6. Wrap(t + 0) = t /\ ring.buf_[t] = first
    <2>1. Wrap(t + 0) = t
      BY <1>1 DEF Wrap, RB!Slots
    <2>2. 0 \in 0 .. n
      BY <1>1
    <2> QED BY <1>2, <2>1, <2>2
  <1>7. /\ ring.head_ = Wrap(Wrap(t + 1) + n)
        /\ \A i \in 0 .. n - 1 : Wrap(Wrap(t + 1) + i) = Wrap(t + (i + 1))
    BY <1>1, Around
  <1>8. ASSUME NEW i \in 0 .. n - 1  PROVE next.buf_[Wrap(next.tail_ + i)] = first + 1 + i
    <2>1. i + 1 \in 0 .. n /\ first + (i + 1) = first + 1 + i
      BY <1>1
    <2> QED BY <1>2, <1>5, <1>7, <2>1
  <1>9. n \in 0 .. G2C_C2F_QUEUE_SIZE /\ n # G2C_C2F_QUEUE_SIZE
    BY <1>1
  <1>10. RingHolds(next, first + 1, last)
    BY <1>1, <1>5, <1>7, <1>8, <1>9 DEF RingHolds
  <1> QED BY <1>4, <1>6, <1>10 DEF next

-----------------------------------------------------------------------------
(* Batches from the GPU to the C2F thread, whatever fails.                 *)

\* The batches before w are in the ring buffer or were taken, w and those after
\* it are on their way.  All the G2C thread counted are before w, or all but the
\* one that read() failed to deliver; that one the C2F thread takes without
\* finding it in the ring buffer.
BatchFlow(w) ==
  /\ \/ w = Written
     \/ w = Written - 1 /\ conn_g2c = "dead" /\ chan_g2c = <<>>
  /\ \A i \in 1 .. Len(chan_g2c) : chan_g2c[i] = w + i - 1
  /\ conn_g2c \notin {"reset", "dead"} => gpu_sent = w + Len(chan_g2c)
  /\ pcG = "connect" => conn_g2c = "none"
  /\ RingHolds(ring_buffer_G2C, IF Taken <= w THEN Taken ELSE w, w)
  /\ pcC \in {"window", "send"} /\ G2C_conv_buf # c2f_batch_id =>
       c2f_batch_id = w /\ w = Written - 1 /\ g2c_batch_id = w + 1

FlowInv == \E w \in Int : BatchFlow(w)

batchVars == <<conn_g2c, chan_g2c, gpu_sent, g2c_batch_id, pcG, ring_buffer_G2C>>
flowVars == <<batchVars, pcC, c2f_batch_id, G2C_conv_buf>>

\* There is a free slot whenever the G2C thread writes one.
RoomToWrite == pcG = "read" => Written - Taken < G2C_C2F_QUEUE_SIZE

\* Whatever fails, batches go from the GPU to the C2F thread in order.
LEMMA NextFlow ==
  ASSUME TypeInv, WindowAccounting, RoomToWrite, FlowInv, [Next]_vars
  PROVE  FlowInv'
  <1>0. OrderTypes
    BY OrderTypesHold
  <1> PICK w \in Int : BatchFlow(w)
    BY DEF FlowInv
  <1>a. ASSUME UNCHANGED <<Written, Taken, chan_g2c, conn_g2c, gpu_sent, ring_buffer_G2C>>,
               pcG' = "connect" => pcG = "connect",
               pcC' \in {"window", "send"} /\ G2C_conv_buf' # c2f_batch_id' =>
                 /\ pcC \in {"window", "send"} /\ G2C_conv_buf # c2f_batch_id
                 /\ UNCHANGED <<c2f_batch_id, g2c_batch_id>>
        PROVE  FlowInv'
    <2>1. BatchFlow(w)'
      BY <1>a DEF BatchFlow, RingHolds
    <2> QED BY <2>1 DEF FlowInv
  <1>b. UNCHANGED flowVars => FlowInv'
    <2> SUFFICES ASSUME UNCHANGED flowVars PROVE FlowInv'
      OBVIOUS
    <2>1. UNCHANGED <<Written, Taken>>
      BY DEF flowVars, batchVars, Written, Taken
    <2> QED BY <1>a, <2>1 DEF flowVars, batchVars
  <1>c. Taken <= Written /\ (pcC = "read_slot" => Taken = c2f_batch_id /\ Taken < g2c_batch_id
                                                 /\ g2c_batch_id <= Written)
    <2>1. /\ sem_available_batches_to_send = g2c_batch_id - BatchesTaken
          /\ sem_available_batches_to_send \in Nat
      BY DEF WindowAccounting, TypeInv, TypeOK, SharedTypeOK
    <2> QED BY <1>0, <2>1 DEF BatchesTaken, Taken, Written, OrderTypes
  \* The G2C thread.
  <1>1. CASE connect_G2C /\ UNCHANGED gpuVars
    <2>1. /\ pcG = "connect" /\ pcG' = "wait_C2F" /\ conn_g2c' = "open"
          /\ UNCHANGED <<g2c_batch_id, ring_buffer_G2C, chan_g2c, gpu_sent, pcC, c2f_batch_id,
                         G2C_conv_buf>>
      BY <1>1 DEF connect_G2C, c2fVars, gpuVars
    <2>2. Written' = Written /\ Taken' = Taken
      BY <2>1 DEF Written, Taken
    <2>3. BatchFlow(w)'
      BY <2>1, <2>2 DEF BatchFlow, RingHolds
    <2> QED BY <2>3 DEF FlowInv
  <1>2. CASE (G2C_wait_C2F \/ G2C_window) /\ UNCHANGED gpuVars
    <2>1. /\ \/ UNCHANGED <<flowVars, g2c_batch_id>>
             \/ pcG # "post" /\ pcG' # "post" /\ pcG' # "connect"
          /\ UNCHANGED <<g2c_batch_id, ring_buffer_G2C, chan_g2c, conn_g2c, gpu_sent, pcC,
                         c2f_batch_id, G2C_conv_buf>>
      BY <1>2 DEF G2C_wait_C2F, G2C_window, netVars, c2fVars, gpuVars
    <2>2. CASE ~ UNCHANGED <<flowVars, g2c_batch_id>>
      <3>1. Written' = Written /\ Taken' = Taken
        BY <2>1, <2>2 DEF Written, Taken
      <3> QED BY <1>a, <2>1, <2>2, <3>1
    <2> QED BY <1>b, <2>2
  <1>3. CASE G2C_post /\ UNCHANGED gpuVars
    <2>1. /\ pcG = "post" /\ pcG' \notin {"post", "connect"} /\ g2c_batch_id' = g2c_batch_id + 1
          /\ UNCHANGED <<ring_buffer_G2C, chan_g2c, conn_g2c, gpu_sent, pcC,
                         c2f_batch_id, G2C_conv_buf>>
      BY <1>3 DEF G2C_post, netVars, c2fVars, gpuVars
    <2>2. Written' = Written /\ Taken' = Taken /\ Written = g2c_batch_id + 1
      BY <1>0, <2>1 DEF Written, Taken, OrderTypes
    <2>3. ~ (pcC \in {"window", "send"} /\ G2C_conv_buf # c2f_batch_id)
      BY <1>0, <2>2 DEF BatchFlow, OrderTypes
    <2> QED BY <1>a, <2>1, <2>2, <2>3
  <1>4. CASE receive_G2C_batch_query /\ chan_g2c # <<>> /\ UNCHANGED gpuVars
    <2>1. /\ pcG = "read" /\ pcG' = "post"
          /\ ring_buffer_G2C' = RB!write_slot(ring_buffer_G2C, Head(chan_g2c))
          /\ chan_g2c' = Tail(chan_g2c)
          /\ UNCHANGED <<conn_g2c, gpu_sent, g2c_batch_id, pcC, c2f_batch_id, G2C_conv_buf>>
      BY <1>4 DEF receive_G2C_batch_query, c2fVars, gpuVars
    <2>2. Written = g2c_batch_id /\ Written' = Written + 1 /\ Taken' = Taken
      BY <1>0, <2>1 DEF Written, Taken, OrderTypes
    <2>3. w = Written
      BY <1>4 DEF BatchFlow
    <2>4. /\ Len(chan_g2c) >= 1 /\ Head(chan_g2c) = chan_g2c[1] /\ Len(chan_g2c) \in Nat
          /\ Len(chan_g2c') = Len(chan_g2c) - 1
          /\ \A i \in 1 .. Len(chan_g2c) - 1 : chan_g2c'[i] = chan_g2c[i + 1]
      BY <1>0, <1>4, <2>1 DEF OrderTypes
    <2>5. Head(chan_g2c) = w
      <3>1. 1 \in 1 .. Len(chan_g2c)
        BY <2>4
      <3> QED BY <2>4, <3>1 DEF BatchFlow
    <2>6. RingHolds(RB!write_slot(ring_buffer_G2C, w), Taken, w + 1)
      <3>1. RingHolds(ring_buffer_G2C, Taken, w)
        BY <1>c, <2>3 DEF BatchFlow
      <3>2. w - Taken < G2C_C2F_QUEUE_SIZE
        BY <2>1, <2>3 DEF RoomToWrite
      <3> QED BY <1>0, <3>1, <3>2, RingWrite DEF OrderTypes
    <2>7. RingHolds(ring_buffer_G2C, IF Taken <= w + 1 THEN Taken ELSE w + 1, w + 1)'
      <3>1. Taken <= w + 1
        BY <1>0, <1>c, <2>3 DEF OrderTypes
      <3> QED BY <2>1, <2>2, <2>5, <2>6, <3>1 DEF RingHolds
    <2>8. \A i \in 1 .. Len(chan_g2c') : chan_g2c'[i] = (w + 1) + i - 1
      <3> SUFFICES ASSUME NEW i \in 1 .. Len(chan_g2c')  PROVE chan_g2c'[i] = (w + 1) + i - 1
        OBVIOUS
      <3>1. i + 1 \in 1 .. Len(chan_g2c) /\ i \in 1 .. Len(chan_g2c) - 1 /\ i \in Int
        BY <2>4
      <3>2. chan_g2c[i + 1] = w + (i + 1) - 1
        BY <3>1 DEF BatchFlow
      <3> QED BY <2>4, <3>1, <3>2
    <2>9. conn_g2c' \notin {"reset", "dead"} => gpu_sent' = w + 1 + Len(chan_g2c')
      <3> SUFFICES ASSUME conn_g2c \notin {"reset", "dead"}
                   PROVE  gpu_sent = w + 1 + Len(chan_g2c')
        BY <2>1
      <3>1. gpu_sent = w + Len(chan_g2c)
        BY DEF BatchFlow
      <3> DEFINE k == Len(chan_g2c)
                 k1 == Len(chan_g2c')
      <3>2. gpu_sent = w + k /\ k1 = k - 1 /\ k \in Int
        BY <2>4, <3>1
      <3> HIDE DEF k, k1
      <3>3. gpu_sent = w + 1 + k1
        BY <3>2
      <3> QED BY <3>3 DEF k1
    <2>10. ~ (pcC \in {"window", "send"} /\ G2C_conv_buf # c2f_batch_id)
      BY <1>0, <2>3 DEF BatchFlow, OrderTypes
    <2>11. BatchFlow(w + 1)'
      BY <2>1, <2>2, <2>3, <2>7, <2>8, <2>9, <2>10 DEF BatchFlow
    <2>12. w + 1 \in Int
      OBVIOUS
    <2> QED BY <2>11, <2>12 DEF FlowInv
  <1>5. CASE receive_G2C_batch_query /\ chan_g2c = <<>> /\ UNCHANGED gpuVars
    <2>1. /\ pcG = "read" /\ pcG' = "post" /\ conn_g2c = "reset" /\ conn_g2c' = "dead"
          /\ UNCHANGED <<ring_buffer_G2C, chan_g2c, gpu_sent, g2c_batch_id, pcC, c2f_batch_id,
                         G2C_conv_buf>>
      BY <1>5 DEF receive_G2C_batch_query, c2fVars, gpuVars
    <2>2. Written' = Written + 1 /\ Taken' = Taken
      BY <1>0, <2>1 DEF Written, Taken, OrderTypes
    <2>3. w = Written
      BY <2>1 DEF BatchFlow
    <2>4. ~ (pcC \in {"window", "send"} /\ G2C_conv_buf # c2f_batch_id)
      BY <1>0, <2>3 DEF BatchFlow, OrderTypes
    <2>5. w = Written' - 1 /\ chan_g2c' = <<>>
      BY <1>5, <2>1, <2>2, <2>3
    <2>6. BatchFlow(w)'
      BY <2>1, <2>2, <2>4, <2>5 DEF BatchFlow, RingHolds
    <2> QED BY <2>6 DEF FlowInv
  \* The C2F thread.
  <1>6. CASE C2F_read_slot /\ UNCHANGED gpuVars
    <2>1. /\ UNCHANGED <<conn_g2c, chan_g2c, gpu_sent, g2c_batch_id, pcG, c2f_batch_id>>
          /\ pcC = "read_slot" /\ pcC' = "window"
          /\ ring_buffer_G2C' = RB!read_slot(ring_buffer_G2C)
          /\ G2C_conv_buf' = RB!read_value(ring_buffer_G2C, G2C_conv_buf)
      BY <1>6 DEF C2F_read_slot, netVars, g2cVars, gpuVars
    <2>2. Written' = Written /\ Taken' = Taken + 1 /\ Taken = c2f_batch_id
      BY <1>0, <2>1 DEF Written, Taken, OrderTypes
    <2>3. Taken < g2c_batch_id /\ g2c_batch_id <= Written
      BY <1>c, <2>1
    <2>4. CASE Taken < w
      <3>1. RingHolds(ring_buffer_G2C, Taken, w)
        BY <1>0, <2>4 DEF BatchFlow, OrderTypes
      <3>2. /\ RB!read_value(ring_buffer_G2C, G2C_conv_buf) = Taken
            /\ RingHolds(RB!read_slot(ring_buffer_G2C), Taken + 1, w)
        BY <1>0, <2>4, <3>1, RingRead DEF OrderTypes
      <3>3. Taken + 1 <= w
        BY <1>0, <2>4 DEF OrderTypes
      <3>4. RingHolds(ring_buffer_G2C, IF Taken <= w THEN Taken ELSE w, w)'
        BY <2>1, <2>2, <3>2, <3>3 DEF RingHolds
      <3>5. G2C_conv_buf' = c2f_batch_id'
        BY <2>1, <2>2, <3>2
      <3>6. BatchFlow(w)'
        BY <2>1, <2>2, <3>4, <3>5 DEF BatchFlow
      <3> QED BY <3>6 DEF FlowInv
    <2>5. CASE ~ (Taken < w)
      <3>1. /\ w = Written - 1 /\ Taken = w /\ g2c_batch_id = w + 1
        <4>1. w = Written \/ w = Written - 1
          BY DEF BatchFlow
        <4> QED BY <1>0, <2>3, <2>5, <4>1 DEF OrderTypes
      <3>2. RingHolds(ring_buffer_G2C, w, w)
        BY <3>1 DEF BatchFlow
      <3>3. RB!empty(ring_buffer_G2C)
        <4>1. ring_buffer_G2C.tail_ \in RB!Slots /\ ring_buffer_G2C.full_ \in BOOLEAN
          BY <1>0 DEF OrderTypes, RB!RingType
        <4>2. /\ ring_buffer_G2C.head_ = Wrap(ring_buffer_G2C.tail_ + (w - w))
              /\ ring_buffer_G2C.full_ <=> w - w = G2C_C2F_QUEUE_SIZE
          BY <3>2 DEF RingHolds
        <4>3. w - w = 0 /\ ring_buffer_G2C.tail_ + 0 = ring_buffer_G2C.tail_
              /\ Wrap(ring_buffer_G2C.tail_) = ring_buffer_G2C.tail_
          BY <4>1 DEF RB!Slots, Wrap
        <4> QED BY <4>1, <4>2, <4>3, CoordinatorAssumption DEF RB!empty
      <3>4. ring_buffer_G2C' = ring_buffer_G2C
        BY <2>1, <3>3 DEF RB!read_slot
      <3>5. ~ (Taken + 1 <= w)
        BY <1>0, <3>1 DEF OrderTypes
      <3>6. RingHolds(ring_buffer_G2C, IF Taken <= w THEN Taken ELSE w, w)'
        BY <2>2, <3>2, <3>4, <3>5 DEF RingHolds
      <3>7. c2f_batch_id' = w /\ w = Written' - 1 /\ g2c_batch_id' = w + 1
        BY <2>1, <2>2, <3>1
      <3>8. BatchFlow(w)'
        BY <2>1, <2>2, <3>6, <3>7 DEF BatchFlow
      <3> QED BY <3>8 DEF FlowInv
    <2> QED BY <2>4, <2>5
  <1>7. CASE thread_C2F /\ ~C2F_read_slot /\ UNCHANGED gpuVars
    <2>1. UNCHANGED batchVars
      BY <1>7 DEF thread_C2F, C2F_wait_F2C, C2F_wait_G2C, connect_C2F, send_C2F_header,
           C2F_available, C2F_window, send_C2F_query, C2F_sigpipe, netVars, g2cVars, gpuVars,
           batchVars
    <2>2. /\ Taken' = Taken /\ UNCHANGED G2C_conv_buf
          /\ pcC' \in {"window", "send"} => pcC \in {"window", "send"} /\ UNCHANGED c2f_batch_id
      <3>1. CASE send_C2F_query
        BY <1>0, <3>1 DEF send_C2F_query, Taken, OrderTypes
      <3>2. CASE send_C2F_header
        BY <1>0, <3>2 DEF send_C2F_header, Taken, OrderTypes
      <3>3. CASE connect_C2F
        BY <1>0, <3>3 DEF connect_C2F, Taken, OrderTypes
      <3>4. CASE ~send_C2F_query /\ ~send_C2F_header /\ ~connect_C2F
        BY <1>0, <1>7, <3>4 DEF thread_C2F, C2F_wait_F2C, C2F_wait_G2C, C2F_available,
           C2F_window, C2F_sigpipe, c2fVars, Taken, OrderTypes
      <3> QED BY <3>1, <3>2, <3>3, <3>4
    <2>3. UNCHANGED Written
      BY <2>1 DEF batchVars, Written
    <2> QED BY <1>a, <2>1, <2>2, <2>3 DEF batchVars
  \* The F2C_C2G thread and the simulators.
  <1>8. CASE thread_F2C_C2G /\ UNCHANGED gpuVars
    <2>1. /\ UNCHANGED <<chan_g2c, gpu_sent, g2c_batch_id, pcG, ring_buffer_G2C>>
          /\ UNCHANGED c2fVars
          /\ conn_g2c' = conn_g2c \/ (conn_g2c = "reset" /\ conn_g2c' = "dead")
      <3>1. CASE send_C2G_batch_result
        BY <1>8, <3>1 DEF send_C2G_batch_result, g2cVars, gpuVars
      <3>2. CASE ~ send_C2G_batch_result
        <4>1. UNCHANGED <<chan_g2c, conn_g2c, g2cVars, ring_buffer_G2C, c2fVars>>
          BY <1>8, <3>2 DEF thread_F2C_C2G, F2C_listen, F2C_accept, F2C_wait_C2F,
             receive_F2C_batch_result, F2C_post_query, C2G_sigpipe, F2C_post_batch, netVars
        <4> QED BY <1>8, <4>1 DEF g2cVars, gpuVars
      <3> QED BY <3>1, <3>2
    <2>2. UNCHANGED <<Written, Taken>>
      BY <2>1 DEF c2fVars, Written, Taken
    <2>3. BatchFlow(w)'
      BY <2>1, <2>2 DEF BatchFlow, RingHolds, c2fVars
    <2> QED BY <2>3 DEF FlowInv
  <1>9. ASSUME NEW n \in FPGA, FPGANext(n), UNCHANGED <<coordVars, gpuVars>>
        PROVE  FlowInv'
    <2>1. UNCHANGED <<conn_g2c, chan_g2c>>
      BY <1>9 DEF FPGANext, start_C2F_F2C_threads, FPGA_thread_C2F, R_listen, R_accept,
           R_wait_F2C, R_header, R_query, R_fail, FPGA_thread_F2C, S_connect, S_wait_C2F,
           S_batch, S_result, S_send, S_fail, netVars
    <2> QED BY <1>9, <1>b, <2>1 DEF coordVars, g2cVars, c2fVars, gpuVars, batchVars, flowVars
  \* The GPU.
  <1>10. CASE GPU_send
    <2>1. /\ chan_g2c' = Append(chan_g2c, gpu_sent) /\ gpu_sent' = gpu_sent + 1
          /\ UNCHANGED <<conn_g2c, g2c_batch_id, pcG, ring_buffer_G2C, c2fVars>>
          /\ conn_g2c = "open"
      BY <1>10 DEF GPU_send, coordVars, g2cVars, CanSend
    <2>2. Written' = Written /\ Taken' = Taken
      BY <2>1 DEF Written, Taken, c2fVars
    <2>3. /\ Len(chan_g2c') = Len(chan_g2c) + 1 /\ Len(chan_g2c) \in Nat
          /\ chan_g2c'[Len(chan_g2c) + 1] = gpu_sent
          /\ \A i \in 1 .. Len(chan_g2c) : chan_g2c'[i] = chan_g2c[i]
      <3>1. chan_g2c \in Seq(Batch)
        BY <1>0 DEF OrderTypes
      <3> QED BY <2>1, <3>1
    <2>4. w = Written /\ gpu_sent = w + Len(chan_g2c)
      BY <2>1 DEF BatchFlow
    <2>5. \A i \in 1 .. Len(chan_g2c') : chan_g2c'[i] = w + i - 1
      <3> SUFFICES ASSUME NEW i \in 1 .. Len(chan_g2c')  PROVE chan_g2c'[i] = w + i - 1
        OBVIOUS
      <3>1. CASE i = Len(chan_g2c) + 1
        BY <1>0, <2>3, <2>4, <3>1 DEF OrderTypes
      <3>2. CASE i # Len(chan_g2c) + 1
        <4>1. i \in 1 .. Len(chan_g2c)
          BY <2>3, <3>2
        <4> QED BY <2>3, <4>1 DEF BatchFlow
      <3> QED BY <3>1, <3>2
    <2>6. gpu_sent' = w + Len(chan_g2c')
      BY <1>0, <2>1, <2>3, <2>4 DEF OrderTypes
    <2>7. BatchFlow(w)'
      BY <2>1, <2>2, <2>4, <2>5, <2>6 DEF BatchFlow, RingHolds, c2fVars
    <2> QED BY <2>7 DEF FlowInv
  <1>11. CASE GPU_receive \/ Halted \/ UNCHANGED vars
    <2>1. UNCHANGED batchVars /\ UNCHANGED c2fVars
      BY <1>11 DEF GPU_receive, Halted, vars, coordVars, g2cVars, netVars, gpuVars, batchVars
    <2> QED BY <1>b, <2>1 DEF c2fVars, flowVars
  \* Resets.
  <1>12. CASE Reset /\ UNCHANGED <<coordVars, fpgaVars, gpuVars>>
    <2>0. UNCHANGED <<gpu_sent, g2c_batch_id, pcG, ring_buffer_G2C>> /\ UNCHANGED c2fVars
      BY <1>12 DEF coordVars, g2cVars, gpuVars
    <2>1. CASE UNCHANGED <<chan_g2c, conn_g2c>>
      BY <1>b, <2>0, <2>1 DEF batchVars, flowVars, c2fVars
    <2>2. CASE ResetG2C
      <3>1. conn_g2c = "open" /\ conn_g2c' = "reset"
        BY <2>2 DEF ResetG2C
      <3>2. PICK k \in 0 .. Len(chan_g2c) : chan_g2c' = SubSeq(chan_g2c, 1, k)
        BY <2>2 DEF ResetG2C, Prefix
      <3>3. /\ Len(chan_g2c') = k /\ k <= Len(chan_g2c)
            /\ \A i \in 1 .. k : i \in 1 .. Len(chan_g2c) /\ chan_g2c'[i] = chan_g2c[i]
        <4>1. chan_g2c \in Seq(Batch)
          BY <1>0 DEF OrderTypes
        <4> QED BY <3>2, <4>1
      <3>4. UNCHANGED <<Written, Taken>>
        BY <2>0 DEF Written, Taken, c2fVars
      <3>5. w = Written /\ pcG # "connect"
        BY <3>1 DEF BatchFlow
      <3>6. \A i \in 1 .. Len(chan_g2c') : chan_g2c'[i] = w + i - 1
        BY <3>3 DEF BatchFlow
      <3>7. BatchFlow(w)'
        BY <2>0, <3>1, <3>4, <3>5, <3>6 DEF BatchFlow, RingHolds, c2fVars
      <3> QED BY <3>7 DEF FlowInv
    <2> QED BY <1>12, <2>1, <2>2 DEF Reset, ResetC2F, ResetF2C
  <1> QED BY <1>1, <1>2, <1>3, <1>4, <1>5, <1>6, <1>7, <1>8, <1>9, <1>10, <1>11, <1>12
         DEF Next, CoordNext, thread_G2C

\* The batch window leaves a free slot, if it does not exceed the ring buffer
\* and no batch counts as answered before it was taken.
LEMMA Room ==
  ASSUME CountInv, batch_window_size <= G2C_C2F_QUEUE_SIZE,
         batch_size > 1 \/ batch_window_size < G2C_C2F_QUEUE_SIZE \/ conn_f2c[0] # "dead"
  PROVE  RoomToWrite
  <1> SUFFICES ASSUME pcG = "read" PROVE Written - Taken < G2C_C2F_QUEUE_SIZE
    BY DEF RoomToWrite
  <1>0. OrderTypes
    BY OrderTypesHold DEF CountInv
  <1>1. BatchesAdmitted = Written + 1
    BY <1>0 DEF BatchesAdmitted, Written, OrderTypes
  <1>2. /\ sem_batch_window_free_slots = batch_window_size - (BatchesAdmitted - f2c_batch_id)
        /\ sem_batch_window_free_slots \in Nat
    BY DEF CountInv, WindowAccounting, TypeInv, TypeOK, SharedTypeOK
  <1>3. f2c_batch_id <= Taken + Early
    BY Ahead
  <1>4. Written \in Int /\ Taken \in Int /\ f2c_batch_id \in Int
    BY <1>0 DEF OrderTypes
  <1>5. CASE batch_size = 1 /\ conn_f2c[0] = "dead"
    BY <1>1, <1>2, <1>3, <1>4, <1>5, CoordinatorAssumption DEF Early
  <1>6. CASE ~ (batch_size = 1 /\ conn_f2c[0] = "dead")
    BY <1>1, <1>2, <1>3, <1>4, <1>6, CoordinatorAssumption DEF Early
  <1> QED BY <1>5, <1>6

LEMMA FlowInit == Init => FlowInv
  <1> SUFFICES ASSUME Init PROVE FlowInv
    OBVIOUS
  <1>1. /\ conn_g2c = "none" /\ gpu_sent = 0 /\ chan_g2c = <<>> /\ pcG = "connect"
        /\ g2c_batch_id = 0 /\ ring_buffer_G2C = RB!RingInit /\ pcC = "wait_F2C"
        /\ c2f_batch_id = 0
    BY DEF Init, NetInit, CoordInit
  <1>2. Written = 0 /\ Taken = 0
    BY <1>1 DEF Written, Taken
  <1>3. RingHolds(ring_buffer_G2C, Taken, Written)
    BY <1>1, <1>2, CoordinatorAssumption DEF RB!RingInit, RingHolds, Wrap
  <1>4. BatchFlow(0)
    BY <1>1, <1>2, <1>3 DEF BatchFlow
  <1> QED BY <1>4 DEF FlowInv

\* For any number of FPGAs, batches and queries and whatever fails: as long as
\* the ring buffer has a slot for every batch of the window, and one to spare
\* when a batch is one query, a batch the GPU did not send is forwarded only
\* after the GPU's connection failed, and it is the last one.
THEOREM StaleAfterReset ==
  ASSUME batch_window_size <= G2C_C2F_QUEUE_SIZE,
         batch_size > 1 \/ batch_window_size < G2C_C2F_QUEUE_SIZE
  PROVE  Spec => []StaleBatchOnlyAfterReset
<1>1. CountInv /\ FlowInv /\ [Next]_vars => FlowInv'
  BY Room, NextFlow DEF CountInv
<1>2. CountInv /\ FlowInv => StaleBatchOnlyAfterReset
  <2> SUFFICES ASSUME CountInv, FlowInv, pcC \in {"window", "send"}, G2C_conv_buf # c2f_batch_id
               PROVE  conn_g2c = "dead" /\ c2f_batch_id = g2c_batch_id - 1
    BY DEF StaleBatchOnlyAfterReset
  <2>1. PICK w \in Int : BatchFlow(w)
    BY DEF FlowInv
  <2>2. OrderTypes
    BY OrderTypesHold DEF CountInv
  <2>3. c2f_batch_id = w /\ w = Written - 1 /\ g2c_batch_id = w + 1
    BY <2>1 DEF BatchFlow
  <2>4. w # Written /\ c2f_batch_id = g2c_batch_id - 1
    BY <2>2, <2>3 DEF OrderTypes
  <2> QED BY <2>1, <2>4 DEF BatchFlow
<1> QED BY <1>1, <1>2, FlowInit, CountHolds, PTL DEF Spec

-----------------------------------------------------------------------------
(* The queries on the way.                                                 *)

\* The queries among the first i messages.
UpTo(c, i) == {j \in 1 .. i : c[j].type = "query"}

LEMMA UpToAppend ==
  ASSUME NEW c \in Seq(Message), NEW msg \in Message
  PROVE  /\ \A i \in 1 .. Len(c) : UpTo(Append(c, msg), i) = UpTo(c, i)
         /\ UpTo(Append(c, msg), Len(c) + 1) = QueriesIn(Append(c, msg))
  <1> DEFINE d == Append(c, msg)
  <1>1. /\ DOMAIN d = 1 .. Len(c) + 1 /\ Len(c) \in Nat
        /\ \A i \in 1 .. Len(c) : d[i] = c[i]
    OBVIOUS
  <1> HIDE DEF d
  <1>2. ASSUME NEW i \in 1 .. Len(c)  PROVE UpTo(d, i) = UpTo(c, i)
    BY <1>1 DEF UpTo
  <1>3. UpTo(d, Len(c) + 1) = QueriesIn(d)
    BY <1>1 DEF UpTo, QueriesIn
  <1> QED BY <1>2, <1>3 DEF d

\* Taking a message away takes one query away, or none, from those before.
LEMMA UpToTail ==
  ASSUME NEW c \in Seq(Message), NEW i \in 1 .. Len(c) - 1
  PROVE  /\ Cardinality(UpTo(c, i + 1)) =
              Cardinality(UpTo(Tail(c), i)) + (IF Head(c).type = "query" THEN 1 ELSE 0)
         /\ Cardinality(UpTo(Tail(c), i)) \in Nat
  <1> DEFINE d == SubSeq(c, 1, i + 1)
             e == Tail(c)
             f == Tail(d)
  <1>1. /\ d \in Seq(Message) /\ d # <<>> /\ DOMAIN d = 1 .. i + 1 /\ Head(d) = Head(c)
        /\ \A j \in 1 .. i + 1 : d[j] = c[j]
    <2>1. i + 1 \in Int /\ \A j \in 1 .. i + 1 : c[j] \in Message
      OBVIOUS
    <2>2. /\ d \in Seq(Message) /\ Len(d) = i + 1
          /\ \A j \in 1 .. i + 1 : d[j] = c[1 + j - 1]
      <3>1. i + 1 - 1 + 1 = i + 1
        OBVIOUS
      <3> QED BY <2>1, <3>1, SubSeqProperties
    <2> HIDE DEF d
    <2> QED BY <2>2
  <1>2. /\ f \in Seq(Message) /\ DOMAIN f = 1 .. i
        /\ \A j \in 1 .. i : f[j] = e[j]
    <2>1. Len(d) = i + 1 /\ i \in Nat
      OBVIOUS
    <2>2. \A j \in 1 .. Len(c) - 1 : e[j] = c[j + 1]
      OBVIOUS
    <2> HIDE DEF d, e
    <2>3. f \in Seq(Message) /\ DOMAIN f = 1 .. i /\ \A j \in 1 .. i : f[j] = d[j + 1]
      BY <1>1, <2>1
    <2> HIDE DEF f
    <2>4. ASSUME NEW j \in 1 .. i  PROVE f[j] = e[j]
      <3>1. j + 1 \in 1 .. i + 1 /\ j \in 1 .. Len(c) - 1
        BY <2>1
      <3> QED BY <1>1, <2>2, <2>3, <3>1
    <2> QED BY <2>3, <2>4
  <1> HIDE DEF d, e
  <1>3. Cardinality(QueriesIn(d)) =
          Cardinality(QueriesIn(f)) + (IF Head(c).type = "query" THEN 1 ELSE 0)
    BY <1>1, QueriesTail
  <1> HIDE DEF f
  <1>4. QueriesIn(d) = UpTo(c, i + 1) /\ QueriesIn(f) = UpTo(e, i)
    BY <1>1, <1>2 DEF QueriesIn, UpTo
  <1>5. Cardinality(QueriesIn(f)) \in Nat
    BY <1>2, QueriesFinite
  <1> QED BY <1>3, <1>4, <1>5 DEF e

NumbersFrom(c, first) ==
  \A i \in 1 .. Len(c) : c[i].type = "query" =>
    c[i].batch * batch_size + c[i].query = first + Cardinality(UpTo(c, i))

LEMMA NumbersAppend ==
  ASSUME NEW c \in Seq(Message), NEW msg \in Message, NEW first \in Int,
         NumbersFrom(c, first),
         msg.type = "query" =>
           msg.batch * batch_size + msg.query = first + (Cardinality(QueriesIn(c)) + 1)
  PROVE  NumbersFrom(Append(c, msg), first)
  <1> DEFINE d == Append(c, msg)
  <1>1. /\ Len(d) = Len(c) + 1 /\ Len(c) \in Nat /\ d[Len(c) + 1] = msg
        /\ \A i \in 1 .. Len(c) : d[i] = c[i]
    OBVIOUS
  <1>2. /\ \A i \in 1 .. Len(c) : UpTo(d, i) = UpTo(c, i)
        /\ UpTo(d, Len(c) + 1) = QueriesIn(d)
    BY UpToAppend
  <1>3. msg.type = "query" => Cardinality(QueriesIn(d)) = Cardinality(QueriesIn(c)) + 1
    BY QueriesAppend
  <1> HIDE DEF d
  <1>4. ASSUME NEW i \in 1 .. Len(d), d[i].type = "query"
        PROVE  d[i].batch * batch_size + d[i].query = first + Cardinality(UpTo(d, i))
    <2>1. CASE i = Len(c) + 1
      BY <1>1, <1>2, <1>3, <1>4, <2>1
    <2>2. CASE i # Len(c) + 1
      <3>1. i \in 1 .. Len(c)
        BY <1>1, <2>2
      <3> QED BY <1>1, <1>2, <1>4, <3>1 DEF NumbersFrom
    <2> QED BY <2>1, <2>2
  <1>5. NumbersFrom(d, first)
    BY <1>4 DEF NumbersFrom
  <1> QED BY <1>5 DEF d

LEMMA NumbersTail ==
  ASSUME NEW c \in Seq(Message), c # <<>>, NEW first \in Int, NumbersFrom(c, first)
  PROVE  NumbersFrom(Tail(c), first + (IF Head(c).type = "query" THEN 1 ELSE 0))
  <1> DEFINE e == Tail(c)
             one == IF Head(c).type = "query" THEN 1 ELSE 0
  <1>1. /\ Len(e) = Len(c) - 1 /\ Len(c) \in Nat
        /\ \A i \in 1 .. Len(c) - 1 : e[i] = c[i + 1]
    OBVIOUS
  <1>2. \A i \in 1 .. Len(c) - 1 :
          /\ Cardinality(UpTo(c, i + 1)) = Cardinality(UpTo(e, i)) + one
          /\ Cardinality(UpTo(e, i)) \in Nat
    BY UpToTail
  <1>3. one \in Int
    OBVIOUS
  <1> HIDE DEF e, one
  <1>4. ASSUME NEW i \in 1 .. Len(e), e[i].type = "query"
        PROVE  e[i].batch * batch_size + e[i].query = (first + one) + Cardinality(UpTo(e, i))
    <2>1. i \in 1 .. Len(c) - 1 /\ i + 1 \in 1 .. Len(c) /\ e[i] = c[i + 1]
      BY <1>1
    <2>2. e[i].batch * batch_size + e[i].query = first + Cardinality(UpTo(c, i + 1))
      BY <1>4, <2>1 DEF NumbersFrom
    <2>3. first + Cardinality(UpTo(c, i + 1)) = (first + one) + Cardinality(UpTo(e, i))
      BY <1>2, <1>3, <2>1
    <2> QED BY <2>2, <2>3
  <1>5. NumbersFrom(e, first + one)
    BY <1>4 DEF NumbersFrom
  <1> QED BY <1>5 DEF e, one

Numbers(n) == NumbersFrom(chan_c2f[n], fpga_finish_C2F_query_id[n])

\* Without resets: batches flow and queries are sent in order.
OrderInv ==
  conn_g2c \notin {"reset", "dead"} /\ FlowInv /\ \A n \in FPGA : Numbers(n)

\* What is known of the rest of the system.
OtherInv == CountInv /\ AnswerInv /\ SentInv

LEMMA OtherHolds ==
  ASSUME MaxResets = 0
  PROVE  Spec => []OtherInv
  <1>1. Spec => []AnswerInv
    BY AnswersHold
  <1>2. Spec => []SentInv
    BY SentHolds
  <1> QED BY <1>1, <1>2, CountHolds, PTL DEF OtherInv

\* Every batch the GPU has sent is on its way, in the ring buffer or taken.
Delivered ==
  /\ gpu_sent = Written + Len(chan_g2c)
  /\ RingHolds(ring_buffer_G2C, Taken, Written)
  /\ pcC \in {"window", "send"} => G2C_conv_buf = c2f_batch_id

LEMMA AllDelivered ==
  ASSUME OtherInv, OrderInv
  PROVE  Delivered
  <1>0. OrderTypes
    BY OrderTypesHold DEF OtherInv, CountInv
  <1>1. PICK w \in Int : BatchFlow(w)
    BY DEF OrderInv, FlowInv
  <1>2. w = Written
    BY <1>1 DEF BatchFlow, OrderInv
  <1>3. Taken <= Written
    <2>1. /\ sem_available_batches_to_send = g2c_batch_id - BatchesTaken
          /\ sem_available_batches_to_send \in Nat
      BY DEF OtherInv, CountInv, WindowAccounting, TypeInv, TypeOK, SharedTypeOK
    <2> QED BY <1>0, <2>1 DEF BatchesTaken, Taken, Written, OrderTypes
  <1>4. RingHolds(ring_buffer_G2C, Taken, Written)
    BY <1>1, <1>2, <1>3 DEF BatchFlow
  <1>5. pcC \in {"window", "send"} => G2C_conv_buf = c2f_batch_id
    BY <1>0, <1>1, <1>2 DEF BatchFlow, OrderTypes
  <1>6. gpu_sent = Written + Len(chan_g2c)
    BY <1>1, <1>2 DEF BatchFlow, OrderInv
  <1> QED BY <1>4, <1>5, <1>6 DEF Delivered

\* A query sent has the number of the queries sent before it.
LEMMA NextNumbers ==
  ASSUME MaxResets = 0, OtherInv, OrderInv, [Next]_vars
  PROVE  \A n \in FPGA : Numbers(n)'
  <1>0. /\ OrderTypes /\ SentTypes /\ Delivered /\ SendsCounted
        /\ \A n \in FPGA : Numbers(n) /\ SentFor(n) /\ conn_c2f[n] # "reset"
    BY OrderTypesHold, SentTypesHold, AllDelivered
    DEF OtherInv, CountInv, OrderInv, SentInv, SentFor, Numbers
  <1>b. UNCHANGED <<chan_c2f, fpga_finish_C2F_query_id>> => \A n \in FPGA : Numbers(n)'
    BY <1>0 DEF Numbers
  <1>c. ASSUME NEW msg \in Message, send_C2F(msg), UNCHANGED fpga_finish_C2F_query_id,
               msg.type = "query" => msg.batch * batch_size + msg.query =
                 fpga_finish_C2F_query_id[c2f_n]
                   + (Cardinality(QueriesIn(chan_c2f[c2f_n])) + 1)
        PROVE  \A n \in FPGA : Numbers(n)'
    <2>1. chan_c2f' = [chan_c2f EXCEPT ![c2f_n] = Append(chan_c2f[c2f_n], msg)]
      BY <1>0, <1>c DEF send_C2F, OrderTypes
    <2>2. NumbersFrom(Append(chan_c2f[c2f_n], msg), fpga_finish_C2F_query_id[c2f_n])
      BY <1>0, <1>c, NumbersAppend DEF OrderTypes, Numbers
    <2> QED BY <1>0, <1>c, <2>1, <2>2 DEF OrderTypes, Numbers
  <1>1. CASE send_C2F_header /\ UNCHANGED fpgaVars
    <2> DEFINE msg == [type |-> "header", batch_size |-> batch_size, terminate |-> terminate]
    <2>1. send_C2F(msg) /\ UNCHANGED fpga_finish_C2F_query_id
      BY <1>1 DEF send_C2F_header, fpgaVars, rcvVars
    <2>2. msg \in Message /\ msg.type # "query"
      BY DEF Message, HeaderType, terminate
    <2> HIDE DEF msg
    <2> QED BY <1>c, <2>1, <2>2
  <1>2. CASE send_C2F_query /\ UNCHANGED fpgaVars
    <2> DEFINE msg == [type |-> "query", batch |-> G2C_conv_buf, query |-> c2f_query_id]
               waiting == Cardinality(QueriesIn(chan_c2f[c2f_n]))
               received == fpga_finish_C2F_query_id[c2f_n]
    <2>1. send_C2F(msg) /\ UNCHANGED fpga_finish_C2F_query_id /\ pcC = "send"
      BY <1>2 DEF send_C2F_query, fpgaVars, rcvVars
    <2>2. msg \in Message
      BY <1>0 DEF OtherInv, CountInv, TypeInv, TypeOK, C2FTypeOK, Message, QueryType
    <2>3. msg.batch * batch_size + msg.query = c2f_batch_id * batch_size + c2f_query_id
      BY <1>0, <2>1 DEF Delivered
    <2>4. finish_C2F_query_id + 1 = c2f_batch_id * batch_size + c2f_query_id
      BY <1>0 DEF SendsCounted
    <2>5. SentTo(c2f_n) = received + 1 + waiting
      BY <1>0 DEF SentFor, OrderTypes
    <2>6. SentTo(c2f_n) = finish_C2F_query_id + 1
      BY <1>0 DEF SentTo, OrderTypes, FPGA
    <2>7. waiting \in Int /\ received \in Int
      BY <1>0 DEF OrderTypes, SentTypes
    <2> HIDE DEF msg, waiting, received
    <2>8. msg.batch * batch_size + msg.query = received + (waiting + 1)
      <3>1. received + 1 + waiting = received + (waiting + 1)
        BY <2>7
      <3> QED BY <2>3, <2>4, <2>5, <2>6, <3>1
    <2> QED BY <1>c, <2>1, <2>2, <2>8 DEF waiting, received
  <1>3. ASSUME NEW n \in FPGA, R_header(n) \/ R_query(n)  PROVE \A m \in FPGA : Numbers(m)'
    <2> DEFINE one == IF Head(chan_c2f[n]).type = "query" THEN 1 ELSE 0
    <2>1. chan_c2f[n] # <<>> /\ chan_c2f' = [chan_c2f EXCEPT ![n] = Tail(@)]
      BY <1>3 DEF R_header, R_query
    <2>2. fpga_finish_C2F_query_id' =
            [fpga_finish_C2F_query_id EXCEPT ![n] = fpga_finish_C2F_query_id[n] + one]
      <3>1. CASE R_header(n)
        <4>1. one = 0 /\ UNCHANGED fpga_finish_C2F_query_id
          BY <3>1 DEF R_header
        <4> HIDE DEF one
        <4> QED BY <1>0, <4>1 DEF OrderTypes
      <3>2. CASE R_query(n)
        BY <3>2 DEF R_query
      <3> QED BY <1>3, <3>1, <3>2
    <2>3. NumbersFrom(Tail(chan_c2f[n]), fpga_finish_C2F_query_id[n] + one)
      BY <1>0, <2>1, NumbersTail DEF OrderTypes, Numbers
    <2> HIDE DEF one
    <2> QED BY <1>0, <2>1, <2>2, <2>3 DEF OrderTypes, Numbers
  <1>4. CASE (CoordNext /\ UNCHANGED <<fpgaVars, gpuVars>>) /\ ~send_C2F_header /\ ~send_C2F_query
    <2>1. UNCHANGED chan_c2f
      BY <1>4 DEF CoordNext, thread_G2C, connect_G2C, G2C_wait_C2F, G2C_window,
         receive_G2C_batch_query, G2C_post, thread_C2F, C2F_wait_F2C, C2F_wait_G2C, connect_C2F,
         C2F_available, C2F_read_slot, C2F_window, C2F_sigpipe, thread_F2C_C2G, F2C_listen,
         F2C_accept, F2C_wait_C2F, receive_F2C_batch_result, F2C_post_query,
         send_C2G_batch_result, C2G_sigpipe, F2C_post_batch, netVars
    <2> QED BY <1>4, <1>b, <2>1 DEF fpgaVars, rcvVars
  <1>5. ASSUME NEW n \in FPGA, FPGANext(n), ~R_header(n), ~R_query(n)
        PROVE  \A m \in FPGA : Numbers(m)'
    <2>1. UNCHANGED <<chan_c2f, fpga_finish_C2F_query_id>>
      BY <1>5 DEF FPGANext, start_C2F_F2C_threads, FPGA_thread_C2F, R_listen, R_accept,
         R_wait_F2C, R_fail, FPGA_thread_F2C, S_connect, S_wait_C2F, S_batch, S_result, S_send,
         S_fail, rcvVars, netVars
    <2> QED BY <1>b, <2>1
  <1>6. CASE GPU_send \/ GPU_receive \/ Halted \/ UNCHANGED vars
    BY <1>6, <1>b DEF GPU_send, GPU_receive, Halted, vars, netVars, fpgaVars, rcvVars
  <1>7. CASE Reset
    BY <1>7 DEF Reset, OtherInv, CountInv, TypeInv, TypeOK, NetTypeOK
  <1> QED BY <1>1, <1>2, <1>3, <1>4, <1>5, <1>6, <1>7
         DEF Next, CoordNext, thread_C2F

\* No step but a reset makes the connection to the GPU fail.
LEMMA NextConnected ==
  ASSUME MaxResets = 0, TypeInv, conn_g2c \notin {"reset", "dead"}, [Next]_vars
  PROVE  conn_g2c' \notin {"reset", "dead"}
  <1>0. NetTypeOK /\ resets = 0 /\ conn_g2c \notin {"reset", "dead"}
    BY DEF TypeInv, TypeOK, NetTypeOK
  <1>1. CASE thread_G2C
    BY <1>0, <1>1 DEF thread_G2C, connect_G2C, G2C_wait_C2F, G2C_window, receive_G2C_batch_query,
                 G2C_post, netVars
  <1>2. CASE thread_C2F
    BY <1>0, <1>2 DEF thread_C2F, C2F_wait_F2C, C2F_wait_G2C, connect_C2F, send_C2F_header,
                 C2F_available, C2F_read_slot, C2F_window, send_C2F_query, C2F_sigpipe, netVars
  <1>3. CASE thread_F2C_C2G
    BY <1>0, <1>3 DEF thread_F2C_C2G, F2C_listen, F2C_accept, F2C_wait_C2F,
                 receive_F2C_batch_result, F2C_post_query, send_C2G_batch_result, C2G_sigpipe,
                 F2C_post_batch, netVars
  <1>4. ASSUME NEW n \in FPGA, FPGANext(n) PROVE conn_g2c' \notin {"reset", "dead"}
    <2>1. CASE start_C2F_F2C_threads(n) \/ FPGA_thread_C2F(n)
      BY <1>0, <2>1 DEF start_C2F_F2C_threads, FPGA_thread_C2F, R_listen, R_accept, R_wait_F2C,
                   R_header, R_query, R_fail, netVars
    <2>2. CASE FPGA_thread_F2C(n)
      BY <1>0, <2>2 DEF FPGA_thread_F2C, S_connect, S_wait_C2F, S_batch, S_result, S_send, S_fail,
                   netVars
    <2> QED BY <1>4, <2>1, <2>2 DEF FPGANext
  <1>5. CASE GPU_send \/ GPU_receive
    BY <1>0, <1>5 DEF GPU_send, GPU_receive
  <1>6. ~ Reset
    BY <1>0 DEF Reset
  <1>7. CASE Halted \/ UNCHANGED vars
    BY <1>0, <1>7 DEF Halted, vars, netVars
  <1> QED BY <1>1, <1>2, <1>3, <1>4, <1>5, <1>6, <1>7 DEF Next, CoordNext

\* Without resets, and with a slot for every batch of the window.
LEMMA OrderHolds ==
  ASSUME MaxResets = 0, batch_window_size <= G2C_C2F_QUEUE_SIZE
  PROVE  Spec => []OrderInv
  <1>1. Init => OrderInv
    <2>1. Init => conn_g2c = "none" /\ \A n \in FPGA : chan_c2f[n] = <<>>
      BY DEF Init, NetInit
    <2> QED BY <2>1, FlowInit DEF OrderInv, Numbers, NumbersFrom
  <1>2. OtherInv /\ OrderInv /\ [Next]_vars => OrderInv'
    <2> SUFFICES ASSUME OtherInv, OrderInv, [Next]_vars PROVE OrderInv'
      OBVIOUS
    <2>1. conn_g2c' \notin {"reset", "dead"}
      BY NextConnected DEF OtherInv, CountInv, OrderInv
    <2>2. conn_f2c[0] # "dead"
      <3>1. 0 \in FPGA
        BY DEF FPGA
      <3> QED BY <3>1 DEF OtherInv, AnswerInv, ResultsOf
    <2>3. FlowInv'
      BY <2>2, Room, NextFlow DEF OtherInv, CountInv, OrderInv
    <2> QED BY <2>1, <2>3, NextNumbers DEF OrderInv
  <1> QED BY <1>1, <1>2, OtherHolds, PTL DEF Spec

\* For any number of FPGAs, batches and queries: as long as no connection fails
\* and the ring buffer has a slot for every batch of the window, every FPGA is
\* sent query after query of batch after batch, as the GPU sent them.
THEOREM SentInOrder ==
  ASSUME MaxResets = 0, batch_window_size <= G2C_C2F_QUEUE_SIZE
  PROVE  Spec => []QueriesInOrder
<1>1. OtherInv /\ OrderInv => QueriesInOrder
  <2> SUFFICES ASSUME OtherInv, OrderInv, NEW n \in FPGA, NEW i \in DOMAIN chan_c2f[n],
                      chan_c2f[n][i].type = "query"
               PROVE  chan_c2f[n][i].batch * batch_size + chan_c2f[n][i].query
                        = fpga_finish_C2F_query_id[n] + Cardinality(UpTo(chan_c2f[n], i))
    BY DEF QueriesInOrder, UpTo
  <2>1. chan_c2f[n] \in Seq(Message)
    BY OrderTypesHold DEF OtherInv, CountInv, OrderTypes
  <2>2. i \in 1 .. Len(chan_c2f[n])
    BY <2>1
  <2> QED BY <2>2 DEF OrderInv, Numbers, NumbersFrom
<1> QED BY <1>1, OtherHolds, OrderHolds, PTL
-----------------------------------------------------------------------------
(* The end.                                                                *)
\* A terminate header is the last one received, and the one the F2C thread of
\* the simulator ends with.
HeadersEnd(n) ==
  /\ \A i \in 1 .. Len(buf_header[n]) :
       buf_header[n][i].terminate => i = Len(buf_header[n]) /\ pcR[n] = "done"
  /\ pcS[n] = "done" =>
       /\ F2C_batch_id[n] >= 0
       /\ Len(buf_header[n]) = sem_available_batches[n] + F2C_batch_id[n] + 1
       /\ buf_header[n][F2C_batch_id[n] + 1].terminate

EndInv == \A n \in FPGA : HeadersEnd(n)

EndTypes ==
  /\ buf_header \in [FPGA -> Seq(HeaderType)] /\ F2C_batch_id \in [FPGA -> Int]
  /\ sem_available_batches \in [FPGA -> Nat]
  /\ DOMAIN pcR = FPGA /\ DOMAIN pcS = FPGA

\* For any resets.
LEMMA EndHolds == Spec => []EndInv
  <1>1. Init => EndInv
    BY DEF Init, FPGAInit, EndInv, HeadersEnd
  <1>2. TypeInv /\ EndInv /\ [Next]_vars => EndInv'
    <2> SUFFICES ASSUME TypeInv, EndInv, [Next]_vars  PROVE EndInv'
      OBVIOUS
    <2>0. EndTypes /\ \A n \in FPGA : HeadersOf(n) /\ HeadersEnd(n)
      BY DEF TypeInv, TypeOK, FPGATypeOK, HeaderAccounting, EndTypes, EndInv
    <2>1. CASE UNCHANGED fpgaVars
      BY <2>1 DEF fpgaVars, rcvVars, sndVars, EndInv, HeadersEnd
    <2>2. ASSUME NEW n \in FPGA, FPGANext(n)  PROVE EndInv'
      <3>1. CASE R_header(n)
        <4> DEFINE header == Head(chan_c2f[n])
                   old == buf_header[n]
        <4>1. /\ pcR[n] = "header" /\ pcR' = [pcR EXCEPT ![n] = IF header.terminate THEN "done" ELSE "query"]
              /\ buf_header' = [buf_header EXCEPT ![n] = Append(old, header)]
              /\ sem_available_batches' = [sem_available_batches EXCEPT ![n] = sem_available_batches[n] + 1]
              /\ UNCHANGED <<pcS, F2C_batch_id>>
              /\ header \in HeaderType
          <5>1. chan_c2f[n] \in Seq(Message) /\ chan_c2f[n] # <<>> /\ header.type = "header"
            BY <3>1 DEF R_header, TypeInv, TypeOK, NetTypeOK, Message
          <5>2. header \in Message
            BY <5>1
          <5> QED BY <3>1, <5>1, <5>2, HeaderTypes DEF R_header, sndVars, Message
        <4> HIDE DEF header
        <4>2. old \in Seq(HeaderType) /\ Len(old) \in Nat
              /\ \A i \in 1 .. Len(old) : ~old[i].terminate
          BY <2>0, <4>1 DEF EndTypes, HeadersEnd
        <4>3. /\ Len(Append(old, header)) = Len(old) + 1 /\ Append(old, header)[Len(old) + 1] = header
              /\ \A i \in 1 .. Len(old) : Append(old, header)[i] = old[i]
          BY <4>1, <4>2
        <4>4. pcS[n] # "done"
          <5> SUFFICES ASSUME pcS[n] = "done" PROVE FALSE
            OBVIOUS
          <5>1. F2C_batch_id[n] + 1 \in 1 .. Len(old) /\ old[F2C_batch_id[n] + 1].terminate
            BY <2>0, <4>2 DEF EndTypes, HeadersEnd
          <5> QED BY <4>2, <5>1
        <4> DEFINE new == Append(old, header)
        <4>5. buf_header'[n] = new /\ pcS'[n] # "done"
          BY <2>0, <4>1, <4>4 DEF EndTypes
        <4>6. pcR'[n] = IF header.terminate THEN "done" ELSE "query"
          BY <2>0, <4>1 DEF EndTypes
        <4> HIDE DEF new, old
        <4>7. ASSUME NEW i \in 1 .. Len(new), new[i].terminate
              PROVE  i = Len(new) /\ pcR'[n] = "done"
          <5>1. i \in 1 .. Len(old) \/ i = Len(old) + 1
            BY <4>2, <4>3 DEF new
          <5>2. i = Len(old) + 1
            BY <4>2, <4>3, <4>7, <5>1 DEF new
          <5> QED BY <4>3, <4>6, <4>7, <5>2 DEF new
        <4>8. HeadersEnd(n)'
          BY <4>5, <4>7 DEF HeadersEnd
        <4>9. ASSUME NEW m \in FPGA, m # n  PROVE HeadersEnd(m)'
          BY <2>0, <4>1, <4>9 DEF EndTypes, HeadersEnd
        <4> QED BY <4>8, <4>9 DEF EndInv
      <3>2. CASE S_batch(n)
        <4>1. /\ pcS[n] = "batch" /\ sem_available_batches[n] > 0
              /\ sem_available_batches' = [sem_available_batches EXCEPT ![n] = sem_available_batches[n] - 1]
              /\ pcS' = [pcS EXCEPT ![n] = IF buf_header[n][F2C_batch_id[n] + 1].terminate
                                           THEN "done" ELSE "result"]
              /\ UNCHANGED <<buf_header, F2C_batch_id, pcR>>
          BY <3>2 DEF S_batch, rcvVars
        <4>2. F2C_batch_id[n] >= 0 /\ Len(buf_header[n]) = sem_available_batches[n] + F2C_batch_id[n]
          BY <2>0, <4>1 DEF HeadersOf
        <4>3. HeadersEnd(n)'
          BY <2>0, <4>1, <4>2 DEF EndTypes, HeadersEnd
        <4>4. ASSUME NEW m \in FPGA, m # n  PROVE HeadersEnd(m)'
          BY <2>0, <4>1, <4>4 DEF EndTypes, HeadersEnd
        <4> QED BY <4>3, <4>4 DEF EndInv
      <3>3. CASE S_wait_C2F(n) \/ S_send(n)
        <4>1. /\ UNCHANGED <<buf_header, sem_available_batches, pcR>>
              /\ pcS[n] # "done" /\ pcS'[n] # "done"
              /\ \A m \in FPGA : m # n => pcS'[m] = pcS[m] /\ F2C_batch_id'[m] = F2C_batch_id[m]
          BY <2>0, <3>3 DEF S_wait_C2F, S_send, rcvVars, EndTypes
        <4> QED BY <2>0, <4>1 DEF EndTypes, HeadersEnd, EndInv
      <3>4. CASE ~R_header(n) /\ ~S_batch(n) /\ ~S_wait_C2F(n) /\ ~S_send(n)
        <4>1. /\ UNCHANGED <<buf_header, sem_available_batches, F2C_batch_id>>
              /\ \A m \in FPGA : (pcR[m] = "done" => pcR'[m] = "done")
                                /\ (pcS'[m] = "done" => pcS[m] = "done")
          BY <2>0, <2>2, <3>4 DEF FPGANext, start_C2F_F2C_threads, FPGA_thread_C2F, R_listen,
             R_accept, R_wait_F2C, R_query, R_fail, FPGA_thread_F2C, S_connect, S_result,
             S_fail, rcvVars, sndVars, EndTypes
        <4> QED BY <2>0, <4>1 DEF HeadersEnd, EndInv
      <3> QED BY <3>1, <3>2, <3>3, <3>4
    <2> QED BY <2>1, <2>2 DEF Next, GPU_send, GPU_receive, Halted, vars
  <1> QED BY <1>1, <1>2, TypeInductive, PTL DEF Spec

\* A thread that has ended has served every batch, and the GPU has received
\* every answer that is not on the way.
Counts ==
  /\ pcG = "done" => g2c_batch_id = total_batch_num
  /\ pcC = "done" => c2f_batch_id = total_batch_num
  /\ pcF = "done" => f2c_batch_id = total_batch_num
  /\ gpu_received + Len(chan_c2g) = f2c_batch_id + (IF pcF = "post_batch" THEN 1 ELSE 0)

LEMMA NextCounts ==
  ASSUME MaxResets = 0, OtherInv, OrderInv, Counts, [Next]_vars
  PROVE  Counts'
  <1>0. /\ g2c_batch_id \in Nat /\ c2f_batch_id \in Nat /\ f2c_batch_id \in Nat
        /\ g2c_batch_id <= total_batch_num /\ f2c_batch_id <= total_batch_num
        /\ gpu_received \in Nat /\ chan_c2g \in Seq([Query -> ResultType])
        /\ Len(chan_c2g) \in Nat
    BY CoordinatorAssumption DEF OtherInv, CountInv, TypeInv, TypeOK, G2CTypeOK, C2FTypeOK, F2CTypeOK,
       GPUTypeOK, NetTypeOK
  <1>a. conn_g2c # "reset"
    BY DEF OrderInv
  <1>b. (pcG # "done" => g2c_batch_id < total_batch_num)
        /\ (pcF # "done" => f2c_batch_id < total_batch_num)
    BY DEF OtherInv, CountInv, TypeInv, LoopBounds
  <1> DEFINE other == <<f2c_batch_id, pcF, chan_c2g, gpu_received>>
  <1>1. CASE thread_G2C /\ UNCHANGED gpuVars
    <2>1. UNCHANGED other /\ UNCHANGED c2fVars
      BY <1>1 DEF thread_G2C, connect_G2C, G2C_wait_C2F, G2C_window, receive_G2C_batch_query,
         G2C_post, netVars, f2cVars, gpuVars
    <2>2. pcG' = "done" => g2c_batch_id' = total_batch_num
      <3>1. CASE G2C_post
        <4>1. /\ pcG = "post" /\ g2c_batch_id' = g2c_batch_id + 1
              /\ pcG' = IF g2c_batch_id + 1 < total_batch_num THEN "window" ELSE "done"
          BY <3>1 DEF G2C_post
        <4> QED BY <1>0, <1>b, <4>1, CoordinatorAssumption
      <3>2. CASE ~G2C_post
        BY <1>1, <3>2 DEF thread_G2C, connect_G2C, G2C_wait_C2F, G2C_window,
           receive_G2C_batch_query
      <3> QED BY <3>1, <3>2
    <2> QED BY <2>1, <2>2 DEF Counts, c2fVars
  <1>2. CASE thread_C2F /\ UNCHANGED gpuVars
    <2>1. UNCHANGED other /\ UNCHANGED g2cVars
      BY <1>2 DEF thread_C2F, C2F_wait_F2C, C2F_wait_G2C, connect_C2F, send_C2F_header,
         C2F_available, C2F_read_slot, C2F_window, send_C2F_query, C2F_sigpipe, netVars,
         f2cVars, gpuVars
    <2>2. pcC' = "done" => c2f_batch_id' = total_batch_num
      <3>1. CASE send_C2F_header
        BY <3>1 DEF send_C2F_header, terminate
      <3>2. CASE C2F_sigpipe
        BY <3>2 DEF C2F_sigpipe, c2fVars, Counts
      <3>3. CASE send_C2F_query
        BY <3>3 DEF send_C2F_query
      <3>4. CASE connect_C2F
        BY <3>4 DEF connect_C2F
      <3> QED BY <1>2, <3>1, <3>2, <3>3, <3>4 DEF thread_C2F, C2F_wait_F2C, C2F_wait_G2C,
                 C2F_available, C2F_read_slot, C2F_window
    <2> QED BY <2>1, <2>2 DEF Counts, g2cVars
  <1>3. CASE thread_F2C_C2G /\ UNCHANGED gpuVars
    <2>1. UNCHANGED g2cVars /\ UNCHANGED c2fVars /\ UNCHANGED gpu_received
      BY <1>3 DEF thread_F2C_C2G, F2C_listen, F2C_accept, F2C_wait_C2F,
         receive_F2C_batch_result, F2C_post_query, send_C2G_batch_result, C2G_sigpipe,
         F2C_post_batch, gpuVars
    <2>2. CASE send_C2G_batch_result
      <3>1. /\ pcF = "answer" /\ pcF' = "post_batch" /\ UNCHANGED f2c_batch_id
            /\ chan_c2g' = Append(chan_c2g, buf_C2G)
        BY <1>a, <2>2 DEF send_C2G_batch_result
      <3>2. Len(chan_c2g') = Len(chan_c2g) + 1
        BY <1>0, <3>1
      <3>3. gpu_received' + Len(chan_c2g') = f2c_batch_id' + 1
        <4>1. gpu_received + Len(chan_c2g) = f2c_batch_id + 0
          BY <3>1 DEF Counts
        <4>2. gpu_received' = gpu_received /\ f2c_batch_id' = f2c_batch_id
          BY <2>1, <3>1
        <4> QED BY <1>0, <3>2, <4>1, <4>2
      <3> QED BY <2>1, <3>1, <3>3 DEF Counts, g2cVars, c2fVars
    <2>3. CASE F2C_post_batch
      <3>1. /\ pcF = "post_batch" /\ f2c_batch_id' = f2c_batch_id + 1 /\ UNCHANGED chan_c2g
            /\ pcF' = IF f2c_batch_id + 1 < total_batch_num THEN "read" ELSE "done"
        BY <2>3 DEF F2C_post_batch, netVars
      <3>2. pcF' = "done" => f2c_batch_id' = total_batch_num
        BY <1>0, <1>b, <3>1, CoordinatorAssumption
      <3> QED BY <1>0, <2>1, <3>1, <3>2 DEF Counts, g2cVars, c2fVars
    <2>4. CASE C2G_sigpipe
      BY <2>1, <2>4 DEF C2G_sigpipe, f2cVars, netVars, Counts, g2cVars, c2fVars
    <2>5. CASE F2C_listen \/ F2C_accept \/ F2C_wait_C2F \/ receive_F2C_batch_result \/ F2C_post_query
      <3>1. /\ UNCHANGED <<f2c_batch_id, chan_c2g>>
            /\ pcF \notin {"done", "post_batch"} /\ pcF' \notin {"done", "post_batch"}
        BY <2>5 DEF F2C_listen, F2C_accept, F2C_wait_C2F, receive_F2C_batch_result,
           F2C_post_query, netVars
      <3> QED BY <2>1, <3>1 DEF Counts, g2cVars, c2fVars
    <2> QED BY <1>3, <2>2, <2>3, <2>4, <2>5 DEF thread_F2C_C2G
  <1>4. ASSUME NEW n \in FPGA, FPGANext(n), UNCHANGED <<coordVars, gpuVars>>
        PROVE  Counts'
    <2>1. UNCHANGED chan_c2g
      BY <1>4 DEF FPGANext, start_C2F_F2C_threads, FPGA_thread_C2F, R_listen, R_accept,
         R_wait_F2C, R_header, R_query, R_fail, FPGA_thread_F2C, S_connect, S_wait_C2F,
         S_batch, S_result, S_send, S_fail, netVars
    <2> QED BY <1>4, <2>1 DEF coordVars, g2cVars, c2fVars, f2cVars, gpuVars, Counts
  <1>5. CASE GPU_send \/ Halted \/ UNCHANGED vars
    BY <1>5 DEF GPU_send, Halted, vars, coordVars, g2cVars, c2fVars, f2cVars, gpuVars, netVars,
                Counts
  <1>6. CASE GPU_receive
    <2>1. /\ chan_c2g # <<>> /\ chan_c2g' = Tail(chan_c2g) /\ gpu_received' = gpu_received + 1
          /\ UNCHANGED <<g2cVars, c2fVars, f2cVars>>
      BY <1>6 DEF GPU_receive, coordVars
    <2>2. Len(chan_c2g') = Len(chan_c2g) - 1
      BY <1>0, <2>1
    <2>3. gpu_received' + Len(chan_c2g') = gpu_received + Len(chan_c2g)
      BY <1>0, <2>1, <2>2
    <2> QED BY <2>1, <2>3 DEF g2cVars, c2fVars, f2cVars, Counts
  <1>7. CASE Reset
    BY <1>7 DEF Reset, OtherInv, CountInv, TypeInv, TypeOK, NetTypeOK
  <1> QED BY <1>1, <1>2, <1>3, <1>4, <1>5, <1>6, <1>7 DEF Next, CoordNext

\* For any number of FPGAs, batches and queries: as long as no connection fails
\* and the ring buffer has a slot for every batch of the window, nothing is left
\* over once every program has ended: every stream is read to its end, every
\* semaphore is back at its initial value and the ring buffer is empty.
THEOREM NothingLeft ==
  ASSUME MaxResets = 0, batch_window_size <= G2C_C2F_QUEUE_SIZE
  PROVE  Spec => []CleanFinish
<1>1. Spec => []Counts
  <2>1. Init => Counts
    BY DEF Init, NetInit, CoordInit, Counts
  <2>2. OtherInv /\ OrderInv /\ Counts /\ [Next]_vars => Counts'
    BY NextCounts
  <2> QED BY <2>1, <2>2, OtherHolds, OrderHolds, PTL DEF Spec
<1>2. OtherInv /\ OrderInv /\ EndInv /\ Counts => CleanFinish
  <2> SUFFICES ASSUME OtherInv, OrderInv, EndInv, Counts, Finished
               PROVE  /\ \A n \in FPGA : /\ chan_c2f[n] = <<>> /\ chan_f2c[n] = <<>>
                                         /\ sem_available_batches[n] = 0
                                         /\ sem_available_results[n] = 0
                      /\ chan_g2c = <<>> /\ chan_c2g = <<>>
                      /\ sem_query_window_free_slots = query_window_size
                      /\ sem_batch_window_free_slots = batch_window_size
                      /\ sem_available_batches_to_send = 0
                      /\ RB!size(ring_buffer_G2C) = 0
    BY DEF CleanFinish
  <2> DEFINE all == total_batch_num * batch_size
  <2>0. OrderTypes /\ SentTypes /\ AnswerTypes
    BY OrderTypesHold, SentTypesHold, AnswerTypesHold DEF OtherInv, CountInv
  <2>1. /\ pcG = "done" /\ pcC = "done" /\ pcF = "done" /\ gpu_received = total_batch_num
        /\ \A n \in FPGA : pcR[n] = "done" /\ pcS[n] = "done"
    BY DEF Finished, Joined
  <2>2. g2c_batch_id = total_batch_num /\ c2f_batch_id = total_batch_num /\ f2c_batch_id = total_batch_num
    BY <2>1 DEF Counts
  <2>3. Written = total_batch_num /\ Taken = total_batch_num
    BY <2>0, <2>1, <2>2 DEF Written, Taken, OrderTypes
  <2>4. all \in Int /\ total_batch_num \in Int /\ Delivered
    BY CoordinatorAssumption, AllDelivered
  <2>5. finish_C2F_query_id + 1 = all
    BY <2>1, <2>2, <2>4 DEF OtherInv, CountInv, SendsCounted
  <2>6. finish_F2C_query_id + 1 = all
    <3>1. f2c_query_id = 0
      BY <2>1 DEF OtherInv, AnswerInv, AnswerLoops
    <3> QED BY <2>1, <2>2, <2>4, <3>1 DEF OtherInv, AnswerInv, AnswerLoops, BatchStart
  <2> HIDE DEF all
  <2>7. chan_g2c = <<>>
    <3>1. gpu_sent = total_batch_num + Len(chan_g2c) /\ gpu_sent <= total_batch_num
      BY <2>3, <2>4 DEF Delivered, OtherInv, CountInv, TypeInv, TypeOK, GPUTypeOK
    <3>2. Len(chan_g2c) = 0
      BY <2>0, <2>4, <3>1 DEF OrderTypes
    <3> QED BY <2>0, <3>2 DEF OrderTypes
  <2>8. chan_c2g = <<>>
    <3>1. chan_c2g \in Seq([Query -> ResultType])
      BY DEF OtherInv, CountInv, TypeInv, TypeOK, NetTypeOK
    <3>2. total_batch_num + Len(chan_c2g) = total_batch_num
      BY <2>1, <2>2, <2>4 DEF Counts
    <3>3. Len(chan_c2g) = 0
      BY <2>4, <3>1, <3>2
    <3> QED BY <3>1, <3>3
  <2>9. /\ sem_query_window_free_slots = query_window_size
        /\ sem_batch_window_free_slots = batch_window_size
        /\ sem_available_batches_to_send = 0
    <3>1. QueriesBegun = all /\ BatchesAdmitted = total_batch_num /\ BatchesTaken = total_batch_num
      BY <2>1, <2>2, <2>4, <2>5 DEF QueriesBegun, BatchesAdmitted, BatchesTaken
    <3> QED BY <2>2, <2>4, <2>6, <3>1, CoordinatorAssumption DEF OtherInv, CountInv, WindowAccounting
  <2>10. RB!size(ring_buffer_G2C) = 0
    <3>1. /\ ring_buffer_G2C.head_ = Wrap(ring_buffer_G2C.tail_ + 0)
          /\ ~ring_buffer_G2C.full_
      BY <2>3, <2>4, CoordinatorAssumption DEF Delivered, RingHolds
    <3>2. ring_buffer_G2C.tail_ \in RB!Slots
      BY <2>0 DEF OrderTypes, RB!RingType
    <3>3. ring_buffer_G2C.head_ = ring_buffer_G2C.tail_
      BY <3>1, <3>2 DEF Wrap, RB!Slots
    <3> QED BY <3>1, <3>2, <3>3 DEF RB!size, RB!Slots
  <2>11. ASSUME NEW n \in FPGA
         PROVE  /\ chan_c2f[n] = <<>> /\ chan_f2c[n] = <<>>
                /\ sem_available_batches[n] = 0 /\ sem_available_results[n] = 0
    <3>1. chan_c2f[n] = <<>>
      <4> SUFFICES ASSUME chan_c2f[n] # <<>> PROVE FALSE
        OBVIOUS
      <4>1. PlaceOf(chan_c2f[n][1]) = batch_size + 1
        BY <2>1 DEF OtherInv, CountInv, FramingInv, FramedFor, Framed, Awaited
      <4>2. chan_c2f[n][1] \in Message
        <5>1. chan_c2f[n] \in Seq(Message)
          BY <2>0 DEF OrderTypes
        <5> QED BY <5>1
      <4> QED BY <4>1, <4>2, MessageFacts, CoordinatorAssumption
    <3>2. fpga_finish_C2F_query_id[n] + 1 = all
      <4>1. SentTo(n) = fpga_finish_C2F_query_id[n] + 1 + Cardinality(QueriesIn(chan_c2f[n]))
        BY DEF OtherInv, SentInv, SentFor
      <4>2. QueriesIn(chan_c2f[n]) = {}
        BY <3>1 DEF QueriesIn
      <4>3. SentTo(n) = all
        BY <2>1, <2>4, <2>5 DEF SentTo
      <4> QED BY <2>0, <4>1, <4>2, <4>3, FS_EmptySet DEF SentTypes
    <3>3. fpga_finish_F2C_query_id[n] + 1 = all + Len(chan_f2c[n]) /\ Len(chan_f2c[n]) \in Nat
      <4>1. Received(n) = all
        BY <2>1, <2>4, <2>6 DEF Received
      <4> QED BY <2>0, <4>1 DEF OtherInv, AnswerInv, ResultsOf, AnswerTypes
    <3>4. fpga_finish_F2C_query_id[n] + sem_available_results[n] <= fpga_finish_C2F_query_id[n]
      <4>1. fpga_finish_F2C_query_id[n] + 0 + sem_available_results[n] <= fpga_finish_C2F_query_id[n]
        BY <2>1 DEF OtherInv, CountInv, ResultsBacked
      <4>2. fpga_finish_F2C_query_id[n] \in Int
        BY <2>0 DEF AnswerTypes
      <4> QED BY <4>1, <4>2
    <3>5. Len(chan_f2c[n]) = 0 /\ sem_available_results[n] = 0
      <4>1. sem_available_results[n] \in Nat /\ fpga_finish_F2C_query_id[n] \in Int
            /\ fpga_finish_C2F_query_id[n] \in Int
        BY DEF OtherInv, CountInv, TypeInv, TypeOK, FPGATypeOK
      <4> DEFINE back == Len(chan_f2c[n])
      <4>2. back \in Nat /\ fpga_finish_F2C_query_id[n] + 1 = all + back
        BY <3>3
      <4> HIDE DEF back
      <4>3. back = 0 /\ sem_available_results[n] = 0
        BY <2>4, <3>2, <3>4, <4>1, <4>2
      <4> QED BY <4>3 DEF back
    <3>6. chan_f2c[n] = <<>>
      BY <2>0, <3>5 DEF AnswerTypes
    <3>7. sem_available_batches[n] = 0
      <4>1. /\ sem_available_batches[n] \in Nat /\ F2C_batch_id[n] \in Int
        BY DEF OtherInv, CountInv, TypeInv, TypeOK, FPGATypeOK
      <4>2. /\ F2C_batch_id[n] >= 0
            /\ Len(buf_header[n]) = sem_available_batches[n] + F2C_batch_id[n] + 1
            /\ buf_header[n][F2C_batch_id[n] + 1].terminate
        BY <2>1 DEF EndInv, HeadersEnd
      <4>3. F2C_batch_id[n] + 1 \in 1 .. Len(buf_header[n])
        BY <4>1, <4>2
      <4>4. F2C_batch_id[n] + 1 = Len(buf_header[n])
        BY <4>2, <4>3 DEF EndInv, HeadersEnd
      <4> QED BY <4>1, <4>2, <4>4
    <3> QED BY <3>1, <3>5, <3>6, <3>7
  <2> QED BY <2>7, <2>8, <2>9, <2>10, <2>11
<1> QED BY <1>1, <1>2, EndHolds, OtherHolds, OrderHolds, PTL

-----------------------------------------------------------------------------
(* The coordinator implements the index server.                            *)

\* No reset: the connection to the GPU does not fail.
ServerInv == TypeInv /\ conn_g2c \notin {"reset", "dead"}

LEMMA StrippedSeq ==
  ASSUME NEW ch \in Seq(HeaderType \cup QueryType)
  PROVE  /\ Len(StrippedAll(ch)) = Len(ch)
         /\ StrippedAll(ch) = <<>> <=> ch = <<>>
         /\ ch # <<>> => /\ Head(StrippedAll(ch)) = Stripped(Head(ch))
                         /\ Tail(StrippedAll(ch)) = StrippedAll(Tail(ch))
         /\ \A m \in HeaderType \cup QueryType :
              StrippedAll(Append(ch, m)) = Append(StrippedAll(ch), Stripped(m))
  <1> DEFINE M == HeaderType \cup QueryType
             S == {Stripped(m) : m \in M}
             s == StrippedAll(ch)
  <1>1. ch \in Seq(M) /\ Len(ch) \in Nat /\ \A i \in 1 .. Len(ch) : ch[i] \in M
    OBVIOUS
  <1>2. s \in [1 .. Len(ch) -> S]
    BY <1>1 DEF StrippedAll
  <1>3. s \in Seq(S) /\ Len(s) = Len(ch) /\ DOMAIN s = 1 .. Len(ch)
    BY <1>1, <1>2
  <1>4. s = <<>> <=> ch = <<>>
    BY <1>1, <1>3
  <1>5. ASSUME ch # <<>> PROVE Head(s) = Stripped(Head(ch)) /\ Tail(s) = StrippedAll(Tail(ch))
    <2>1. Len(ch) > 0 /\ Head(s) = s[1] /\ Head(ch) = ch[1]
      BY <1>1, <1>3, <1>4, <1>5
    <2>2. s[1] = Stripped(ch[1])
      BY <2>1 DEF StrippedAll
    <2>3. /\ Tail(ch) \in Seq(M) /\ Len(Tail(ch)) = Len(ch) - 1
          /\ \A i \in 1 .. Len(ch) - 1 : Tail(ch)[i] = ch[i + 1]
      BY <1>1, <1>5
    <2>4. /\ Tail(s) \in Seq(S) /\ Len(Tail(s)) = Len(ch) - 1
          /\ \A i \in 1 .. Len(ch) - 1 : Tail(s)[i] = s[i + 1]
      BY <1>3, <1>4, <1>5
    <2>5. /\ StrippedAll(Tail(ch)) = [i \in 1 .. Len(ch) - 1 |-> Stripped(Tail(ch)[i])]
          /\ StrippedAll(Tail(ch)) \in [1 .. Len(ch) - 1 -> S]
      BY <2>3 DEF StrippedAll
    <2>6. StrippedAll(Tail(ch)) \in Seq(S) /\ Len(StrippedAll(Tail(ch))) = Len(ch) - 1
      <3> DEFINE u == StrippedAll(Tail(ch))
                 k == Len(ch) - 1
      <3>1. k \in Nat
        BY <1>1, <2>1
      <3>2. u \in [1 .. k -> S]
        BY <2>5
      <3> HIDE DEF u, k, S
      <3>3. u \in Seq(S) /\ Len(u) = k
        BY <3>1, <3>2
      <3> QED BY <3>3 DEF u, k
    <2>7. \A i \in 1 .. Len(ch) - 1 : Tail(s)[i] = StrippedAll(Tail(ch))[i]
      <3> TAKE i \in 1 .. Len(ch) - 1
      <3>1. i + 1 \in 1 .. Len(ch)
        BY <1>1
      <3>2. s[i + 1] = Stripped(ch[i + 1])
        BY <3>1 DEF StrippedAll
      <3> QED BY <2>3, <2>4, <2>5, <3>2
    <2>8. Tail(s) = StrippedAll(Tail(ch))
      <3> DEFINE t == Tail(s)
                 u == StrippedAll(Tail(ch))
                 k == Len(ch) - 1
      <3>1. t \in Seq(S) /\ u \in Seq(S) /\ Len(t) = k /\ Len(u) = k /\ \A i \in 1 .. k : t[i] = u[i]
        BY <2>4, <2>6, <2>7
      <3> HIDE DEF t, u, k
      <3>2. t = u
        BY <3>1
      <3> QED BY <3>2 DEF t, u
    <2> QED BY <2>1, <2>2, <2>8
  <1>6. ASSUME NEW m \in M PROVE StrippedAll(Append(ch, m)) = Append(s, Stripped(m))
    <2> DEFINE a == Append(ch, m)
               t == Append(s, Stripped(m))
               u == StrippedAll(a)
               k == Len(ch) + 1
    <2>1. /\ a \in Seq(M) /\ Len(a) = k /\ a[k] = m
          /\ \A i \in 1 .. Len(ch) : a[i] = ch[i]
      BY <1>1
    <2>2. /\ t \in Seq(S) /\ Len(t) = k /\ t[k] = Stripped(m)
          /\ \A i \in 1 .. Len(ch) : t[i] = s[i]
      BY <1>1, <1>3
    <2>3. u = [i \in 1 .. k |-> Stripped(a[i])] /\ u \in [1 .. k -> S]
      BY <2>1 DEF StrippedAll
    <2>4. u \in Seq(S) /\ Len(u) = k
      BY <1>1, <2>3
    <2>5. \A i \in 1 .. Len(ch) : s[i] = Stripped(ch[i])
      BY DEF StrippedAll
    <2>6. \A i \in 1 .. k : t[i] = u[i]
      <3> TAKE i \in 1 .. k
      <3>1. i \in 1 .. Len(ch) \/ i = k
        BY <1>1
      <3> QED BY <2>1, <2>2, <2>3, <2>5, <3>1
    <2> HIDE DEF a, t, u, k
    <2>7. t = u
      BY <2>2, <2>4, <2>6
    <2> QED BY <2>7 DEF t, u, a
  <1> QED BY <1>3, <1>4, <1>5, <1>6

\* What the index server's view of a channel shows of the coordinator's.
LEMMA ServerView ==
  ASSUME NetTypeOK, NEW n \in FPGA
  PROVE  /\ messages[n] = StrippedAll(chan_c2f[n]) /\ Len(messages[n]) = Len(chan_c2f[n])
         /\ messages[n] = <<>> <=> chan_c2f[n] = <<>>
         /\ chan_c2f[n] # <<>> =>
              /\ Head(messages[n]).type = Head(chan_c2f[n]).type
              /\ Head(chan_c2f[n]).type = "header" => Head(messages[n]) = Head(chan_c2f[n])
  <1>1. chan_c2f[n] \in Seq(HeaderType \cup QueryType)
    BY DEF NetTypeOK
  <1>2. messages[n] = StrippedAll(chan_c2f[n])
    BY DEF messages
  <1>3. chan_c2f[n] # <<>> => Head(messages[n]) = Stripped(Head(chan_c2f[n]))
                            /\ Head(chan_c2f[n]) \in HeaderType \cup QueryType
    BY <1>1, <1>2, StrippedSeq
  <1>4. \A m \in HeaderType \cup QueryType :
          Stripped(m).type = m.type /\ (m.type = "header" => Stripped(m) = m)
    BY DEF Stripped, HeaderType, QueryType
  <1> QED BY <1>1, <1>2, <1>3, <1>4, StrippedSeq

LEMMA ServerSends ==
  ASSUME NetTypeOK, NEW n \in FPGA, NEW m \in HeaderType \cup QueryType,
         chan_c2f' = [chan_c2f EXCEPT ![n] = Append(@, m)]
  PROVE  messages' = [messages EXCEPT ![n] = Append(@, Stripped(m))]
  <1>1. chan_c2f[n] \in Seq(HeaderType \cup QueryType) /\ DOMAIN chan_c2f = FPGA
    BY DEF NetTypeOK
  <1>2. StrippedAll(Append(chan_c2f[n], m)) = Append(StrippedAll(chan_c2f[n]), Stripped(m))
    BY <1>1, StrippedSeq
  <1> HIDE DEF messages
  <1>3. messages' = [k \in FPGA |-> StrippedAll(chan_c2f'[k])]
    BY DEF messages
  <1>4. \A k \in FPGA : chan_c2f'[k] = IF k = n THEN Append(chan_c2f[n], m) ELSE chan_c2f[k]
    BY <1>1
  <1>5. messages = [k \in FPGA |-> StrippedAll(chan_c2f[k])]
    BY DEF messages
  <1>6. \A k \in FPGA : StrippedAll(chan_c2f'[k])
          = IF k = n THEN Append(messages[n], Stripped(m)) ELSE messages[k]
    <2> TAKE k \in FPGA
    <2>1. messages[n] = StrippedAll(chan_c2f[n]) /\ messages[k] = StrippedAll(chan_c2f[k])
      BY <1>5
    <2>2. CASE k = n
      BY <1>2, <1>4, <2>1, <2>2
    <2>3. CASE k # n
      BY <1>4, <2>1, <2>3
    <2> QED BY <2>2, <2>3
  <1> QED BY <1>3, <1>5, <1>6

LEMMA ServerReceives ==
  ASSUME NetTypeOK, NEW n \in FPGA, chan_c2f[n] # <<>>,
         chan_c2f' = [chan_c2f EXCEPT ![n] = Tail(@)]
  PROVE  messages' = [messages EXCEPT ![n] = Tail(@)]
  <1>1. chan_c2f[n] \in Seq(HeaderType \cup QueryType) /\ DOMAIN chan_c2f = FPGA
    BY DEF NetTypeOK
  <1>2. StrippedAll(Tail(chan_c2f[n])) = Tail(StrippedAll(chan_c2f[n]))
    BY <1>1, StrippedSeq
  <1>3. messages' = [k \in FPGA |-> StrippedAll(chan_c2f'[k])]
    BY DEF messages
  <1>4. \A k \in FPGA : chan_c2f'[k] = IF k = n THEN Tail(chan_c2f[n]) ELSE chan_c2f[k]
    BY <1>1
  <1>5. messages = [k \in FPGA |-> StrippedAll(chan_c2f[k])]
    BY DEF messages
  <1>6. \A k \in FPGA : StrippedAll(chan_c2f'[k])
          = IF k = n THEN Tail(messages[n]) ELSE messages[k]
    <2> TAKE k \in FPGA
    <2>1. messages[n] = StrippedAll(chan_c2f[n]) /\ messages[k] = StrippedAll(chan_c2f[k])
      BY <1>5
    <2>2. CASE k = n
      BY <1>2, <1>4, <2>1, <2>2
    <2>3. CASE k # n
      BY <1>4, <2>1, <2>3
    <2> QED BY <2>2, <2>3
  <1> QED BY <1>3, <1>5, <1>6

\* What does not change is not seen to change.
LEMMA SameViews ==
  /\ UNCHANGED pcG => UNCHANGED index_pc
  /\ UNCHANGED pcC => UNCHANGED C2F_pc
  /\ UNCHANGED pcF => UNCHANGED F2C_pc
  /\ UNCHANGED chan_c2f => UNCHANGED messages
BY DEF index_pc, C2F_pc, F2C_pc, messages


LEMMA ServerReads ==
  ASSUME ServerInv, thread_G2C
  PROVE  Server!thread_index_scan \/ UNCHANGED <<Server!serverVars, Server!netVars>>
  <1>1. CASE connect_G2C
    <2>1. index_pc = "init" /\ index_pc' = "wait_C2F"
      BY <1>1 DEF connect_G2C, index_pc
    <2>2. UNCHANGED <<C2F_pc, F2C_pc, messages>>
      BY <1>1, SameViews DEF connect_G2C, startVars, semVars, g2cVars, c2fVars, f2cVars, netVars
    <2>3. Server!I_init
      BY <1>1, <2>1, <2>2
      DEF connect_G2C, startVars, semVars, g2cVars, c2fVars, f2cVars, netVars,
            Server!I_init, Server!startVars, Server!semVars, Server!indexVars, Server!c2fLoop,
            Server!f2cLoop,
            Server!f2cBufs, Server!c2fVars, Server!f2cVars, Server!netVars
    <2> QED BY <2>3 DEF Server!thread_index_scan
  <1>2. CASE G2C_wait_C2F
    <2>1. index_pc = "wait_C2F" /\ index_pc' = "window"
      BY <1>2 DEF G2C_wait_C2F, index_pc
    <2>2. UNCHANGED <<C2F_pc, F2C_pc, messages>>
      BY <1>2, SameViews DEF G2C_wait_C2F, startVars, semVars, g2cVars, c2fVars, f2cVars, netVars
    <2>3. Server!I_wait_C2F
      BY <1>2, <2>1, <2>2
      DEF G2C_wait_C2F, startVars, semVars, g2cVars, c2fVars, f2cVars, netVars,
            Server!I_wait_C2F, Server!startVars, Server!semVars, Server!indexVars,
            Server!c2fLoop, Server!f2cLoop,
            Server!f2cBufs, Server!c2fVars, Server!f2cVars, Server!netVars
    <2> QED BY <2>3 DEF Server!thread_index_scan
  <1>3. CASE G2C_window
    <2>1. index_pc = "window" /\ index_pc' = "scan"
      BY <1>3 DEF G2C_window, index_pc
    <2>2. UNCHANGED <<C2F_pc, F2C_pc, messages>>
      BY <1>3, SameViews DEF G2C_window, startVars, semVars, g2cVars, c2fVars, f2cVars, netVars
    <2>3. Server!I_window
      BY <1>3, <2>1, <2>2
      DEF G2C_window, startVars, semVars, g2cVars, c2fVars, f2cVars, netVars,
            Server!I_window, Server!startVars, Server!semVars, Server!indexVars, Server!c2fLoop,
            Server!f2cLoop,
            Server!f2cBufs, Server!c2fVars, Server!f2cVars, Server!netVars
    <2> QED BY <2>3 DEF Server!thread_index_scan
  <1>4. CASE receive_G2C_batch_query
    <2>1. UNCHANGED index_pc
      BY <1>4 DEF receive_G2C_batch_query, index_pc
    <2>2. UNCHANGED <<C2F_pc, F2C_pc, messages>>
      BY <1>4, SameViews DEF receive_G2C_batch_query, startVars, semVars, g2cVars, c2fVars,
                             f2cVars, netVars
    <2>3. UNCHANGED <<Server!serverVars, Server!netVars>>
      BY <1>4, <2>1, <2>2
      DEF receive_G2C_batch_query, startVars, semVars, g2cVars, c2fVars, f2cVars, netVars,
          Server!serverVars,
            Server!startVars, Server!semVars, Server!indexVars, Server!c2fLoop, Server!f2cLoop,
            Server!f2cBufs, Server!c2fVars, Server!f2cVars, Server!netVars
    <2> QED BY <2>3
  <1>5. CASE G2C_post
    <2>1. index_pc = "scan" /\ index_pc' = IF g2c_batch_id + 1 < total_batch_num THEN "window" ELSE "done"
      BY <1>5 DEF G2C_post, index_pc
    <2>2. UNCHANGED <<C2F_pc, F2C_pc, messages>>
      BY <1>5, SameViews DEF G2C_post, startVars, semVars, g2cVars, c2fVars, f2cVars, netVars
    <2>3. Server!I_scan_post
      BY <1>5, <2>1, <2>2
      DEF G2C_post, startVars, semVars, g2cVars, c2fVars, f2cVars, netVars,
            Server!I_scan_post, Server!startVars, Server!semVars, Server!indexVars,
            Server!c2fLoop, Server!f2cLoop,
            Server!f2cBufs, Server!c2fVars, Server!f2cVars, Server!netVars
    <2> QED BY <2>3 DEF Server!thread_index_scan
  <1> QED BY <1>1, <1>2, <1>3, <1>4, <1>5 DEF thread_G2C, Server!thread_index_scan

LEMMA ServerBroadcasts ==
  ASSUME ServerInv, thread_C2F
  PROVE  Server!thread_C2F \/ UNCHANGED <<Server!serverVars, Server!netVars>>
  <1>0. NetTypeOK /\ c2f_n \in FPGA /\ c2f_query_id \in Query /\ c2f_batch_id \in Nat
        /\ G2C_conv_buf \in Batch \cup {NoBatch}
    BY DEF ServerInv, TypeInv, TypeOK, C2FTypeOK
  \* One iteration of a broadcast loop.
  <1>a. ASSUME NEW m \in HeaderType \cup QueryType, send_C2F(m)
        PROVE  Server!send_C2F(Stripped(m))
    <2>1. CASE /\ CanSend(conn_c2f[c2f_n], chan_c2f[c2f_n])
               /\ chan_c2f' = [chan_c2f EXCEPT ![c2f_n] = Append(@, m)] /\ UNCHANGED conn_c2f
      <3>1. messages' = [messages EXCEPT ![c2f_n] = Append(@, Stripped(m))]
        BY <1>0, <2>1, ServerSends
      <3>2. Len(messages[c2f_n]) = Len(chan_c2f[c2f_n])
        BY <1>0, ServerView
      <3> QED BY <2>1, <3>1, <3>2 DEF CanSend, Server!CanSend, Server!send_C2F
    <2>2. CASE /\ conn_c2f[c2f_n] = "reset"
               /\ conn_c2f' = [conn_c2f EXCEPT ![c2f_n] = "dead"] /\ UNCHANGED chan_c2f
      <3>1. UNCHANGED messages
        BY <2>2, SameViews
      <3> QED BY <2>2, <3>1 DEF Server!send_C2F
    <2> QED BY <1>a, <2>1, <2>2 DEF send_C2F
  <1>1. CASE C2F_wait_F2C
    <2>1. C2F_pc = "wait_F2C" /\ C2F_pc' = "wait_index"
      BY <1>1 DEF C2F_wait_F2C, C2F_pc
    <2>2. UNCHANGED <<index_pc, F2C_pc, messages>>
      BY <1>1, SameViews DEF C2F_wait_F2C, startVars, semVars, g2cVars, c2fVars, f2cVars, netVars
    <2>3. Server!C2F_wait_F2C
      BY <1>1, <2>1, <2>2
      DEF C2F_wait_F2C, startVars, semVars, g2cVars, c2fVars, f2cVars, netVars,
            Server!C2F_wait_F2C, Server!startVars, Server!semVars, Server!indexVars,
            Server!c2fLoop, Server!f2cLoop,
            Server!f2cBufs, Server!c2fVars, Server!f2cVars, Server!netVars
    <2> QED BY <2>3 DEF Server!thread_C2F
  <1>2. CASE C2F_wait_G2C
    <2>1. C2F_pc = "wait_index" /\ C2F_pc' = "connect"
      BY <1>2 DEF C2F_wait_G2C, C2F_pc
    <2>2. UNCHANGED <<index_pc, F2C_pc, messages>>
      BY <1>2, SameViews DEF C2F_wait_G2C, startVars, semVars, g2cVars, c2fVars, f2cVars, netVars
    <2>3. Server!C2F_wait_index
      BY <1>2, <2>1, <2>2
      DEF C2F_wait_G2C, startVars, semVars, g2cVars, c2fVars, f2cVars, netVars,
            Server!C2F_wait_index, Server!startVars, Server!semVars, Server!indexVars,
            Server!c2fLoop, Server!f2cLoop,
            Server!f2cBufs, Server!c2fVars, Server!f2cVars, Server!netVars
    <2> QED BY <2>3 DEF Server!thread_C2F
  <1>3. CASE connect_C2F
    <2>1. C2F_pc = "connect" /\ C2F_pc' = pcC'
      BY <1>3 DEF connect_C2F, C2F_pc
    <2>2. UNCHANGED <<index_pc, F2C_pc, messages>>
      BY <1>3, SameViews DEF connect_C2F, startVars, semVars, g2cVars, c2fVars, f2cVars, netVars
    <2>3. Server!connect_C2F
      BY <1>3, <2>1, <2>2
      DEF connect_C2F, startVars, semVars, g2cVars, c2fVars, f2cVars, netVars,
            Server!connect_C2F, Server!startVars, Server!semVars, Server!indexVars,
            Server!c2fLoop, Server!f2cLoop,
            Server!f2cBufs, Server!c2fVars, Server!f2cVars, Server!netVars
    <2> QED BY <2>3 DEF Server!thread_C2F
  <1>4. CASE send_C2F_header
    <2> DEFINE m == [type |-> "header", batch_size |-> batch_size, terminate |-> terminate]
    <2>1. C2F_pc = "header" /\ C2F_pc' = pcC'
      BY <1>4 DEF send_C2F_header, C2F_pc
    <2>2. UNCHANGED <<index_pc, F2C_pc>>
      BY <1>4, SameViews DEF send_C2F_header, startVars, semVars, g2cVars, c2fVars, f2cVars,
                             netVars
    <2>3. m \in HeaderType \cup QueryType /\ Stripped(m) = [type |-> "header", batch_size |-> batch_size, terminate |-> terminate]
      BY <1>0 DEF HeaderType, Stripped, terminate
    <2>4. send_C2F(m)
      BY <1>4 DEF send_C2F_header
    <2>5. Server!send_C2F([type |-> "header", batch_size |-> batch_size, terminate |-> terminate])
      BY <1>a, <2>3, <2>4
    <2> HIDE DEF m
    <2>6. Server!send_header
      BY <1>4, <2>1, <2>2, <2>5
      DEF send_C2F_header, send_C2F_returns, terminate, startVars, semVars, g2cVars, c2fVars,
          f2cVars, netVars,
            Server!send_header, Server!send_returns, Server!terminate,
            Server!startVars, Server!semVars, Server!indexVars, Server!c2fLoop, Server!f2cLoop,
            Server!f2cBufs, Server!c2fVars, Server!f2cVars, Server!netVars
    <2> QED BY <2>6 DEF Server!thread_C2F
  <1>5. CASE C2F_available
    <2>1. C2F_pc = "available" /\ C2F_pc' = "window"
      BY <1>5 DEF C2F_available, C2F_pc
    <2>2. UNCHANGED <<index_pc, F2C_pc, messages>>
      BY <1>5, SameViews DEF C2F_available, startVars, semVars, g2cVars, c2fVars, f2cVars, netVars
    <2>3. Server!C2F_available
      BY <1>5, <2>1, <2>2
      DEF C2F_available, startVars, semVars, g2cVars, c2fVars, f2cVars, netVars,
            Server!C2F_available, Server!startVars, Server!semVars, Server!indexVars,
            Server!c2fLoop, Server!f2cLoop,
            Server!f2cBufs, Server!c2fVars, Server!f2cVars, Server!netVars
    <2> QED BY <2>3 DEF Server!thread_C2F
  <1>6. CASE C2F_read_slot
    <2>1. UNCHANGED C2F_pc
      BY <1>6 DEF C2F_read_slot, C2F_pc
    <2>2. UNCHANGED <<index_pc, F2C_pc, messages>>
      BY <1>6, SameViews DEF C2F_read_slot, startVars, semVars, g2cVars, c2fVars, f2cVars, netVars
    <2>3. UNCHANGED <<Server!serverVars, Server!netVars>>
      BY <1>6, <2>1, <2>2
      DEF C2F_read_slot, startVars, semVars, g2cVars, c2fVars, f2cVars, netVars,
          Server!serverVars,
            Server!startVars, Server!semVars, Server!indexVars, Server!c2fLoop, Server!f2cLoop,
            Server!f2cBufs, Server!c2fVars, Server!f2cVars, Server!netVars
    <2> QED BY <2>3
  <1>7. CASE C2F_window
    <2>1. C2F_pc = "window" /\ C2F_pc' = "send"
      BY <1>7 DEF C2F_window, C2F_pc
    <2>2. UNCHANGED <<index_pc, F2C_pc, messages>>
      BY <1>7, SameViews DEF C2F_window, startVars, semVars, g2cVars, c2fVars, f2cVars, netVars
    <2>3. Server!C2F_window
      BY <1>7, <2>1, <2>2
      DEF C2F_window, startVars, semVars, g2cVars, c2fVars, f2cVars, netVars,
            Server!C2F_window, Server!startVars, Server!semVars, Server!indexVars,
            Server!c2fLoop, Server!f2cLoop,
            Server!f2cBufs, Server!c2fVars, Server!f2cVars, Server!netVars
    <2> QED BY <2>3 DEF Server!thread_C2F
  <1>8. CASE send_C2F_query
    <2> DEFINE m == [type |-> "query", batch |-> G2C_conv_buf, query |-> c2f_query_id]
    <2>1. C2F_pc = "send" /\ C2F_pc' = pcC'
      BY <1>8 DEF send_C2F_query, C2F_pc
    <2>2. UNCHANGED <<index_pc, F2C_pc>>
      BY <1>8, SameViews DEF send_C2F_query, startVars, semVars, g2cVars, c2fVars, f2cVars,
                             netVars
    <2>3. m \in HeaderType \cup QueryType /\ Stripped(m) = [type |-> "query", query |-> c2f_query_id]
      BY <1>0 DEF QueryType, Stripped, terminate
    <2>4. send_C2F(m)
      BY <1>8 DEF send_C2F_query
    <2>5. Server!send_C2F([type |-> "query", query |-> c2f_query_id])
      BY <1>a, <2>3, <2>4
    <2> HIDE DEF m
    <2>6. Server!send_query
      BY <1>8, <2>1, <2>2, <2>5
      DEF send_C2F_query, send_C2F_returns, terminate, startVars, semVars, g2cVars, c2fVars,
          f2cVars, netVars,
            Server!send_query, Server!send_returns, Server!terminate,
            Server!startVars, Server!semVars, Server!indexVars, Server!c2fLoop, Server!f2cLoop,
            Server!f2cBufs, Server!c2fVars, Server!f2cVars, Server!netVars
    <2> QED BY <2>6 DEF Server!thread_C2F
  <1>9. CASE C2F_sigpipe
    <2>1. C2F_pc \in {"header", "send"}
      BY <1>9 DEF C2F_sigpipe, C2F_pc
    <2>2. UNCHANGED <<index_pc, C2F_pc, F2C_pc, messages>>
      BY <1>9, SameViews DEF C2F_sigpipe, startVars, semVars, g2cVars, c2fVars, f2cVars, netVars
    <2>3. Server!C2F_sigpipe
      BY <1>9, <2>1, <2>2
      DEF C2F_sigpipe, startVars, semVars, g2cVars, c2fVars, f2cVars, netVars,
            Server!C2F_sigpipe, Server!startVars, Server!semVars, Server!indexVars,
            Server!c2fLoop, Server!f2cLoop,
            Server!f2cBufs, Server!c2fVars, Server!f2cVars, Server!netVars
    <2> QED BY <2>3 DEF Server!thread_C2F
  <1> QED BY <1>1, <1>2, <1>3, <1>4, <1>5, <1>6, <1>7, <1>8, <1>9
      DEF thread_C2F, Server!thread_C2F

LEMMA ServerCollects ==
  ASSUME ServerInv, thread_F2C_C2G
  PROVE  Server!thread_F2C \/ UNCHANGED <<Server!serverVars, Server!netVars>>
  <1>1. CASE F2C_listen
    <2>1. F2C_pc = "listen" /\ F2C_pc' = "accept"
      BY <1>1 DEF F2C_listen, F2C_pc
    <2>2. UNCHANGED <<index_pc, C2F_pc, messages>>
      BY <1>1, SameViews DEF F2C_listen, startVars, semVars, g2cVars, c2fVars, f2cVars, netVars
    <2>3. Server!F2C_listen
      BY <1>1, <2>1, <2>2
      DEF F2C_listen, startVars, semVars, g2cVars, c2fVars, f2cVars, netVars,
            Server!F2C_listen, Server!startVars, Server!semVars, Server!indexVars,
            Server!c2fLoop, Server!f2cLoop,
            Server!f2cBufs, Server!c2fVars, Server!f2cVars, Server!netVars
    <2> QED BY <2>3 DEF Server!thread_F2C
  <1>2. CASE F2C_accept
    <2>1. F2C_pc = "accept" /\ F2C_pc' = pcF'
      BY <1>2 DEF F2C_accept, F2C_pc
    <2>2. UNCHANGED <<index_pc, C2F_pc, messages>>
      BY <1>2, SameViews DEF F2C_accept, startVars, semVars, g2cVars, c2fVars, f2cVars, netVars
    <2>3. Server!F2C_accept
      BY <1>2, <2>1, <2>2
      DEF F2C_accept, startVars, semVars, g2cVars, c2fVars, f2cVars, netVars,
            Server!F2C_accept, Server!startVars, Server!semVars, Server!indexVars,
            Server!c2fLoop, Server!f2cLoop,
            Server!f2cBufs, Server!c2fVars, Server!f2cVars, Server!netVars
    <2> QED BY <2>3 DEF Server!thread_F2C
  <1>3. CASE F2C_wait_C2F
    <2>1. F2C_pc = "wait_C2F" /\ F2C_pc' = "read"
      BY <1>3 DEF F2C_wait_C2F, F2C_pc
    <2>2. UNCHANGED <<index_pc, C2F_pc, messages>>
      BY <1>3, SameViews DEF F2C_wait_C2F, startVars, semVars, g2cVars, c2fVars, f2cVars, netVars
    <2>3. Server!F2C_wait_C2F
      BY <1>3, <2>1, <2>2
      DEF F2C_wait_C2F, startVars, semVars, g2cVars, c2fVars, f2cVars, netVars,
            Server!F2C_wait_C2F, Server!startVars, Server!semVars, Server!indexVars,
            Server!c2fLoop, Server!f2cLoop,
            Server!f2cBufs, Server!c2fVars, Server!f2cVars, Server!netVars
    <2> QED BY <2>3 DEF Server!thread_F2C
  <1>4. CASE receive_F2C_batch_result
    <2>1. F2C_pc = "read" /\ F2C_pc' = pcF'
      BY <1>4 DEF receive_F2C_batch_result, F2C_pc
    <2>2. UNCHANGED <<index_pc, C2F_pc, messages>>
      BY <1>4, SameViews DEF receive_F2C_batch_result, startVars, semVars, g2cVars, c2fVars,
                             f2cVars, netVars
    <2>3. Server!receive_answer_to_query
      BY <1>4, <2>1, <2>2
      DEF receive_F2C_batch_result, startVars, semVars, g2cVars, c2fVars, f2cVars, netVars,
          F2C_arrived, receive_F2C_returns,
            Server!F2C_arrived, Server!receive_returns,
            Server!receive_answer_to_query, Server!startVars, Server!semVars, Server!indexVars,
            Server!c2fLoop, Server!f2cLoop,
            Server!f2cBufs, Server!c2fVars, Server!f2cVars, Server!netVars
    <2> QED BY <2>3 DEF Server!thread_F2C
  <1>5. CASE F2C_post_query
    <2>1. F2C_pc = "post_query" /\ F2C_pc' = (IF f2c_query_id = batch_size - 1 THEN "post_batch" ELSE "read")
      BY <1>5 DEF F2C_post_query, F2C_pc
    <2>2. UNCHANGED <<index_pc, C2F_pc, messages>>
      BY <1>5, SameViews DEF F2C_post_query, startVars, semVars, g2cVars, c2fVars, f2cVars,
                             netVars
    <2>3. Server!F2C_post_query
      BY <1>5, <2>1, <2>2
      DEF F2C_post_query, startVars, semVars, g2cVars, c2fVars, f2cVars, netVars, answer_row,
          Server!answer_row,
            Server!F2C_post_query, Server!startVars, Server!semVars, Server!indexVars,
            Server!c2fLoop, Server!f2cLoop,
            Server!f2cBufs, Server!c2fVars, Server!f2cVars, Server!netVars
    <2> QED BY <2>3 DEF Server!thread_F2C
  <1>6. CASE send_C2G_batch_result
    <2>1. UNCHANGED F2C_pc
      BY <1>6 DEF send_C2G_batch_result, F2C_pc
    <2>2. UNCHANGED <<index_pc, C2F_pc, messages>>
      BY <1>6, SameViews DEF send_C2G_batch_result, startVars, semVars, g2cVars, c2fVars,
                             f2cVars, netVars
    <2>3. UNCHANGED <<Server!serverVars, Server!netVars>>
      BY <1>6, <2>1, <2>2
      DEF send_C2G_batch_result, startVars, semVars, g2cVars, c2fVars, f2cVars, netVars,
          Server!serverVars,
            Server!startVars, Server!semVars, Server!indexVars, Server!c2fLoop, Server!f2cLoop,
            Server!f2cBufs, Server!c2fVars, Server!f2cVars, Server!netVars
    <2> QED BY <2>3
  <1>7. ~ C2G_sigpipe
    BY DEF C2G_sigpipe, ServerInv
  <1>8. CASE F2C_post_batch
    <2>1. F2C_pc = "post_batch" /\ F2C_pc' = pcF'
      BY <1>8 DEF F2C_post_batch, F2C_pc
    <2>2. UNCHANGED <<index_pc, C2F_pc, messages>>
      BY <1>8, SameViews DEF F2C_post_batch, startVars, semVars, g2cVars, c2fVars, f2cVars,
                             netVars
    <2>3. Server!F2C_post_batch
      BY <1>8, <2>1, <2>2
      DEF F2C_post_batch, startVars, semVars, g2cVars, c2fVars, f2cVars, netVars,
            Server!F2C_post_batch, Server!startVars, Server!semVars, Server!indexVars,
            Server!c2fLoop, Server!f2cLoop,
            Server!f2cBufs, Server!c2fVars, Server!f2cVars, Server!netVars
    <2> QED BY <2>3 DEF Server!thread_F2C
  <1> QED BY <1>1, <1>2, <1>3, <1>4, <1>5, <1>6, <1>7, <1>8 DEF thread_F2C_C2G, Server!thread_F2C

\* The FPGAs do the same in both systems.
LEMMA ServerFPGAs ==
  ASSUME ServerInv, NEW n \in FPGA, FPGANext(n), UNCHANGED coordVars
  PROVE  Server!FPGANext(n) /\ UNCHANGED Server!serverVars
  <1>0. NetTypeOK
    BY DEF ServerInv, TypeInv, TypeOK
  <1>a. UNCHANGED Server!serverVars /\ UNCHANGED <<index_pc, C2F_pc, F2C_pc>>
    <2>1. UNCHANGED <<index_pc, C2F_pc, F2C_pc>>
      BY SameViews DEF coordVars, g2cVars, c2fVars, f2cVars
    <2> QED BY <2>1 DEF coordVars, startVars, semVars, g2cVars, c2fVars, f2cVars,
              Server!serverVars, Server!startVars, Server!semVars, Server!indexVars,
              Server!c2fLoop, Server!f2cLoop, Server!f2cBufs, Server!c2fVars, Server!f2cVars
  <1>1. CASE start_C2F_F2C_threads(n)
    <2>1. UNCHANGED messages
      BY <1>1, SameViews DEF start_C2F_F2C_threads, rcvVars, sndVars, netVars
    <2> QED BY <1>0, <1>a, <1>1, <2>1, ServerView
      DEF start_C2F_F2C_threads, rcvVars, sndVars, netVars, Server!start_C2F_F2C_threads,
          Server!rcvVars, Server!sndVars, Server!netVars,
          Server!FPGANext, Server!FPGA_thread_C2F, Server!FPGA_thread_F2C
  <1>2. CASE R_listen(n)
    <2>1. UNCHANGED messages
      BY <1>2, SameViews DEF R_listen, rcvVars, sndVars, netVars
    <2> QED BY <1>0, <1>a, <1>2, <2>1, ServerView
      DEF R_listen, rcvVars, sndVars, netVars, Server!R_listen, Server!rcvVars, Server!sndVars,
          Server!netVars,
          Server!FPGANext, Server!FPGA_thread_C2F, Server!FPGA_thread_F2C
  <1>3. CASE R_accept(n)
    <2>1. UNCHANGED messages
      BY <1>3, SameViews DEF R_accept, rcvVars, sndVars, netVars
    <2> QED BY <1>0, <1>a, <1>3, <2>1, ServerView
      DEF R_accept, rcvVars, sndVars, netVars, Server!R_accept, Server!rcvVars, Server!sndVars,
          Server!netVars,
          Server!FPGANext, Server!FPGA_thread_C2F, Server!FPGA_thread_F2C
  <1>4. CASE R_wait_F2C(n)
    <2>1. UNCHANGED messages
      BY <1>4, SameViews DEF R_wait_F2C, rcvVars, sndVars, netVars
    <2> QED BY <1>0, <1>a, <1>4, <2>1, ServerView
      DEF R_wait_F2C, rcvVars, sndVars, netVars, Server!R_wait_F2C, Server!rcvVars,
          Server!sndVars, Server!netVars,
          Server!FPGANext, Server!FPGA_thread_C2F, Server!FPGA_thread_F2C
  <1>5. CASE R_header(n)
    <2>1. chan_c2f[n] # <<>> /\ chan_c2f' = [chan_c2f EXCEPT ![n] = Tail(@)]
      BY <1>5 DEF R_header
    <2>2. messages' = [messages EXCEPT ![n] = Tail(@)]
      BY <1>0, <2>1, ServerReceives
    <2>3. /\ messages[n] # <<>> /\ Head(messages[n]).type = Head(chan_c2f[n]).type
          /\ Head(chan_c2f[n]).type = "header" => Head(messages[n]) = Head(chan_c2f[n])
      BY <1>0, <2>1, ServerView
    <2>4. Server!R_header(n)
      BY <1>5, <2>2, <2>3
      DEF R_header, rcvVars, sndVars, netVars, Server!R_header, Server!rcvVars, Server!sndVars,
          Server!netVars
    <2> QED BY <1>a, <2>4 DEF Server!FPGANext, Server!FPGA_thread_C2F
  <1>6. CASE R_query(n)
    <2>1. chan_c2f[n] # <<>> /\ chan_c2f' = [chan_c2f EXCEPT ![n] = Tail(@)]
      BY <1>6 DEF R_query
    <2>2. messages' = [messages EXCEPT ![n] = Tail(@)]
      BY <1>0, <2>1, ServerReceives
    <2>3. /\ messages[n] # <<>> /\ Head(messages[n]).type = Head(chan_c2f[n]).type
          /\ Head(chan_c2f[n]).type = "header" => Head(messages[n]) = Head(chan_c2f[n])
      BY <1>0, <2>1, ServerView
    <2>4. Server!R_query(n)
      BY <1>6, <2>2, <2>3
      DEF R_query, rcvVars, sndVars, netVars, R_last_query, Server!R_query, Server!rcvVars,
          Server!sndVars, Server!netVars, Server!R_last_query
    <2> QED BY <1>a, <2>4 DEF Server!FPGANext, Server!FPGA_thread_C2F
  <1>7. CASE R_fail(n)
    <2>1. UNCHANGED messages
      BY <1>7, SameViews DEF R_fail, rcvVars, sndVars, netVars
    <2> QED BY <1>0, <1>a, <1>7, <2>1, ServerView
      DEF R_fail, rcvVars, sndVars, netVars, Server!R_fail, Server!rcvVars, Server!sndVars,
          Server!netVars,
          Server!FPGANext, Server!FPGA_thread_C2F, Server!FPGA_thread_F2C
  <1>8. CASE S_connect(n)
    <2>1. UNCHANGED messages
      BY <1>8, SameViews DEF S_connect, rcvVars, sndVars, netVars
    <2> QED BY <1>0, <1>a, <1>8, <2>1, ServerView
      DEF S_connect, rcvVars, sndVars, netVars, Server!S_connect, Server!rcvVars, Server!sndVars,
          Server!netVars,
          Server!FPGANext, Server!FPGA_thread_C2F, Server!FPGA_thread_F2C
  <1>9. CASE S_wait_C2F(n)
    <2>1. UNCHANGED messages
      BY <1>9, SameViews DEF S_wait_C2F, rcvVars, sndVars, netVars
    <2> QED BY <1>0, <1>a, <1>9, <2>1, ServerView
      DEF S_wait_C2F, rcvVars, sndVars, netVars, Server!S_wait_C2F, Server!rcvVars,
          Server!sndVars, Server!netVars,
          Server!FPGANext, Server!FPGA_thread_C2F, Server!FPGA_thread_F2C
  <1>10. CASE S_batch(n)
    <2>1. UNCHANGED messages
      BY <1>10, SameViews DEF S_batch, rcvVars, sndVars, netVars
    <2> QED BY <1>0, <1>a, <1>10, <2>1, ServerView
      DEF S_batch, rcvVars, sndVars, netVars, Server!S_batch, Server!rcvVars, Server!sndVars,
          Server!netVars,
          Server!FPGANext, Server!FPGA_thread_C2F, Server!FPGA_thread_F2C
  <1>11. CASE S_result(n)
    <2>1. UNCHANGED messages
      BY <1>11, SameViews DEF S_result, rcvVars, sndVars, netVars
    <2> QED BY <1>0, <1>a, <1>11, <2>1, ServerView
      DEF S_result, rcvVars, sndVars, netVars, Server!S_result, Server!rcvVars, Server!sndVars,
          Server!netVars,
          Server!FPGANext, Server!FPGA_thread_C2F, Server!FPGA_thread_F2C
  <1>12. CASE S_send(n)
    <2>1. UNCHANGED messages
      BY <1>12, SameViews DEF S_send, rcvVars, sndVars, netVars
    <2> QED BY <1>0, <1>a, <1>12, <2>1, ServerView
      DEF S_send, rcvVars, sndVars, netVars, CanSend, Server!S_send, Server!rcvVars,
          Server!sndVars, Server!netVars, Server!CanSend,
          Server!FPGANext, Server!FPGA_thread_C2F, Server!FPGA_thread_F2C
  <1>13. CASE S_fail(n)
    <2>1. UNCHANGED messages
      BY <1>13, SameViews DEF S_fail, rcvVars, sndVars, netVars
    <2> QED BY <1>0, <1>a, <1>13, <2>1, ServerView
      DEF S_fail, rcvVars, sndVars, netVars, Server!S_fail, Server!rcvVars, Server!sndVars,
          Server!netVars,
          Server!FPGANext, Server!FPGA_thread_C2F, Server!FPGA_thread_F2C
  <1> QED BY <1>a, <1>1, <1>2, <1>3, <1>4, <1>5, <1>6, <1>7, <1>8, <1>9, <1>10, <1>11, <1>12,
  <1>13
      DEF FPGANext, FPGA_thread_C2F, FPGA_thread_F2C

LEMMA ServerStep ==
  ASSUME MaxResets = 0, ServerInv, [Next]_vars
  PROVE  [Server!Next]_(Server!vars)
  <1>1. CASE CoordNext /\ UNCHANGED <<fpgaVars, gpuVars>>
    <2>1. ~ crashed /\ (thread_G2C \/ thread_C2F \/ thread_F2C_C2G) /\ UNCHANGED fpgaVars
      BY <1>1 DEF CoordNext
    <2>2. \/ Server!thread_index_scan \/ Server!thread_C2F \/ Server!thread_F2C
          \/ UNCHANGED <<Server!serverVars, Server!netVars>>
      BY <2>1, ServerReads, ServerBroadcasts, ServerCollects
    <2>3. UNCHANGED Server!fpgaVars
      BY <2>1 DEF fpgaVars, rcvVars, sndVars, Server!fpgaVars, Server!rcvVars, Server!sndVars
    <2> QED BY <2>1, <2>2, <2>3 DEF Server!Next, Server!ServerNext, Server!vars
  <1>2. ASSUME NEW n \in FPGA, FPGANext(n), UNCHANGED <<coordVars, gpuVars>>
        PROVE  [Server!Next]_(Server!vars)
    <2>1. Server!FPGANext(n) /\ UNCHANGED Server!serverVars
      BY <1>2, ServerFPGAs
    <2>2. n \in Server!FPGA
      BY DEF FPGA, Server!FPGA
    <2> QED BY <2>1, <2>2 DEF Server!Next
  <1>3. CASE UNCHANGED <<chan_c2f, conn_c2f, conn_f2c, chan_f2c, resets, coordVars, fpgaVars>>
    <2>1. UNCHANGED <<index_pc, C2F_pc, F2C_pc, messages>>
      BY <1>3, SameViews DEF coordVars, g2cVars, c2fVars, f2cVars
    <2>2. UNCHANGED Server!vars
      BY <1>3, <2>1 DEF coordVars, startVars, semVars, g2cVars, c2fVars, f2cVars,
            fpgaVars, rcvVars, sndVars, Server!vars, Server!serverVars, Server!startVars,
            Server!semVars, Server!indexVars, Server!c2fLoop, Server!f2cLoop, Server!f2cBufs,
            Server!c2fVars, Server!f2cVars, Server!netVars, Server!fpgaVars, Server!rcvVars,
            Server!sndVars
    <2> QED BY <2>2
  <1>4. CASE GPU_send \/ GPU_receive
    BY <1>3, <1>4 DEF GPU_send, GPU_receive
  <1>5. CASE Reset /\ UNCHANGED <<coordVars, fpgaVars, gpuVars>>
    <2>1. resets < MaxResets /\ resets \in 0 .. MaxResets
      BY <1>5 DEF Reset, ServerInv, TypeInv, TypeOK, NetTypeOK
    <2> QED BY <2>1
  <1>6. CASE Halted \/ UNCHANGED vars
    BY <1>3, <1>6 DEF Halted, vars, netVars
  <1> QED BY <1>1, <1>2, <1>4, <1>5, <1>6 DEF Next

LEMMA ServerInit == Init => Server!Init
  <1> SUFFICES ASSUME Init PROVE Server!Init
    OBVIOUS
  <1>1. messages = [n \in FPGA |-> <<>>]
    BY DEF messages, StrippedAll, Init, NetInit
  <1>2. index_pc = "init" /\ C2F_pc = "wait_F2C" /\ F2C_pc = "listen"
    BY DEF index_pc, C2F_pc, F2C_pc, Init, CoordInit
  <1>3. Server!NetInit
    BY <1>1 DEF Init, NetInit, Server!NetInit, FPGA, Server!FPGA
  <1>4. Server!ServerInit
    BY <1>2 DEF Init, CoordInit, Server!ServerInit, Query, NoResult, Server!Query, Server!NoResult
  <1>5. Server!FPGAInit
    BY DEF Init, FPGAInit, Server!FPGAInit, FPGA, Server!FPGA
  <1> QED BY <1>3, <1>4, <1>5 DEF Server!Init

\* As long as no connection is reset, for any number of FPGAs, batches and
\* queries and any windows, the coordinator for GPU and FPGA implements the
\* index server: its FPGAs cannot tell which of the two drives them.
THEOREM Implementation == ASSUME MaxResets = 0 PROVE Spec => ImplementsServer
  <1>1. Init => Server!Init
    BY ServerInit
  <1>2. Spec => []ServerInv
    <2>1. Init => ServerInv
      BY InitTypeInv DEF ServerInv, Init, NetInit
    <2>2. ServerInv /\ [Next]_vars => ServerInv'
      BY NextTypeInv, NextConnected DEF ServerInv
    <2> QED BY <2>1, <2>2, PTL DEF Spec
  <1>3. ServerInv /\ [Next]_vars => [Server!Next]_(Server!vars)
    BY ServerStep
  <1> QED BY <1>1, <1>2, <1>3, PTL DEF Spec, ImplementsServer, Server!Spec
=============================================================================
