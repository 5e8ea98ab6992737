-------------------------- MODULE NetworkGlue_proofs --------------------------
(***************************************************************************)
(* The accelerator's network kernels, for any requests, stream depths and  *)
(* word sizes.  In this order:                                             *)
(*   1. recvDataSafe asks for one packet at a time, and a packet is        *)
(*      announced only with data at hand (GlueInv);                        *)
(*   2. what each step does to each stream and each process, and what it   *)
(*      leaves alone (the lemmas ...Effect and ...Frame);                  *)
(*   3. sums of lengths, and cutting a packet into words;                  *)
(*   4. the types (TypeInv);                                               *)
(*   5. the words of the queries reach the search in order (WordsInv);     *)
(*   6. the words of the answers are sent in order (OutInv) and cut where  *)
(*      the accepted packets end (CutInv);                                 *)
(*   7. all of this holds too on a stack whose receive and transmit sides  *)
(*      depend on each other (StackCoupling).                              *)
(***************************************************************************)
EXTENDS StackCoupling, DataflowLemmas

-----------------------------------------------------------------------------
(* Streams.                                                                *)

\* Every stream is one, and every process has its variables.
FlowShape == DOMAIN fifo = Stream /\ \A c \in Stream : IsSequence(fifo[c])
AtShape ==
  /\ DOMAIN at = Process
  /\ {"started", "length"} \subseteq DOMAIN at[consume]
  /\ "phase" \in DOMAIN at[send]
Shape == FlowShape /\ AtShape

\* What a step that takes from and writes to streams does to each of them.
LEMMA TransferEffect ==
  ASSUME FlowShape, NEW takes, NEW puts, Transfer(takes, puts)
  PROVE  /\ FlowShape'
         /\ \A c \in Stream :
              /\ Len(fifo[c]) \in Nat /\ (fifo[c] = <<>> <=> Len(fifo[c]) = 0)
              /\ Len(fifo'[c]) \in Nat /\ (fifo'[c] = <<>> <=> Len(fifo'[c]) = 0)
              /\ c \in takes => Len(fifo[c]) > 0
              /\ c \notin takes /\ c \notin DOMAIN puts => fifo'[c] = fifo[c]
              /\ c \in takes /\ c \notin DOMAIN puts => Len(fifo'[c]) = Len(fifo[c]) - 1
              /\ c \notin takes /\ c \in DOMAIN puts => Len(fifo'[c]) = Len(fifo[c]) + 1
  <1>1. DOMAIN fifo' = Stream
    BY DEF FlowShape, Transfer
  <1>2. ASSUME NEW c \in Stream
        PROVE  /\ IsSequence(fifo'[c])
               /\ Len(fifo[c]) \in Nat /\ (fifo[c] = <<>> <=> Len(fifo[c]) = 0)
               /\ c \in takes => Len(fifo[c]) > 0
               /\ c \notin takes /\ c \notin DOMAIN puts => fifo'[c] = fifo[c]
               /\ c \in takes /\ c \notin DOMAIN puts => Len(fifo'[c]) = Len(fifo[c]) - 1
               /\ c \notin takes /\ c \in DOMAIN puts => Len(fifo'[c]) = Len(fifo[c]) + 1
    <2> DEFINE rest == IF c \in takes THEN Tail(fifo[c]) ELSE fifo[c]
               new == IF c \in DOMAIN puts THEN <<puts[c]>> ELSE <<>>
    <2>1. fifo'[c] = rest \o new /\ IsSequence(fifo[c]) /\ (c \in takes => fifo[c] # <<>>)
      BY DEF FlowShape, Transfer
    <2>2. /\ Len(fifo[c]) \in Nat /\ (fifo[c] = <<>> <=> Len(fifo[c]) = 0)
          /\ IsSequence(rest)
          /\ c \in takes => Len(rest) = Len(fifo[c]) - 1
      BY <2>1, Sequences
    <2>3. /\ rest \o <<>> = rest
          /\ IsSequence(rest \o <<puts[c]>>) /\ Len(rest \o <<puts[c]>>) = Len(rest) + 1
      <3> HIDE DEF rest
      <3>1. /\ rest \o <<>> = rest /\ rest \o <<puts[c]>> = Append(rest, puts[c])
            /\ IsSequence(Append(rest, puts[c])) /\ Len(Append(rest, puts[c])) = Len(rest) + 1
        BY <2>2, Sequences
      <3> QED BY <3>1
    <2>4. CASE c \in DOMAIN puts
      <3>1. fifo'[c] = rest \o <<puts[c]>>
        BY <2>1, <2>4
      <3> HIDE DEF rest, new
      <3>2. IsSequence(fifo'[c]) /\ Len(fifo'[c]) = Len(rest) + 1
        BY <2>3, <3>1
      <3>3. c \notin takes => rest = fifo[c]
        BY DEF rest
      <3> QED BY <2>1, <2>2, <2>4, <3>2, <3>3
    <2>5. CASE c \notin DOMAIN puts
      <3>1. fifo'[c] = rest
        BY <2>1, <2>3, <2>5
      <3>2. c \notin takes => rest = fifo[c]
        OBVIOUS
      <3> HIDE DEF rest, new
      <3> QED BY <2>1, <2>2, <2>5, <3>1, <3>2
    <2> QED BY <2>4, <2>5
  <1>3. FlowShape'
    BY <1>1, <1>2 DEF FlowShape
  <1>4. \A c \in Stream : Len(fifo'[c]) \in Nat /\ (fifo'[c] = <<>> <=> Len(fifo'[c]) = 0)
    BY <1>2, Sequences
  <1> QED BY <1>2, <1>3, <1>4

\* What the two forms of a write write to.
LEMMA Puts == DOMAIN Nothing = {} /\ \A c, v : DOMAIN To(c, v) = {c}
BY DEF Nothing, To, ToAll

LEMMA PutsTwo == ASSUME NEW f, NEW g PROVE DOMAIN (f ++ g) = DOMAIN f \cup DOMAIN g
BY DEF ++

-----------------------------------------------------------------------------
(* Steps.                                                                  *)

\* The streams the two properties are about.
RxTokens == {s_consumeDataReady, nextRxPacketLength}
TxTokens == {m_axis_tcp_tx_meta, s_axis_tcp_tx_status}
Watched == RxTokens \cup TxTokens \cup {s_kernel_network_out}

\* The streams the two invariants are about.
LEMMA WatchedStreams ==
  /\ Watched \subseteq Stream /\ s_batch_header(output) \in Stream
  /\ \A c, d \in Watched : c[1] = d[1] => c = d
BY DEF Watched, RxTokens, TxTokens, Stream, s_consumeDataReady, nextRxPacketLength,
       m_axis_tcp_tx_meta, s_axis_tcp_tx_status, s_kernel_network_out

\* The streams that are not among them.
LEMMA Unwatched ==
  \A c \in {m_axis_tcp_listen_port, s_axis_tcp_port_status, m_axis_tcp_open_connection,
           s_axis_tcp_open_status, s_axis_tcp_notification, m_axis_tcp_read_pkg,
           s_axis_tcp_rx_meta, s_axis_tcp_rx_data, s_kernel_network_in,
           s_batch_header(output), s_output, m_axis_tcp_tx_data} : c \notin Watched
BY DEF Watched, RxTokens, TxTokens, s_consumeDataReady, nextRxPacketLength, m_axis_tcp_tx_meta,
       s_axis_tcp_tx_status, s_kernel_network_out, m_axis_tcp_listen_port, s_axis_tcp_port_status,
       m_axis_tcp_open_connection, s_axis_tcp_open_status, s_axis_tcp_notification,
       m_axis_tcp_read_pkg, s_axis_tcp_rx_meta, s_axis_tcp_rx_data, s_kernel_network_in,
       s_batch_header, s_output, m_axis_tcp_tx_data

\* The five watched streams differ from one another, and so do the processes.
LEMMA Different ==
  /\ s_consumeDataReady # nextRxPacketLength /\ m_axis_tcp_tx_meta # s_axis_tcp_tx_status
  /\ RxTokens \cap TxTokens = {} /\ s_kernel_network_out \notin RxTokens \cup TxTokens
BY DEF RxTokens, TxTokens, s_consumeDataReady, nextRxPacketLength, m_axis_tcp_tx_meta,
       s_axis_tcp_tx_status, s_kernel_network_out

\* The processes they are about.
LEMMA Processes ==
  /\ consume \in Process /\ send \in Process
  /\ \A p \in {listen, open, handshake, search, output, stack, host} : p # consume /\ p # send
  /\ consume # send
BY DEF Process, listen, open, handshake, consume, search, output, send, stack, host

\* A step that touches none of the watched streams.
LEMMA Apart ==
  ASSUME FlowShape, NEW takes, NEW puts, Transfer(takes, puts),
         takes \cap Watched = {}, DOMAIN puts \cap Watched = {}
  PROVE  FlowShape' /\ \A c \in Watched : fifo'[c] = fifo[c]
BY TransferEffect, WatchedStreams

RxSame == UNCHANGED <<fifo[s_consumeDataReady], fifo[nextRxPacketLength], at[consume], request>>
TxSame == /\ UNCHANGED <<fifo[m_axis_tcp_tx_meta], fifo[s_axis_tcp_tx_status], at[send]>>
          /\ Len(fifo'[s_kernel_network_out]) >= Len(fifo[s_kernel_network_out])

\* Another process goes on, or none does.
OthersAt == /\ DOMAIN at' = Process
            /\ at'[consume] = at[consume] /\ at'[send] = at[send]
            /\ UNCHANGED request

\* A step of another process that touches none of the watched streams.
LEMMA ApartSame ==
  ASSUME Shape, NEW takes, NEW puts, Transfer(takes, puts),
         takes \cap Watched = {}, DOMAIN puts \cap Watched = {}, OthersAt
  PROVE  Shape' /\ RxSame /\ TxSame
  <1>1. FlowShape' /\ \A c \in Watched : fifo'[c] = fifo[c]
    BY Apart DEF Shape
  <1>2. AtShape'
    BY DEF Shape, AtShape, OthersAt
  <1>3. Len(fifo'[s_kernel_network_out]) = Len(fifo[s_kernel_network_out])
        /\ Len(fifo[s_kernel_network_out]) \in Nat
    BY <1>1, WatchedStreams, TransferEffect DEF Watched, Shape
  <1> QED BY <1>1, <1>2, <1>3 DEF Shape, RxSame, TxSame, OthersAt, Watched, RxTokens, TxTokens

\* The same for a step that takes from and writes to at most one stream.
LEMMA OneSame ==
  ASSUME Shape, OthersAt, NEW a, NEW b, NEW v, a \notin Watched, b \notin Watched,
         Transfer({a}, To(b, v)) \/ Transfer({a}, Nothing) \/ Transfer({}, To(b, v))
  PROVE  Shape' /\ RxSame /\ TxSame
  <1>1. {a} \cap Watched = {} /\ {} \cap Watched = {} /\ DOMAIN Nothing \cap Watched = {}
        /\ DOMAIN To(b, v) \cap Watched = {}
    <2>1. DOMAIN Nothing = {} /\ DOMAIN To(b, v) = {b}
      BY Puts, Zenon
    <2> QED BY <2>1
  <1>2. CASE Transfer({a}, To(b, v))
    BY <1>1, <1>2, ApartSame
  <1>3. CASE Transfer({a}, Nothing)
    BY <1>1, <1>3, ApartSame
  <1>4. CASE Transfer({}, To(b, v))
    BY <1>1, <1>4, ApartSame
  <1> QED BY <1>2, <1>3, <1>4

\* The connections, the search and the answers.
LEMMA KernelSteps ==
  ASSUME Shape,
         listen_port_handler \/ port_status_handler \/ openConnections
           \/ search_word \/ search_result \/ network_output_processing
  PROVE  Shape' /\ RxSame /\ TxSame
  <1>1. CASE listen_port_handler
    <2>1. /\ Transfer({}, To(m_axis_tcp_listen_port, "basePort"))
          /\ at' = [at EXCEPT ![listen].asked = TRUE] /\ UNCHANGED request
      BY <1>1, Processes DEF listen_port_handler, Shape, AtShape, OthersAt
    <2>2. OthersAt
      BY <2>1, Processes DEF Shape, AtShape, OthersAt
    <2> QED BY <2>1, <2>2, Unwatched, OneSame
  <1>2. CASE port_status_handler
    <2>1. /\ Transfer({s_axis_tcp_port_status}, Nothing)
          /\ at' = [at EXCEPT ![listen].answered = TRUE] /\ UNCHANGED request
      BY <1>2, Processes DEF port_status_handler, Shape, AtShape, OthersAt
    <2>2. OthersAt
      BY <2>1, Processes DEF Shape, AtShape, OthersAt
    <2> QED BY <2>1, <2>2, Unwatched, OneSame
  <1>3. CASE openConnections
    <2>1. /\ \/ Transfer({}, To(m_axis_tcp_open_connection, "baseIpAddress"))
             \/ Transfer({s_axis_tcp_open_status}, Nothing)
          /\ OthersAt
      BY <1>3, Processes DEF openConnections, Shape, AtShape, OthersAt
    <2> QED BY <2>1, Unwatched, OneSame
  <1>4. CASE search_word
    <2>1. /\ \/ Transfer({s_kernel_network_in}, To(s_batch_header(output), Header(1, 1)))
             \/ Transfer({s_kernel_network_in}, Nothing)
          /\ OthersAt
      BY <1>4, Processes DEF search_word, SetAt, Shape, AtShape, OthersAt
    <2> QED BY <2>1, Unwatched, OneSame
  <1>5. CASE search_result
    <2>1. /\ Transfer({}, To(s_output, Result(at[search].query, TOPK + 1 - at[search].left)))
          /\ OthersAt
      BY <1>5, Processes DEF search_result, SetAt, Shape, AtShape, OthersAt
    <2> QED BY <2>1, Unwatched, OneSame
  <1>6. CASE read_header(output) /\ UNCHANGED <<at, request>>
    <2>1. Transfer({s_batch_header(output)}, Nothing) /\ OthersAt
      BY <1>6, Processes DEF read_header, Shape, AtShape, OthersAt
    <2> QED BY <2>1, Unwatched, OneSame
  <1>7. CASE output_result
    <2>1. Transfer({s_output}, Nothing) /\ OthersAt
      BY <1>7, Processes DEF output_result, SetAt, Shape, AtShape, OthersAt
    <2> QED BY <2>1, Unwatched, OneSame
  <1>8. CASE output_word
    <2>1. /\ Transfer({}, To(s_kernel_network_out, AnswerWord(at[output].results, at[output].word)))
          /\ OthersAt
      BY <1>8, Processes DEF output_word, SetAt, Shape, AtShape, OthersAt
    <2>2. /\ FlowShape'
          /\ \A c \in RxTokens \cup TxTokens : fifo'[c] = fifo[c]
          /\ Len(fifo'[s_kernel_network_out]) = Len(fifo[s_kernel_network_out]) + 1
          /\ Len(fifo[s_kernel_network_out]) \in Nat
      <3> DEFINE word == AnswerWord(at[output].results, at[output].word)
      <3>1. Transfer({}, To(s_kernel_network_out, word)) /\ FlowShape
        BY <2>1 DEF Shape
      <3>2. DOMAIN To(s_kernel_network_out, word) = {s_kernel_network_out}
        BY Puts, Zenon
      <3> HIDE DEF word
      <3>3. s_kernel_network_out \in Stream
        BY WatchedStreams DEF Watched
      <3>4. \A c \in RxTokens \cup TxTokens :
              c \in Stream /\ c \notin {} /\ c \notin DOMAIN To(s_kernel_network_out, word)
        BY <3>2, WatchedStreams, Different DEF Watched
      <3> QED BY <3>1, <3>2, <3>3, <3>4, TransferEffect
    <2>3. AtShape'
      BY <2>1 DEF Shape, AtShape, OthersAt
    <2> QED BY <2>1, <2>2, <2>3 DEF RxSame, TxSame, RxTokens, TxTokens, OthersAt, Shape
  <1> QED BY <1>1, <1>2, <1>3, <1>4, <1>5, <1>6, <1>7, <1>8 DEF network_output_processing

\* The stack but for its answers to announcements, and the host.
LEMMA StackSteps ==
  ASSUME Shape,
         stack_listen \/ stack_open \/ stack_zero \/ stack_read \/ stack_word \/ host_send
  PROVE  Shape' /\ RxSame /\ TxSame
  <1>1. CASE stack_listen
    <2>1. Transfer({m_axis_tcp_listen_port}, To(s_axis_tcp_port_status, TRUE)) /\ OthersAt
      BY <1>1, Processes DEF stack_listen, Shape, AtShape, OthersAt
    <2> QED BY <2>1, Unwatched, OneSame
  <1>2. CASE stack_open
    <2>1. /\ Transfer({m_axis_tcp_open_connection}, To(s_axis_tcp_open_status,
               [success |-> request.open, sessionID |-> "session"]))
          /\ OthersAt
      BY <1>2, Processes DEF stack_open, Shape, AtShape, OthersAt
    <2> QED BY <2>1, Unwatched, OneSame
  <1>3. CASE stack_zero
    <2>1. Transfer({}, To(s_axis_tcp_notification, 0)) /\ OthersAt
      BY <1>3, Processes DEF stack_zero, Shape, AtShape, OthersAt
    <2> QED BY <2>1, Unwatched, OneSame
  <1>4. CASE stack_read
    <2>1. Transfer({m_axis_tcp_read_pkg}, To(s_axis_tcp_rx_meta, 0)) /\ OthersAt
      BY <1>4, Processes DEF stack_read, SetAt, Shape, AtShape, OthersAt
    <2> QED BY <2>1, Unwatched, OneSame
  <1>5. CASE stack_word
    <2>1. /\ Transfer({}, To(s_axis_tcp_rx_data,
               [data |-> Head(at[stack].packet), last |-> Len(at[stack].packet) = 1]))
          /\ OthersAt
      BY <1>5, Processes DEF stack_word, SetAt, Shape, AtShape, OthersAt
    <2> QED BY <2>1, Unwatched, OneSame
  <1>6. CASE host_send
    <2>1. Transfer({}, To(s_axis_tcp_notification, request.segments[at[host].segment])) /\ OthersAt
      BY <1>6, Processes DEF host_send, Shape, AtShape, OthersAt
    <2> QED BY <2>1, Unwatched, OneSame
  <1> QED BY <1>1, <1>2, <1>3, <1>4, <1>5, <1>6

-----------------------------------------------------------------------------
(* recvDataSafe: one packet at a time.                                     *)

\* The tokens of recvDataSafe: one that consume is yet to write, one in
\* s_consumeDataReady, a packet asked for, a packet being passed on.
PassingOn == IF at[consume].length > 0 THEN 1 ELSE 0
NotStarted == IF at[consume].started THEN 0 ELSE 1
Tokens ==
  Len(fifo[s_consumeDataReady]) + Len(fifo[nextRxPacketLength]) + PassingOn + NotStarted
OneToken == request.safe => Tokens <= 1

\* A step that moves nothing of the receiving side keeps its token.
LEMMA RxSameToken == OneToken /\ RxSame => OneToken'
BY DEF OneToken, Tokens, PassingOn, NotStarted, RxSame

\* A step that makes no token.
LEMMA FewerTokens ==
  ASSUME OneToken, UNCHANGED request, Tokens \in Int, Tokens' \in Int,
         request.safe => Tokens' <= Tokens
  PROVE  OneToken'
  <1> DEFINE a == Tokens
             b == Tokens'
  <1>1. /\ a \in Int /\ b \in Int /\ (request.safe => a <= 1)
        /\ request.safe => b <= a
    BY DEF OneToken
  <1> HIDE DEF a, b
  <1>2. request.safe => b <= 1
    BY <1>1
  <1> QED BY <1>2 DEF OneToken, b

\* A step that sets the variables of one process.
LEMMA Moved ==
  /\ \A r, n, s \in Int : r + 1 + n + s + 0 <= r + n + s + 1
  /\ \A r, n, s \in Int : r + 1 + n + 0 + s <= r + n + 1 + s
  /\ \A r, n, s \in Int, p \in {0, 1} : r + n + p + s <= r + n + 1 + s
  /\ \A r, n, s \in Int, p \in {0, 1} : r + (n - 1) + p + s <= r + n + 0 + s
OBVIOUS

\* The steps of the two receiving processes.
LEMMA ReceiveSteps ==
  ASSUME Shape, OneToken, recvData_handshake \/ recvData_consumeData
  PROVE  Shape' /\ OneToken' /\ TxSame
  <1> DEFINE ready == s_consumeDataReady
             next == nextRxPacketLength
             l == at[consume]
  <1>0. /\ ready \in Stream /\ next \in Stream /\ ready # next
        /\ Len(fifo[ready]) \in Nat /\ Len(fifo[next]) \in Nat
        /\ {m_axis_tcp_tx_meta, s_axis_tcp_tx_status, s_kernel_network_out} \subseteq Stream
        /\ {m_axis_tcp_tx_meta, s_axis_tcp_tx_status, s_kernel_network_out} \cap {ready, next} = {}
        /\ Len(fifo[s_kernel_network_out]) \in Nat
    BY Sequences, WatchedStreams, Different DEF Shape, FlowShape, Watched, RxTokens, TxTokens
  <1>n. /\ PassingOn \in {0, 1} /\ NotStarted \in {0, 1}
        /\ PassingOn' \in {0, 1} /\ NotStarted' \in {0, 1}
    BY DEF PassingOn, NotStarted
  <1>t. /\ Tokens = Len(fifo[ready]) + Len(fifo[next]) + PassingOn + NotStarted
        /\ Tokens' = Len(fifo'[ready]) + Len(fifo'[next]) + PassingOn' + NotStarted'
    BY DEF Tokens
  <1> DEFINE r == Len(fifo[ready])
             n == Len(fifo[next])
             r2 == Len(fifo'[ready])
             n2 == Len(fifo'[next])
  \* The streams of the sender are as they were.
  <1>a. ASSUME NEW takes, NEW puts, Transfer(takes, puts), UNCHANGED at[send],
               \A c \in takes \cup DOMAIN puts : c \in {ready, next} \/ c \notin Watched
        PROVE  /\ FlowShape' /\ TxSame
               /\ Len(fifo'[ready]) \in Nat /\ Len(fifo'[next]) \in Nat
    <2>1. \A c \in {m_axis_tcp_tx_meta, s_axis_tcp_tx_status, s_kernel_network_out} :
            c \in Watched /\ c \notin {ready, next}
      BY <1>0 DEF Watched, TxTokens
    <2>2. \A c \in {m_axis_tcp_tx_meta, s_axis_tcp_tx_status, s_kernel_network_out} :
            c \notin takes /\ c \notin DOMAIN puts
      BY <1>a, <2>1
    <2>3. /\ FlowShape'
          /\ \A c \in {m_axis_tcp_tx_meta, s_axis_tcp_tx_status, s_kernel_network_out} :
               fifo'[c] = fifo[c]
          /\ Len(fifo'[ready]) \in Nat /\ Len(fifo'[next]) \in Nat
      BY <1>0, <1>a, <2>2, TransferEffect DEF Shape
    <2> QED BY <1>0, <1>a, <2>3 DEF TxSame
  <1>1. CASE recvData_handshake
    <2> DEFINE length == Head(fifo[s_axis_tcp_notification])
               takes == {s_axis_tcp_notification} \cup (IF request.safe THEN {ready} ELSE {})
               puts == IF length = 0 THEN Nothing
                       ELSE To(m_axis_tcp_read_pkg, length) ++ To(next, length)
    <2>1. /\ Transfer(takes, puts)
          /\ at' = [at EXCEPT ![handshake].rxByteCnt = @ + length] /\ UNCHANGED request
      BY <1>1 DEF recvData_handshake
    <2>2. AtShape' /\ at'[consume] = l /\ at'[send] = at[send]
      BY <2>1, Processes DEF Shape, AtShape
    <2>3. DOMAIN puts = {} \/ DOMAIN puts = {m_axis_tcp_read_pkg, next}
      <3>1. DOMAIN Nothing = {}
        BY Puts, Zenon
      <3>2. DOMAIN (To(m_axis_tcp_read_pkg, length) ++ To(next, length))
              = DOMAIN To(m_axis_tcp_read_pkg, length) \cup DOMAIN To(next, length)
        BY PutsTwo
      <3>3. /\ DOMAIN To(m_axis_tcp_read_pkg, length) = {m_axis_tcp_read_pkg}
            /\ DOMAIN To(next, length) = {next}
        BY Puts, Zenon
      <3> QED BY <3>1, <3>2, <3>3
    <2>4. s_axis_tcp_notification \notin Watched /\ m_axis_tcp_read_pkg \notin Watched
      BY Unwatched
    <2>5. ready \in Watched /\ next \in Watched
      BY DEF Watched, RxTokens
    <2>6. ready \notin DOMAIN puts /\ next \notin takes /\ (request.safe => ready \in takes)
      BY <1>0, <2>3, <2>4, <2>5
    <2> HIDE DEF takes, puts
    <2>7. FlowShape' /\ TxSame /\ Len(fifo'[ready]) \in Nat /\ Len(fifo'[next]) \in Nat
      <3>1. \A c \in takes \cup DOMAIN puts : c \in {ready, next} \/ c \notin Watched
        BY <2>3, <2>4 DEF takes
      <3> QED BY <1>a, <2>1, <2>2, <3>1
    <2>8. /\ request.safe => Len(fifo'[ready]) = Len(fifo[ready]) - 1
          /\ Len(fifo'[next]) \in {Len(fifo[next]), Len(fifo[next]) + 1}
      BY <1>0, <2>1, <2>6, TransferEffect DEF Shape
    <2>9. PassingOn' = PassingOn /\ NotStarted' = NotStarted
      BY <2>2 DEF PassingOn, NotStarted
    <2>10. Tokens \in Int /\ Tokens' \in Int /\ (request.safe => Tokens' <= Tokens)
      <3>1. r \in Nat /\ n \in Nat /\ r2 \in Nat /\ n2 \in Nat
        BY <1>0, <2>7
      <3>2. ASSUME request.safe
            PROVE  r2 = r - 1 /\ n2 \in {n, n + 1} /\ PassingOn' = PassingOn /\ NotStarted' = NotStarted
        BY <3>2, <2>8, <2>9
      <3> HIDE DEF r, n, r2, n2
      <3>3. /\ Tokens = r + n + PassingOn + NotStarted
            /\ Tokens' = r2 + n2 + PassingOn' + NotStarted'
        BY <1>t DEF r, n, r2, n2
      <3>4. ASSUME request.safe PROVE Tokens' <= Tokens
        <4>1. r2 + n2 + PassingOn' + NotStarted' <= r + n + PassingOn + NotStarted
          BY <1>n, <3>1, <3>2, <3>4
        <4> QED BY <3>3, <4>1
      <3>5. r + n + PassingOn + NotStarted \in Int /\ r2 + n2 + PassingOn' + NotStarted' \in Int
        BY <1>n, <3>1
      <3> QED BY <3>3, <3>4, <3>5, Zenon
    <2>10o. OneToken'
      BY <2>1, <2>10, FewerTokens
    <2> QED BY <2>2, <2>7, <2>10o DEF Shape
  <1>2. CASE consume_start
    <2>1. /\ Transfer({}, To(ready, 1)) /\ ~ l.started
          /\ at' = [at EXCEPT ![consume].started = TRUE] /\ UNCHANGED request
      BY <1>2 DEF consume_start
    <2>2. /\ AtShape' /\ at'[send] = at[send]
          /\ at'[consume].started = TRUE /\ at'[consume].length = l.length
      BY <2>1, Processes DEF Shape, AtShape
    <2>3. DOMAIN To(ready, 1) = {ready}
      BY Puts, Zenon
    <2>4. FlowShape' /\ TxSame /\ Len(fifo'[ready]) \in Nat /\ Len(fifo'[next]) \in Nat
      BY <1>a, <2>1, <2>2, <2>3
    <2>5. Len(fifo'[ready]) = Len(fifo[ready]) + 1 /\ fifo'[next] = fifo[next]
      BY <1>0, <2>1, <2>3, TransferEffect DEF Shape
    <2>6. PassingOn' = PassingOn /\ NotStarted = 1 /\ NotStarted' = 0
      BY <2>1, <2>2 DEF PassingOn, NotStarted
    <2>7. Tokens \in Int /\ Tokens' \in Int /\ (request.safe => Tokens' <= Tokens)
      <3>1. r \in Nat /\ n \in Nat /\ r2 \in Nat /\ n2 \in Nat
        BY <1>0, <2>4
      <3>2. ASSUME request.safe
            PROVE  r2 = r + 1 /\ n2 = n /\ PassingOn' = PassingOn /\ NotStarted = 1 /\ NotStarted' = 0
        BY <3>2, <2>5, <2>6
      <3> HIDE DEF r, n, r2, n2
      <3>3. /\ Tokens = r + n + PassingOn + NotStarted
            /\ Tokens' = r2 + n2 + PassingOn' + NotStarted'
        BY <1>t DEF r, n, r2, n2
      <3>4. ASSUME request.safe PROVE Tokens' <= Tokens
        <4>1. r2 + n2 + PassingOn' + NotStarted' <= r + n + PassingOn + NotStarted
          <5>a. PassingOn \in Int /\ r \in Int /\ n \in Int
            BY <1>n, <3>1
          <5>1. r + 1 + n + PassingOn + 0 <= r + n + PassingOn + 1
            BY <5>a, Moved, Zenon
          <5> QED BY <3>2, <3>4, <5>1, Zenon
        <4> QED BY <3>3, <4>1
      <3>5. r + n + PassingOn + NotStarted \in Int /\ r2 + n2 + PassingOn' + NotStarted' \in Int
        BY <1>n, <3>1
      <3> QED BY <3>3, <3>4, <3>5, Zenon
    <2>7o. OneToken'
      BY <2>1, <2>7, FewerTokens
    <2> QED BY <2>2, <2>4, <2>7o DEF Shape
  <1>3. CASE consume_meta
    <2>1. /\ Transfer({s_axis_tcp_rx_meta, next}, Nothing) /\ l.length = 0
          /\ at' = [at EXCEPT ![consume] = [l EXCEPT !.length = Head(fifo[next])]] /\ UNCHANGED request
      BY <1>3 DEF consume_meta, SetAt
    <2>2. /\ AtShape' /\ at'[send] = at[send] /\ at'[consume].started = l.started
      BY <2>1, Processes DEF Shape, AtShape
    <2>3. DOMAIN Nothing = {}
      BY Puts, Zenon
    <2>4. s_axis_tcp_rx_meta \notin Watched /\ ready \in Watched
      BY Unwatched DEF Watched, RxTokens
    <2>5. FlowShape' /\ TxSame /\ Len(fifo'[ready]) \in Nat /\ Len(fifo'[next]) \in Nat
      BY <1>a, <2>1, <2>2, <2>3, <2>4
    <2>6. Len(fifo'[next]) = Len(fifo[next]) - 1 /\ fifo'[ready] = fifo[ready]
      BY <1>0, <2>1, <2>3, <2>4, TransferEffect DEF Shape
    <2>7. PassingOn = 0 /\ NotStarted' = NotStarted
      BY <2>1, <2>2 DEF PassingOn, NotStarted
    <2>8. Tokens \in Int /\ Tokens' \in Int /\ (request.safe => Tokens' <= Tokens)
      <3>1. r \in Nat /\ n \in Nat /\ r2 \in Nat /\ n2 \in Nat
        BY <1>0, <2>5
      <3>2. ASSUME request.safe
            PROVE  r2 = r /\ n2 = n - 1 /\ PassingOn = 0 /\ NotStarted' = NotStarted
        BY <3>2, <2>6, <2>7
      <3> HIDE DEF r, n, r2, n2
      <3>3. /\ Tokens = r + n + PassingOn + NotStarted
            /\ Tokens' = r2 + n2 + PassingOn' + NotStarted'
        BY <1>t DEF r, n, r2, n2
      <3>4. ASSUME request.safe PROVE Tokens' <= Tokens
        <4>1. r2 + n2 + PassingOn' + NotStarted' <= r + n + PassingOn + NotStarted
          <5>a. PassingOn' \in {0, 1} /\ r \in Int /\ n \in Int /\ NotStarted \in Int
            BY <1>n, <3>1
          <5>1. r + (n - 1) + PassingOn' + NotStarted <= r + n + 0 + NotStarted
            BY <5>a, Moved, Zenon
          <5> QED BY <3>2, <3>4, <5>1, Zenon
        <4> QED BY <3>3, <4>1
      <3>5. r + n + PassingOn + NotStarted \in Int /\ r2 + n2 + PassingOn' + NotStarted' \in Int
        BY <1>n, <3>1
      <3> QED BY <3>3, <3>4, <3>5, Zenon
    <2>8o. OneToken'
      BY <2>1, <2>8, FewerTokens
    <2> QED BY <2>2, <2>5, <2>8o DEF Shape
  <1>4. CASE consume_word
    <2> DEFINE word == Head(fifo[s_axis_tcp_rx_data])
               announce == request.safe /\ word.last /\ l.rxByteCnt + l.length < expectedRxByteCnt
               puts == To(s_kernel_network_in, word.data)
                         ++ (IF announce THEN To(ready, 1) ELSE Nothing)
    <2>1. /\ Transfer({s_axis_tcp_rx_data}, puts) /\ l.length > 0
          /\ at' = [at EXCEPT ![consume] =
                       IF word.last THEN [l EXCEPT !.rxByteCnt = l.rxByteCnt + l.length, !.length = 0]
                       ELSE l]
          /\ UNCHANGED request
      BY <1>4 DEF consume_word, SetAt
    <2>2. /\ AtShape' /\ at'[send] = at[send] /\ at'[consume].started = l.started
          /\ IF word.last THEN at'[consume].length = 0 ELSE at'[consume].length = l.length
      BY <2>1, Processes DEF Shape, AtShape
    <2>3. DOMAIN puts = IF announce THEN {s_kernel_network_in, ready} ELSE {s_kernel_network_in}
      <3> DEFINE f == To(s_kernel_network_in, word.data)
      <3>1. /\ DOMAIN f = {s_kernel_network_in} /\ DOMAIN To(ready, 1) = {ready}
            /\ DOMAIN Nothing = {}
        BY Puts, Zenon
      <3>2. /\ DOMAIN (f ++ To(ready, 1)) = DOMAIN f \cup DOMAIN To(ready, 1)
            /\ DOMAIN (f ++ Nothing) = DOMAIN f \cup DOMAIN Nothing
        BY PutsTwo
      <3> HIDE DEF f
      <3>3. CASE announce
        <4>1. puts = f ++ To(ready, 1)
          BY <3>3 DEF f
        <4> QED BY <3>1, <3>2, <3>3, <4>1
      <3>4. CASE ~ announce
        <4>1. puts = f ++ Nothing
          BY <3>4 DEF f
        <4> QED BY <3>1, <3>2, <3>4, <4>1
      <3> QED BY <3>3, <3>4
    <2>4. /\ s_axis_tcp_rx_data \notin Watched /\ s_kernel_network_in \notin Watched
          /\ ready \in Watched /\ next \in Watched
      BY Unwatched DEF Watched, RxTokens
    <2>b. announce => word.last
      OBVIOUS
    <2> HIDE DEF puts, word, announce
    <2>5. FlowShape' /\ TxSame /\ Len(fifo'[ready]) \in Nat /\ Len(fifo'[next]) \in Nat
      <3>1. \A c \in {s_axis_tcp_rx_data} \cup DOMAIN puts : c \in {ready, next} \/ c \notin Watched
        BY <2>3, <2>4
      <3> QED BY <1>a, <2>1, <2>2, <3>1
    <2>6. /\ fifo'[next] = fifo[next]
          /\ IF announce THEN Len(fifo'[ready]) = Len(fifo[ready]) + 1 ELSE fifo'[ready] = fifo[ready]
      BY <1>0, <2>1, <2>3, <2>4, TransferEffect DEF Shape
    <2>7. /\ PassingOn = 1 /\ NotStarted' = NotStarted
          /\ announce => PassingOn' = 0
      BY <2>1, <2>2, <2>b DEF PassingOn, NotStarted
    <2>8. Tokens \in Int /\ Tokens' \in Int /\ (request.safe => Tokens' <= Tokens)
      <3>1. r \in Nat /\ n \in Nat /\ r2 \in Nat /\ n2 \in Nat
        BY <1>0, <2>5
      <3>2. \/ r2 = r + 1 /\ n2 = n /\ PassingOn = 1 /\ PassingOn' = 0 /\ NotStarted' = NotStarted
            \/ r2 = r /\ n2 = n /\ PassingOn = 1 /\ NotStarted' = NotStarted
        <4>1. CASE announce
          BY <2>6, <2>7, <4>1
        <4>2. CASE ~ announce
          BY <2>6, <2>7, <4>2
        <4> QED BY <4>1, <4>2
      <3> HIDE DEF r, n, r2, n2
      <3>3. /\ Tokens = r + n + PassingOn + NotStarted
            /\ Tokens' = r2 + n2 + PassingOn' + NotStarted'
        BY <1>t DEF r, n, r2, n2
      <3>4. ASSUME request.safe PROVE Tokens' <= Tokens
        <4>1. r2 + n2 + PassingOn' + NotStarted' <= r + n + PassingOn + NotStarted
          <5> DEFINE p == PassingOn
                     p2 == PassingOn'
                     t == NotStarted
                     t2 == NotStarted'
          <5>a. p2 \in {0, 1} /\ r \in Int /\ n \in Int /\ t \in Int
            BY <1>n, <3>1
          <5>1. r + 1 + n + 0 + t <= r + n + 1 + t /\ r + n + p2 + t <= r + n + 1 + t
            BY <5>a, Moved, Zenon
          <5>2. \/ r2 = r + 1 /\ n2 = n /\ p = 1 /\ p2 = 0 /\ t2 = t
                \/ r2 = r /\ n2 = n /\ p = 1 /\ t2 = t
            BY <3>2
          <5> HIDE DEF p, p2, t, t2
          <5>3. r2 + n2 + p2 + t2 <= r + n + p + t
            BY <5>1, <5>2, Zenon
          <5> QED BY <5>3 DEF p, p2, t, t2
        <4> QED BY <3>3, <4>1
      <3>5. r + n + PassingOn + NotStarted \in Int /\ r2 + n2 + PassingOn' + NotStarted' \in Int
        BY <1>n, <3>1
      <3> QED BY <3>3, <3>4, <3>5, Zenon
    <2>8o. OneToken'
      BY <2>1, <2>8, FewerTokens
    <2> QED BY <2>2, <2>5, <2>8o DEF Shape
  <1> QED BY <1>1, <1>2, <1>3, <1>4 DEF recvData_consumeData
-----------------------------------------------------------------------------
(* sendDataProtected: a packet is announced with its first word at hand.   *)

\* While a packet is under negotiation it is announced once, or answered once,
\* or its connection was torn down; else nothing is under way.
PacketInFlight ==
  IF at[send].phase = "status"
  THEN /\ fifo[s_kernel_network_out] # <<>>
       /\ Len(fifo[m_axis_tcp_tx_meta]) <= 1 /\ Len(fifo[s_axis_tcp_tx_status]) <= 1
       /\ fifo[m_axis_tcp_tx_meta] = <<>> \/ fifo[s_axis_tcp_tx_status] = <<>>
  ELSE fifo[m_axis_tcp_tx_meta] = <<>> /\ fifo[s_axis_tcp_tx_status] = <<>>

\* A step that moves nothing of the sending side, or adds words to send.
LEMMA TxSamePacket == Shape /\ Shape' /\ PacketInFlight /\ TxSame => PacketInFlight'
  <1> SUFFICES ASSUME Shape, Shape', PacketInFlight, TxSame PROVE PacketInFlight'
    OBVIOUS
  <1>1. s_kernel_network_out \in Stream
    BY WatchedStreams DEF Watched
  <1>2. IsSequence(fifo[s_kernel_network_out]) /\ IsSequence(fifo'[s_kernel_network_out])
    BY <1>1 DEF Shape, FlowShape
  <1>3. /\ Len(fifo[s_kernel_network_out]) \in Nat /\ Len(fifo'[s_kernel_network_out]) \in Nat
        /\ fifo[s_kernel_network_out] = <<>> <=> Len(fifo[s_kernel_network_out]) = 0
        /\ fifo'[s_kernel_network_out] = <<>> <=> Len(fifo'[s_kernel_network_out]) = 0
    BY <1>2, Sequences
  <1>4. fifo[s_kernel_network_out] # <<>> => fifo'[s_kernel_network_out] # <<>>
    BY <1>3 DEF TxSame
  <1> QED BY <1>4 DEF PacketInFlight, TxSame

\* What a step that leaves the streams of the receiver alone does to the others.
LEMMA SendStreams ==
  ASSUME Shape, NEW takes, NEW puts, Transfer(takes, puts),
         takes \cap RxTokens = {}, DOMAIN puts \cap RxTokens = {},
         at'[consume] = at[consume], UNCHANGED request
  PROVE  FlowShape' /\ RxSame
  <1>1. \A c \in RxTokens : c \in Stream /\ c \notin takes /\ c \notin DOMAIN puts
    BY WatchedStreams DEF Watched
  <1>2. FlowShape' /\ \A c \in RxTokens : fifo'[c] = fifo[c]
    BY <1>1, TransferEffect DEF Shape
  <1> QED BY <1>2 DEF RxSame, RxTokens

\* The steps of the sender, and the stack's answers to it.
LEMMA SendSteps ==
  ASSUME Shape, PacketInFlight, sendDataProtected \/ stack_status
  PROVE  Shape' /\ RxSame /\ PacketInFlight'
  <1> DEFINE meta == m_axis_tcp_tx_meta
             status == s_axis_tcp_tx_status
             out == s_kernel_network_out
             l == at[send]
  <1>0. /\ meta \in Stream /\ status \in Stream /\ out \in Stream
        /\ meta # status /\ meta # out /\ status # out
        /\ meta \notin RxTokens /\ status \notin RxTokens /\ out \notin RxTokens
        /\ meta \in Watched /\ status \in Watched /\ out \in Watched
    BY WatchedStreams, Different DEF Watched, TxTokens
  <1>d. m_axis_tcp_tx_data \notin Watched /\ m_axis_tcp_tx_data \notin RxTokens
    BY Unwatched DEF Watched
  \* A packet is announced.
  <1>a. ASSUME NEW m, l.phase # "status", fifo[out] # <<>>, Transfer({}, To(meta, m)),
               at' = [at EXCEPT ![send] = [l EXCEPT !.phase = "status"]], UNCHANGED request
        PROVE  Shape' /\ RxSame /\ PacketInFlight'
    <2>1. DOMAIN To(meta, m) = {meta}
      BY Puts, Zenon
    <2>2. AtShape' /\ at'[consume] = at[consume] /\ at'[send].phase = "status"
      BY <1>a, Processes DEF Shape, AtShape
    <2>3. FlowShape' /\ RxSame
      BY <1>0, <1>a, <2>1, <2>2, SendStreams
    <2>4. /\ Len(fifo'[meta]) = Len(fifo[meta]) + 1 /\ fifo'[status] = fifo[status]
          /\ fifo'[out] = fifo[out] /\ (fifo[meta] = <<>> <=> Len(fifo[meta]) = 0)
          /\ fifo[status] = <<>> <=> Len(fifo[status]) = 0
      BY <1>0, <1>a, <2>1, TransferEffect DEF Shape
    <2>5. fifo[meta] = <<>> /\ fifo[status] = <<>>
      BY <1>a DEF PacketInFlight
    <2>6. Len(fifo'[meta]) <= 1 /\ Len(fifo'[status]) <= 1
      BY <2>4, <2>5
    <2>7. PacketInFlight'
      BY <1>a, <2>2, <2>4, <2>5, <2>6 DEF PacketInFlight
    <2> QED BY <2>2, <2>3, <2>7 DEF Shape
  <1>1. CASE send_first
    <2>1. /\ l.phase # "status" /\ fifo[out] # <<>>
          /\ Transfer({}, To(meta, Announce(pkgLength)))
          /\ at' = [at EXCEPT ![send] = [l EXCEPT !.phase = "status"]] /\ UNCHANGED request
      BY <1>1 DEF send_first, SetAt
    <2> QED BY <1>a, <2>1
  <1>2. CASE send_next
    <2>1. /\ l.phase # "status" /\ fifo[out] # <<>>
          /\ Transfer({}, To(meta, Announce(NextLength(l.sentByteCnt))))
          /\ at' = [at EXCEPT ![send] = [l EXCEPT !.phase = "status"]] /\ UNCHANGED request
      BY <1>2 DEF send_next, SetAt
    <2> QED BY <1>a, <2>1
  <1>3. CASE send_status
    <2> DEFINE resp == Head(fifo[status])
               again == To(meta, [sessionID |-> resp.sessionID, length |-> resp.length])
               puts == IF resp.error \in {0, 1} THEN Nothing ELSE again
    <2>1. /\ l.phase = "status" /\ Transfer({status}, puts) /\ UNCHANGED request
          /\ at' = [at EXCEPT ![send] =
                      IF resp.error = 0
                      THEN [l EXCEPT !.phase = "data", !.length = resp.length,
                                     !.todo = resp.length \div WORD]
                      ELSE l]
      BY <1>3 DEF send_status, SetAt
    <2>2. /\ AtShape' /\ at'[consume] = at[consume]
          /\ at'[send].phase = IF resp.error = 0 THEN "data" ELSE "status"
      BY <2>1, Processes DEF Shape, AtShape
    <2>3. /\ DOMAIN puts = {} \/ DOMAIN puts = {meta}
          /\ resp.error = 0 => DOMAIN puts = {}
      <3>1. DOMAIN Nothing = {} /\ DOMAIN again = {meta}
        BY Puts, Zenon
      <3> QED BY <3>1
    <2>b. resp.error = 0 \/ resp.error # 0
      OBVIOUS
    <2> HIDE DEF puts, resp
    <2>4. FlowShape' /\ RxSame
      BY <1>0, <2>1, <2>2, <2>3, SendStreams
    <2>5. /\ Len(fifo[status]) > 0 /\ Len(fifo[status]) \in Nat
          /\ fifo[status] = <<>> <=> Len(fifo[status]) = 0
          /\ fifo'[status] = <<>> <=> Len(fifo'[status]) = 0
          /\ fifo[meta] = <<>> <=> Len(fifo[meta]) = 0
          /\ fifo'[meta] = <<>> <=> Len(fifo'[meta]) = 0
          /\ Len(fifo'[status]) = Len(fifo[status]) - 1
          /\ fifo'[out] = fifo[out]
          /\ DOMAIN puts = {} => fifo'[meta] = fifo[meta]
          /\ DOMAIN puts = {meta} => Len(fifo'[meta]) = Len(fifo[meta]) + 1
      <3>1. status \notin DOMAIN puts /\ out \notin DOMAIN puts /\ meta \notin {status}
            /\ status \in {status} /\ out \notin {status}
        BY <1>0, <2>3
      <3>2. /\ DOMAIN puts = {} => meta \notin DOMAIN puts
            /\ DOMAIN puts = {meta} => meta \in DOMAIN puts
        OBVIOUS
      <3> QED BY <1>0, <2>1, <3>1, <3>2, TransferEffect DEF Shape
    <2>6. Len(fifo[status]) <= 1 /\ fifo[meta] = <<>> /\ fifo[out] # <<>>
      BY <2>1, <2>5 DEF PacketInFlight
    <2>7. fifo'[status] = <<>> /\ Len(fifo'[status]) <= 1 /\ Len(fifo'[meta]) <= 1
          /\ (DOMAIN puts = {} => fifo'[meta] = <<>>)
      BY <2>3, <2>5, <2>6
    <2>8. PacketInFlight'
      <3>1. CASE resp.error = 0
        BY <2>2, <2>3, <2>7, <3>1 DEF PacketInFlight
      <3>2. CASE resp.error # 0
        BY <2>2, <2>5, <2>6, <2>7, <3>2 DEF PacketInFlight
      <3> QED BY <3>1, <3>2
    <2> QED BY <2>2, <2>4, <2>8 DEF Shape
  <1>4. CASE send_word
    <2> DEFINE word == [data |-> Head(fifo[out]), last |-> is_last(l.todo)]
               full == l.todo = 1
               sent == l.sentByteCnt + l.length
    <2>1. /\ l.phase = "data" /\ UNCHANGED request
          /\ Transfer({out}, To(m_axis_tcp_tx_data, word))
          /\ at' = [at EXCEPT ![send] =
               IF full THEN [l EXCEPT !.phase = IF sent < expectedTxByteCnt THEN "next" ELSE "done",
                                      !.sentByteCnt = sent, !.todo = 0]
               ELSE [l EXCEPT !.todo = @ - 1]]
      BY <1>4 DEF send_word
    <2>2. AtShape' /\ at'[consume] = at[consume] /\ at'[send].phase # "status"
      <3>1. at'[send] = IF full
                        THEN [l EXCEPT !.phase = IF sent < expectedTxByteCnt THEN "next" ELSE "done",
                                       !.sentByteCnt = sent, !.todo = 0]
                        ELSE [l EXCEPT !.todo = @ - 1]
        BY <2>1, Processes DEF Shape, AtShape
      <3>2. "phase" \in DOMAIN l
        BY DEF Shape, AtShape
      <3>3. "phase" \in DOMAIN at'[send] /\ at'[send].phase # "status"
        <4>1. CASE full
          BY <3>1, <3>2, <4>1
        <4>2. CASE ~ full
          BY <2>1, <3>1, <3>2, <4>2
        <4> QED BY <4>1, <4>2
      <3> QED BY <2>1, <3>3, Processes DEF Shape, AtShape
    <2>3. DOMAIN To(m_axis_tcp_tx_data, word) = {m_axis_tcp_tx_data}
      BY Puts, Zenon
    <2> HIDE DEF word
    <2>4. FlowShape' /\ RxSame
      BY <1>0, <1>d, <2>1, <2>2, <2>3, SendStreams
    <2>5. fifo'[meta] = fifo[meta] /\ fifo'[status] = fifo[status]
      BY <1>0, <1>d, <2>1, <2>3, TransferEffect DEF Shape
    <2>6. PacketInFlight'
      BY <2>1, <2>2, <2>5 DEF PacketInFlight
    <2> QED BY <2>2, <2>4, <2>6 DEF Shape
  <1>5. CASE stack_status
    <2>1. \E v : Transfer({meta}, To(status, v))
      BY <1>5 DEF stack_status
    <2>2. PICK v : Transfer({meta}, To(status, v))
      BY <2>1
    <2>3. UNCHANGED request /\ DOMAIN at' = Process
          /\ at'[consume] = at[consume] /\ at'[send] = at[send]
      <3>1. UNCHANGED request /\ (UNCHANGED at \/ \E x : at' = [at EXCEPT ![stack] = x])
        BY <1>5 DEF stack_status, SetAt
      <3> QED BY <3>1, Processes DEF Shape, AtShape
    <2>4. DOMAIN To(status, v) = {status}
      BY Puts, Zenon
    <2>5. FlowShape' /\ RxSame
      BY <1>0, <2>2, <2>3, <2>4, SendStreams
    <2>6. /\ Len(fifo[meta]) > 0 /\ Len(fifo[meta]) \in Nat
          /\ fifo[meta] = <<>> <=> Len(fifo[meta]) = 0
          /\ fifo'[meta] = <<>> <=> Len(fifo'[meta]) = 0
          /\ fifo[status] = <<>> <=> Len(fifo[status]) = 0
          /\ Len(fifo'[meta]) = Len(fifo[meta]) - 1
          /\ Len(fifo'[status]) = Len(fifo[status]) + 1
          /\ fifo'[out] = fifo[out]
      BY <1>0, <2>2, <2>4, TransferEffect DEF Shape
    <2>7. /\ l.phase = "status" /\ fifo[out] # <<>>
          /\ Len(fifo[meta]) <= 1 /\ fifo[status] = <<>>
      BY <2>6 DEF PacketInFlight
    <2>8. fifo'[meta] = <<>> /\ Len(fifo'[meta]) <= 1 /\ Len(fifo'[status]) <= 1
      BY <2>6, <2>7
    <2>9. PacketInFlight'
      BY <2>3, <2>6, <2>7, <2>8 DEF PacketInFlight
    <2>10. AtShape'
      BY <2>3 DEF Shape, AtShape
    <2> QED BY <2>5, <2>9, <2>10 DEF Shape
  <1> QED BY <1>1, <1>2, <1>3, <1>4, <1>5 DEF sendDataProtected

-----------------------------------------------------------------------------
(* The specification.                                                      *)

GlueInv == Shape /\ OneToken /\ PacketInFlight

LEMMA GlueInit == Init => GlueInv
  <1> SUFFICES ASSUME Init PROVE GlueInv
    OBVIOUS
  <1>1. /\ at = [p \in Process |-> Local(p)] /\ fifo = [c \in Stream |-> <<>>]
    BY DEF Init, FlowInit
  <1>2. /\ at[consume] = [started |-> FALSE, rxByteCnt |-> 0, length |-> 0]
        /\ at[send] = [phase |-> "first", sentByteCnt |-> 0, length |-> 0, todo |-> 0]
    <2>1. at[consume] = Local(consume) /\ at[send] = Local(send)
      BY <1>1, Processes
    <2>2. Local(consume) = [started |-> FALSE, rxByteCnt |-> 0, length |-> 0]
      BY Processes, Zenon DEF Local
    <2>3. Local(send) = [phase |-> "first", sentByteCnt |-> 0, length |-> 0, todo |-> 0]
      BY Processes, Zenon DEF Local
    <2> QED BY <2>1, <2>2, <2>3
  <1>3. IsSequence(<<>>) /\ Len(<<>>) = 0
    <2>1. <<>> \in Seq({})
      OBVIOUS
    <2> QED BY <2>1 DEF IsSequence
  <1>4. Shape
    <2>1. FlowShape
      BY <1>1, <1>3 DEF FlowShape
    <2>2. AtShape
      BY <1>1, <1>2 DEF AtShape
    <2> QED BY <2>1, <2>2 DEF Shape
  <1>5. \A c \in Watched : fifo[c] = <<>>
    BY <1>1, WatchedStreams
  <1>6. OneToken
    <2>1. fifo[s_consumeDataReady] = <<>> /\ fifo[nextRxPacketLength] = <<>>
      BY <1>5 DEF Watched, RxTokens
    <2>2. PassingOn = 0 /\ NotStarted = 1
      BY <1>2 DEF PassingOn, NotStarted
    <2>3. Tokens = 0 + 0 + 0 + 1
      BY <1>3, <2>1, <2>2 DEF Tokens
    <2> QED BY <2>3 DEF OneToken
  <1>7. PacketInFlight
    <2>1. fifo[m_axis_tcp_tx_meta] = <<>> /\ fifo[s_axis_tcp_tx_status] = <<>>
      BY <1>5 DEF Watched, TxTokens
    <2> QED BY <1>2, <2>1 DEF PacketInFlight
  <1> QED BY <1>4, <1>6, <1>7 DEF GlueInv

\* The invariant is inductive.
LEMMA GlueStep == GlueInv /\ [Next]_vars => GlueInv'
  <1> SUFFICES ASSUME GlueInv, [Next]_vars PROVE GlueInv'
    OBVIOUS
  <1> USE DEF GlueInv
  <1>1. CASE listen_port_handler \/ port_status_handler \/ openConnections
               \/ search_word \/ search_result \/ network_output_processing
    BY <1>1, KernelSteps, RxSameToken, TxSamePacket
  <1>2. CASE recvData_handshake \/ recvData_consumeData
    BY <1>2, ReceiveSteps, TxSamePacket
  <1>3. CASE stack_listen \/ stack_open \/ stack_zero \/ stack_read \/ stack_word \/ host_send
    BY <1>3, StackSteps, RxSameToken, TxSamePacket
  <1>4. CASE sendDataProtected \/ stack_status
    BY <1>4, SendSteps, RxSameToken
  <1>5. CASE UNCHANGED vars
    <2>1. UNCHANGED <<fifo, at, request>>
      BY <1>5 DEF vars, flowVars
    <2>2. Shape'
      BY <2>1 DEF Shape, FlowShape, AtShape
    <2>3. OneToken'
      BY <2>1 DEF OneToken, Tokens, PassingOn, NotStarted
    <2>4. PacketInFlight'
      BY <2>1 DEF PacketInFlight
    <2> QED BY <2>2, <2>3, <2>4
  <1> QED BY <1>1, <1>2, <1>3, <1>4, <1>5, Zenon DEF Next, Kernel, Stack

LEMMA GlueInvariant == Spec => []GlueInv
  <1>1. Init => GlueInv
    BY GlueInit
  <1>2. GlueInv /\ [Next]_vars => GlueInv'
    BY GlueStep
  <1> QED BY <1>1, <1>2, PTL DEF Spec

\* recvDataSafe asks for the next packet only when the words of the one before
\* have been passed on: its one token is in one place.
THEOREM OnePacket == Spec => []OnePacketAtATime
  <1>1. GlueInv => OnePacketAtATime
    <2> SUFFICES ASSUME GlueInv PROVE OnePacketAtATime
      OBVIOUS
    <2> DEFINE r == Len(fifo[s_consumeDataReady])
               n == Len(fifo[nextRxPacketLength])
    <2>1. r \in Nat /\ n \in Nat /\ PassingOn \in {0, 1} /\ NotStarted \in {0, 1}
      <3>1. IsSequence(fifo[s_consumeDataReady]) /\ IsSequence(fifo[nextRxPacketLength])
        BY WatchedStreams DEF GlueInv, Shape, FlowShape, Watched, RxTokens
      <3> QED BY <3>1, Sequences DEF PassingOn, NotStarted
    <2>2. request.safe => r + n + PassingOn + NotStarted <= 1
      BY DEF GlueInv, OneToken, Tokens
    <2> HIDE DEF r, n
    <2>3. ASSUME request.safe PROVE n + PassingOn <= 1
      <3>1. r + n + PassingOn + NotStarted <= 1
        BY <2>2, <2>3
      <3> QED BY <2>1, <3>1
    <2> QED BY <2>3 DEF OnePacketAtATime, PassingOn, n
  <1> QED BY <1>1, GlueInvariant, PTL

\* "only send out tx meta when data is ready": whenever a packet is announced or
\* its answer is on the way, its first word is at hand, after a refusal too.
THEOREM DataAtHand == Spec => []AnnouncedWithData
  <1>1. GlueInv => AnnouncedWithData
    BY DEF GlueInv, PacketInFlight, AnnouncedWithData
  <1> QED BY <1>1, GlueInvariant, PTL


-----------------------------------------------------------------------------
(* What each step does to the streams and the processes.                   *)

\* No two streams have the same name, and no two processes.
LEMMA Names ==
  /\ m_axis_tcp_listen_port[1] = "listen_port" /\ s_axis_tcp_port_status[1] = "port_status"
  /\ m_axis_tcp_open_connection[1] = "open_connection"
  /\ s_axis_tcp_open_status[1] = "open_status"
  /\ s_axis_tcp_notification[1] = "notification" /\ m_axis_tcp_read_pkg[1] = "read_pkg"
  /\ s_axis_tcp_rx_meta[1] = "rx_meta" /\ s_axis_tcp_rx_data[1] = "rx_data"
  /\ nextRxPacketLength[1] = "nextRxPacketLength"
  /\ s_consumeDataReady[1] = "s_consumeDataReady"
  /\ s_kernel_network_in[1] = "s_kernel_network_in"
  /\ s_batch_header(output)[1] = "s_batch_header"
  /\ s_output[1] = "s_output" /\ s_kernel_network_out[1] = "s_kernel_network_out"
  /\ m_axis_tcp_tx_meta[1] = "tx_meta" /\ m_axis_tcp_tx_data[1] = "tx_data"
  /\ s_axis_tcp_tx_status[1] = "tx_status"
BY DEF m_axis_tcp_listen_port, s_axis_tcp_port_status, m_axis_tcp_open_connection,
       s_axis_tcp_open_status, s_axis_tcp_notification, m_axis_tcp_read_pkg,
       s_axis_tcp_rx_meta, s_axis_tcp_rx_data, nextRxPacketLength, s_consumeDataReady,
       s_kernel_network_in, s_batch_header, s_output, s_kernel_network_out,
       m_axis_tcp_tx_meta, m_axis_tcp_tx_data, s_axis_tcp_tx_status

\* No two processes have the same name.
LEMMA ProcessNames ==
  /\ listen[1] = "listen" /\ open[1] = "open" /\ handshake[1] = "handshake"
  /\ consume[1] = "consume" /\ search[1] = "search" /\ output[1] = "output"
  /\ send[1] = "send" /\ stack[1] = "stack" /\ host[1] = "host"
BY DEF listen, open, handshake, consume, search, output, send, stack, host

\* A step takes the first value of stream a, and writes v to stream b.
Takes(a) == fifo[a] # <<>> /\ fifo'[a] = Tail(fifo[a])
Writes(b, v) == fifo'[b] = Append(fifo[b], v)
\* It touches no stream outside C.
Streams(C) == DOMAIN fifo' = Stream /\ \A c \in Stream \ C : fifo'[c] = fifo[c]
\* It is a step of process p, and p's variables become x.
Moves(p, x) == /\ DOMAIN at' = Process /\ at'[p] = x
               /\ \A q \in Process \ {p} : at'[q] = at[q]

\* What a transfer leaves in each stream.
LEMMA TransferExact ==
  ASSUME FlowShape, NEW takes, NEW puts, Transfer(takes, puts), NEW c \in Stream
  PROVE  /\ DOMAIN fifo' = Stream
         /\ c \in takes => fifo[c] # <<>>
         /\ c \notin takes /\ c \notin DOMAIN puts => fifo'[c] = fifo[c]
         /\ c \in takes /\ c \notin DOMAIN puts => fifo'[c] = Tail(fifo[c])
         /\ c \notin takes /\ c \in DOMAIN puts => fifo'[c] = Append(fifo[c], puts[c])
  <1> DEFINE rest == IF c \in takes THEN Tail(fifo[c]) ELSE fifo[c]
             new == IF c \in DOMAIN puts THEN <<puts[c]>> ELSE <<>>
  <1>1. DOMAIN fifo' = Stream /\ fifo'[c] = rest \o new
    BY DEF FlowShape, Transfer
  <1>2. IsSequence(fifo[c]) /\ (c \in takes => fifo[c] # <<>>)
    BY DEF FlowShape, Transfer
  <1>3. IsSequence(rest)
    BY <1>2, Sequences
  <1>4. rest \o <<>> = rest /\ rest \o <<puts[c]>> = Append(rest, puts[c])
    <2> HIDE DEF rest
    <2> QED BY <1>3, Sequences
  <1>5. fifo'[c] = IF c \in DOMAIN puts THEN Append(rest, puts[c]) ELSE rest
    <2> HIDE DEF rest
    <2>1. CASE c \in DOMAIN puts
      BY <1>1, <1>4, <2>1
    <2>2. CASE c \notin DOMAIN puts
      BY <1>1, <1>4, <2>2
    <2> QED BY <2>1, <2>2
  <1> QED BY <1>1, <1>2, <1>5

LEMMA Wrote == \A c, v : DOMAIN To(c, v) = {c} /\ To(c, v)[c] = v
BY DEF To, ToAll

\* One stream is read.
LEMMA Take ==
  ASSUME FlowShape, NEW a \in Stream, Transfer({a}, Nothing)
  PROVE  Takes(a) /\ Streams({a})
  <1>1. DOMAIN Nothing = {}
    BY Puts, Zenon
  <1>2. Takes(a)
    BY <1>1, TransferExact DEF Takes
  <1>3. DOMAIN fifo' = Stream
    BY TransferExact
  <1>4. ASSUME NEW c \in Stream \ {a} PROVE fifo'[c] = fifo[c]
    BY <1>1, TransferExact
  <1> QED BY <1>2, <1>3, <1>4 DEF Streams

\* One stream is written.
LEMMA Write ==
  ASSUME FlowShape, NEW b \in Stream, NEW v, Transfer({}, To(b, v))
  PROVE  Writes(b, v) /\ Streams({b})
  <1>1. DOMAIN To(b, v) = {b} /\ To(b, v)[b] = v
    BY Wrote, Zenon
  <1>2. fifo'[b] = Append(fifo[b], To(b, v)[b])
    BY <1>1, TransferExact
  <1>3. DOMAIN fifo' = Stream
    BY TransferExact
  <1>4. ASSUME NEW c \in Stream \ {b} PROVE fifo'[c] = fifo[c]
    BY <1>1, TransferExact
  <1> QED BY <1>1, <1>2, <1>3, <1>4 DEF Streams, Writes

\* One is read, another written.
LEMMA Move ==
  ASSUME FlowShape, NEW a \in Stream, NEW b \in Stream, a # b, NEW v,
         Transfer({a}, To(b, v))
  PROVE  Takes(a) /\ Writes(b, v) /\ Streams({a, b})
  <1>1. DOMAIN To(b, v) = {b} /\ To(b, v)[b] = v
    BY Wrote, Zenon
  <1>2. fifo'[b] = Append(fifo[b], To(b, v)[b])
    BY <1>1, TransferExact
  <1>3. DOMAIN fifo' = Stream /\ Takes(a)
    BY <1>1, TransferExact DEF Takes
  <1>4. ASSUME NEW c \in Stream \ {a, b} PROVE fifo'[c] = fifo[c]
    BY <1>1, TransferExact
  <1> QED BY <1>1, <1>2, <1>3, <1>4 DEF Streams, Writes

LEMMA Moved1 ==
  ASSUME DOMAIN at = Process, NEW p \in Process, NEW x, at' = [at EXCEPT ![p] = x]
  PROVE  Moves(p, x)
BY DEF Moves

\* Every name of a stream is one.
LEMMA AllStreams ==
  /\ {m_axis_tcp_listen_port, s_axis_tcp_port_status, m_axis_tcp_open_connection,
      s_axis_tcp_open_status, s_axis_tcp_notification, m_axis_tcp_read_pkg,
      s_axis_tcp_rx_meta, s_axis_tcp_rx_data} \subseteq Stream
  /\ {nextRxPacketLength, s_consumeDataReady, s_kernel_network_in,
      s_batch_header(output), s_output, s_kernel_network_out,
      m_axis_tcp_tx_meta, m_axis_tcp_tx_data, s_axis_tcp_tx_status} \subseteq Stream
BY DEF Stream

\* Every name of a process is one.
LEMMA AllProcesses ==
  /\ listen \in Process /\ open \in Process /\ handshake \in Process /\ consume \in Process
  /\ search \in Process /\ output \in Process /\ send \in Process /\ stack \in Process
  /\ host \in Process
BY DEF Process

\* What each step does to each stream and each process.
LEMMA HandshakeEffect ==
  ASSUME Shape, recvData_handshake
  PROVE  LET length == Head(fifo[s_axis_tcp_notification])
             C == {s_axis_tcp_notification, s_consumeDataReady,
                   m_axis_tcp_read_pkg, nextRxPacketLength}
         IN  /\ Takes(s_axis_tcp_notification) /\ Streams(C)
             /\ \/ Takes(s_consumeDataReady)
                \/ fifo'[s_consumeDataReady] = fifo[s_consumeDataReady]
             /\ IF length = 0
                THEN UNCHANGED <<fifo[m_axis_tcp_read_pkg], fifo[nextRxPacketLength]>>
                ELSE Writes(m_axis_tcp_read_pkg, length) /\ Writes(nextRxPacketLength, length)
             /\ Moves(handshake, [at[handshake] EXCEPT !.rxByteCnt = @ + length])
             /\ UNCHANGED <<left, request>>
  <1> DEFINE note == s_axis_tcp_notification
             ready == s_consumeDataReady
             pkg == m_axis_tcp_read_pkg
             next == nextRxPacketLength
             length == Head(fifo[note])
             takes == {note} \cup (IF request.safe THEN {ready} ELSE {})
             puts == IF length = 0 THEN Nothing ELSE To(pkg, length) ++ To(next, length)
  <1>1. /\ Transfer(takes, puts) /\ UNCHANGED <<left, request>>
        /\ at' = [at EXCEPT ![handshake].rxByteCnt = @ + length]
    BY DEF recvData_handshake, Continues
  <1>2. Moves(handshake, [at[handshake] EXCEPT !.rxByteCnt = @ + length])
    BY <1>1, AllProcesses DEF Moves, Shape, AtShape
  <1>3. /\ note \in Stream /\ ready \in Stream /\ pkg \in Stream /\ next \in Stream
        /\ note # ready /\ note # pkg /\ note # next /\ ready # pkg /\ ready # next /\ pkg # next
    BY AllStreams, Names
  <1>4. IF length = 0 THEN DOMAIN puts = {}
        ELSE DOMAIN puts = {pkg, next} /\ puts[pkg] = length /\ puts[next] = length
    <2>1. DOMAIN Nothing = {}
      BY Puts, Zenon
    <2>2. DOMAIN To(pkg, length) = {pkg} /\ DOMAIN To(next, length) = {next}
          /\ To(pkg, length)[pkg] = length /\ To(next, length)[next] = length
      BY Wrote, Zenon
    <2>3. /\ DOMAIN (To(pkg, length) ++ To(next, length)) = {pkg, next}
          /\ (To(pkg, length) ++ To(next, length))[pkg] = length
          /\ (To(pkg, length) ++ To(next, length))[next] = length
      BY <1>3, <2>2 DEF ++
    <2> QED BY <2>1, <2>3
  <1>5. /\ note \in takes /\ pkg \notin takes /\ next \notin takes
        /\ takes \subseteq {note, ready}
        /\ note \notin DOMAIN puts /\ ready \notin DOMAIN puts
        /\ DOMAIN puts \subseteq {pkg, next}
    BY <1>3, <1>4
  <1> HIDE DEF takes, puts, length
  <1>6. FlowShape
    BY DEF Shape
  <1>7. Takes(note)
    BY <1>1, <1>3, <1>5, <1>6, TransferExact DEF Takes
  <1>8. Takes(ready) \/ fifo'[ready] = fifo[ready]
    BY <1>1, <1>3, <1>5, <1>6, TransferExact DEF Takes
  <1>9. IF length = 0 THEN UNCHANGED <<fifo[pkg], fifo[next]>>
        ELSE Writes(pkg, length) /\ Writes(next, length)
    BY <1>1, <1>3, <1>4, <1>5, <1>6, TransferExact DEF Writes
  <1>10. Streams({note, ready, pkg, next})
    <2>1. DOMAIN fifo' = Stream
      BY <1>1, <1>3, <1>6, TransferExact
    <2>2. ASSUME NEW c \in Stream \ {note, ready, pkg, next} PROVE fifo'[c] = fifo[c]
      <3>1. c \notin takes /\ c \notin DOMAIN puts
        BY <1>5
      <3> QED BY <1>1, <1>6, <3>1, TransferExact
    <2> QED BY <2>1, <2>2 DEF Streams
  <1> QED BY <1>1, <1>2, <1>7, <1>8, <1>9, <1>10 DEF length

LEMMA ConsumeWordEffect ==
  ASSUME Shape, consume_word
  PROVE  LET l == at[consume]
             word == Head(fifo[s_axis_tcp_rx_data])
         IN  /\ Takes(s_axis_tcp_rx_data) /\ Writes(s_kernel_network_in, word.data)
             /\ Streams({s_axis_tcp_rx_data, s_kernel_network_in, s_consumeDataReady})
             /\ \/ Writes(s_consumeDataReady, 1)
                \/ fifo'[s_consumeDataReady] = fifo[s_consumeDataReady]
             /\ Moves(consume, IF word.last
                               THEN [l EXCEPT !.rxByteCnt = l.rxByteCnt + l.length, !.length = 0]
                               ELSE l)
             /\ UNCHANGED <<left, request>>
  <1> DEFINE l == at[consume]
             data == s_axis_tcp_rx_data
             in == s_kernel_network_in
             ready == s_consumeDataReady
             word == Head(fifo[data])
             announce == request.safe /\ word.last /\ l.rxByteCnt + l.length < expectedRxByteCnt
             x == IF word.last THEN [l EXCEPT !.rxByteCnt = l.rxByteCnt + l.length, !.length = 0]
                  ELSE l
             puts == To(in, word.data) ++ (IF announce THEN To(ready, 1) ELSE Nothing)
  <1>1. /\ Transfer({data}, puts) /\ UNCHANGED <<left, request>>
        /\ at' = [at EXCEPT ![consume] = x]
    BY DEF consume_word, SetAt, Continues
  <1>2. Moves(consume, x)
    <2> HIDE DEF x
    <2> QED BY <1>1, AllProcesses, Moved1 DEF Shape, AtShape
  <1>3. /\ data \in Stream /\ in \in Stream /\ ready \in Stream
        /\ data # in /\ data # ready /\ in # ready
    BY AllStreams, Names
  <1>4. /\ puts[in] = word.data
        /\ \/ DOMAIN puts = {in}
           \/ DOMAIN puts = {in, ready} /\ puts[ready] = 1
    <2> DEFINE f == To(in, word.data)
    <2>1. DOMAIN Nothing = {}
      BY Puts, Zenon
    <2>2. /\ DOMAIN f = {in} /\ f[in] = word.data
          /\ DOMAIN To(ready, 1) = {ready} /\ To(ready, 1)[ready] = 1
      BY Wrote, Zenon
    <2> HIDE DEF f
    <2>3. DOMAIN (f ++ Nothing) = {in} /\ (f ++ Nothing)[in] = word.data
      BY <2>1, <2>2 DEF ++
    <2>4. /\ DOMAIN (f ++ To(ready, 1)) = {in, ready} /\ (f ++ To(ready, 1))[in] = word.data
          /\ (f ++ To(ready, 1))[ready] = 1
      BY <1>3, <2>2 DEF ++
    <2>5. puts = f ++ Nothing \/ puts = f ++ To(ready, 1)
      BY DEF f
    <2> HIDE DEF puts
    <2> QED BY <2>3, <2>4, <2>5
  <1> HIDE DEF puts, word, x
  <1>6. FlowShape
    BY DEF Shape
  <1>5. data \notin DOMAIN puts /\ in \in DOMAIN puts
    BY <1>3, <1>4
  <1>7. Takes(data) /\ Writes(in, word.data)
    BY <1>1, <1>3, <1>4, <1>5, <1>6, TransferExact DEF Takes, Writes
  <1>8. Writes(ready, 1) \/ fifo'[ready] = fifo[ready]
    <2>1. CASE ready \in DOMAIN puts
      <3>1. puts[ready] = 1
        BY <1>3, <1>4, <2>1
      <3> QED BY <1>1, <1>3, <1>6, <2>1, <3>1, TransferExact DEF Writes
    <2>2. CASE ready \notin DOMAIN puts
      BY <1>1, <1>3, <1>6, <2>2, TransferExact
    <2> QED BY <2>1, <2>2
  <1>9. Streams({data, in, ready})
    <2>1. DOMAIN fifo' = Stream
      BY <1>1, <1>3, <1>6, TransferExact
    <2>2. ASSUME NEW c \in Stream \ {data, in, ready} PROVE fifo'[c] = fifo[c]
      <3>1. c \notin {data} /\ c \notin DOMAIN puts
        BY <1>4
      <3> QED BY <1>1, <1>6, <3>1, TransferExact
    <2> QED BY <2>1, <2>2 DEF Streams
  <1> QED BY <1>1, <1>2, <1>7, <1>8, <1>9 DEF word, x

LEMMA ConsumeMetaEffect ==
  ASSUME Shape, consume_meta
  PROVE  /\ Takes(s_axis_tcp_rx_meta) /\ Takes(nextRxPacketLength)
         /\ Streams({s_axis_tcp_rx_meta, nextRxPacketLength})
         /\ Moves(consume, [at[consume] EXCEPT !.length = Head(fifo[nextRxPacketLength])])
         /\ UNCHANGED <<left, request>>
  <1> DEFINE meta == s_axis_tcp_rx_meta
             next == nextRxPacketLength
             x == [at[consume] EXCEPT !.length = Head(fifo[next])]
  <1>1. /\ Transfer({meta, next}, Nothing) /\ UNCHANGED <<left, request>>
        /\ at' = [at EXCEPT ![consume] = x]
    BY DEF consume_meta, SetAt, Continues
  <1>2. Moves(consume, x)
    <2> HIDE DEF x
    <2> QED BY <1>1, AllProcesses, Moved1 DEF Shape, AtShape
  <1>3. meta \in Stream /\ next \in Stream /\ FlowShape
    BY AllStreams DEF Shape
  <1>4. DOMAIN Nothing = {}
    BY Puts, Zenon
  <1>5. Takes(meta) /\ Takes(next) /\ DOMAIN fifo' = Stream
    BY <1>1, <1>3, <1>4, TransferExact DEF Takes
  <1>6. ASSUME NEW c \in Stream \ {meta, next} PROVE fifo'[c] = fifo[c]
    BY <1>1, <1>3, <1>4, TransferExact
  <1> QED BY <1>1, <1>2, <1>5, <1>6 DEF Streams

LEMMA SearchWordEffect ==
  ASSUME Shape, search_word
  PROVE  LET l == at[search]
             words == Append(l.words, Head(fifo[s_kernel_network_in]))
             full == Len(words) = QUERY_WORDS
             header == s_batch_header(output)
         IN  /\ l.left = 0 /\ Takes(s_kernel_network_in)
             /\ Streams({s_kernel_network_in, header})
             /\ IF full THEN Writes(header, Header(1, 1)) ELSE fifo'[header] = fifo[header]
             /\ Moves(search, IF full THEN [words |-> <<>>, query |-> l.query + 1, left |-> TOPK]
                              ELSE [l EXCEPT !.words = words])
             /\ UNCHANGED <<left, request>>
  <1> DEFINE l == at[search]
             in == s_kernel_network_in
             words == Append(l.words, Head(fifo[in]))
             full == Len(words) = QUERY_WORDS
             header == s_batch_header(output)
             x == IF full THEN [words |-> <<>>, query |-> l.query + 1, left |-> TOPK]
                  ELSE [l EXCEPT !.words = words]
  <1>1. /\ l.left = 0 /\ UNCHANGED <<left, request>> /\ at' = [at EXCEPT ![search] = x]
        /\ IF full THEN Transfer({in}, To(header, Header(1, 1))) ELSE Transfer({in}, Nothing)
    BY DEF search_word, SetAt, Continues
  <1>2. in \in Stream /\ header \in Stream /\ in # header /\ FlowShape
    BY AllStreams, Names DEF Shape
  <1>3. Moves(search, x)
    <2> HIDE DEF x
    <2> QED BY <1>1, AllProcesses, Moved1 DEF Shape, AtShape
  <1> HIDE DEF full, x
  <1>4. CASE full
    <2>1. Takes(in) /\ Writes(header, Header(1, 1)) /\ Streams({in, header})
      BY <1>1, <1>2, <1>4, Move
    <2> QED BY <1>1, <1>3, <1>4, <2>1 DEF full, x
  <1>5. CASE ~ full
    <2>1. Takes(in) /\ Streams({in})
      BY <1>1, <1>2, <1>5, Take
    <2>2. Streams({in, header}) /\ fifo'[header] = fifo[header]
      BY <1>2, <2>1 DEF Streams
    <2> QED BY <1>1, <1>3, <1>5, <2>1, <2>2 DEF full, x
  <1> QED BY <1>4, <1>5

LEMMA SearchResultEffect ==
  ASSUME Shape, search_result
  PROVE  LET l == at[search]
         IN  /\ l.left > 0 /\ Streams({s_output})
             /\ Writes(s_output, Result(l.query, TOPK + 1 - l.left))
             /\ Moves(search, [l EXCEPT !.left = @ - 1])
             /\ UNCHANGED <<left, request>>
  <1> DEFINE l == at[search]
             v == Result(l.query, TOPK + 1 - l.left)
             x == [l EXCEPT !.left = @ - 1]
  <1>1. /\ l.left > 0 /\ UNCHANGED <<left, request>> /\ at' = [at EXCEPT ![search] = x]
        /\ Transfer({}, To(s_output, v))
    BY DEF search_result, SetAt, Continues
  <1> HIDE DEF v, x
  <1>2. Moves(search, x)
    BY <1>1, AllProcesses, Moved1 DEF Shape, AtShape
  <1>3. Writes(s_output, v) /\ Streams({s_output})
    BY <1>1, AllStreams, Write DEF Shape
  <1> QED BY <1>1, <1>2, <1>3 DEF v, x

LEMMA HeaderEffect ==
  ASSUME Shape, read_header(output)
  PROVE  LET header == s_batch_header(output)
             h == Head(fifo[header])
         IN  /\ left[output] = 0 /\ Takes(header) /\ Streams({header})
             /\ IF h.terminate THEN UNCHANGED left
                ELSE left' = [left EXCEPT ![output] = h.batch_size]
  <1> DEFINE header == s_batch_header(output)
  <1>1. Transfer({header}, Nothing)
    BY DEF read_header
  <1>2. Takes(header) /\ Streams({header})
    BY <1>1, AllStreams, Take DEF Shape
  <1> QED BY <1>2 DEF read_header

LEMMA OutputResultEffect ==
  ASSUME Shape, output_result
  PROVE  LET l == at[output]
             results == Append(l.results, Head(fifo[s_output]))
         IN  /\ left[output] > 0 /\ l.phase = "results"
             /\ Takes(s_output) /\ Streams({s_output})
             /\ Moves(output, [l EXCEPT !.results = results,
                  !.phase = IF Len(results) = TOPK THEN "words" ELSE "results"])
             /\ UNCHANGED <<left, request>>
  <1> DEFINE l == at[output]
             results == Append(l.results, Head(fifo[s_output]))
             x == [l EXCEPT !.results = results,
                            !.phase = IF Len(results) = TOPK THEN "words" ELSE "results"]
  <1>1. /\ left[output] > 0 /\ l.phase = "results" /\ UNCHANGED <<left, request>>
        /\ at' = [at EXCEPT ![output] = x] /\ Transfer({s_output}, Nothing)
    BY DEF output_result, SetAt, Continues
  <1>2. Moves(output, x)
    <2> HIDE DEF x
    <2> QED BY <1>1, AllProcesses, Moved1 DEF Shape, AtShape
  <1>3. Takes(s_output) /\ Streams({s_output})
    BY <1>1, AllStreams, Take DEF Shape
  <1> QED BY <1>1, <1>2, <1>3

LEMMA OutputWordEffect ==
  ASSUME Shape, output_word
  PROVE  LET l == at[output]
             last == l.word = ANSWER_WORDS
             out == s_kernel_network_out
         IN  /\ left[output] > 0 /\ l.phase = IF l.word = 1 THEN "idle" ELSE "words"
             /\ Writes(out, AnswerWord(l.results, l.word)) /\ Streams({out})
             /\ Moves(output, IF last THEN Local(output)
                              ELSE [l EXCEPT !.word = @ + 1,
                                     !.phase = IF l.word = 1 THEN "results" ELSE "words"])
             /\ left' = IF last THEN [left EXCEPT ![output] = @ - 1] ELSE left
             /\ UNCHANGED request
  <1> DEFINE l == at[output]
             last == l.word = ANSWER_WORDS
             out == s_kernel_network_out
             v == AnswerWord(l.results, l.word)
             x == IF last THEN Local(output)
                  ELSE [l EXCEPT !.word = @ + 1,
                                 !.phase = IF l.word = 1 THEN "results" ELSE "words"]
  <1>1. /\ left[output] > 0 /\ l.phase = (IF l.word = 1 THEN "idle" ELSE "words")
        /\ at' = [at EXCEPT ![output] = x] /\ Transfer({}, To(out, v))
        /\ left' = (IF last THEN [left EXCEPT ![output] = @ - 1] ELSE left)
        /\ UNCHANGED request
    BY DEF output_word, SetAt, Finish, QueryDone, Continues
  <1>2. Moves(output, x)
    <2> HIDE DEF x
    <2> QED BY <1>1, AllProcesses, Moved1 DEF Shape, AtShape
  <1>3. Writes(out, v) /\ Streams({out})
    <2> HIDE DEF v
    <2> QED BY <1>1, AllStreams, Write DEF Shape
  <1> QED BY <1>1, <1>2, <1>3

LEMMA AnnounceEffect ==
  ASSUME Shape, send_first \/ send_next
  PROVE  LET l == at[send]
         IN  \E length :
               /\ \/ l.phase = "first" /\ length = pkgLength
                  \/ l.phase = "next" /\ length = NextLength(l.sentByteCnt)
               /\ Writes(m_axis_tcp_tx_meta, Announce(length)) /\ Streams({m_axis_tcp_tx_meta})
               /\ Moves(send, [l EXCEPT !.phase = "status"])
               /\ UNCHANGED <<left, request>>
  <1> DEFINE l == at[send]
             meta == m_axis_tcp_tx_meta
             x == [l EXCEPT !.phase = "status"]
  <1>1. PICK length :
          /\ \/ l.phase = "first" /\ length = pkgLength
             \/ l.phase = "next" /\ length = NextLength(l.sentByteCnt)
          /\ Transfer({}, To(meta, Announce(length)))
          /\ at' = [at EXCEPT ![send] = x] /\ UNCHANGED <<left, request>>
    <2>1. CASE send_first
      BY <2>1 DEF send_first, SetAt, Continues
    <2>2. CASE send_next
      BY <2>2 DEF send_next, SetAt, Continues
    <2> QED BY <2>1, <2>2
  <1>2. Moves(send, x)
    <2> HIDE DEF x
    <2> QED BY <1>1, AllProcesses, Moved1 DEF Shape, AtShape
  <1> DEFINE v == Announce(length)
  <1>3. Writes(meta, v) /\ Streams({meta})
    <2>1. Transfer({}, To(meta, v))
      BY <1>1
    <2> HIDE DEF v
    <2> QED BY <2>1, AllStreams, Write DEF Shape
  <1> QED BY <1>1, <1>2, <1>3

LEMMA StatusEffect ==
  ASSUME Shape, send_status
  PROVE  LET l == at[send]
             resp == Head(fifo[s_axis_tcp_tx_status])
             C == {s_axis_tcp_tx_status, m_axis_tcp_tx_meta}
         IN  /\ l.phase = "status" /\ Takes(s_axis_tcp_tx_status) /\ Streams(C)
             /\ IF resp.error \in {0, 1} THEN fifo'[m_axis_tcp_tx_meta] = fifo[m_axis_tcp_tx_meta]
                ELSE Writes(m_axis_tcp_tx_meta,
                            [sessionID |-> resp.sessionID, length |-> resp.length])
             /\ Moves(send, IF resp.error = 0
                            THEN [l EXCEPT !.phase = "data", !.length = resp.length,
                                           !.todo = resp.length \div WORD]
                            ELSE l)
             /\ UNCHANGED <<left, request>>
  <1> DEFINE l == at[send]
             status == s_axis_tcp_tx_status
             meta == m_axis_tcp_tx_meta
             resp == Head(fifo[status])
             v == [sessionID |-> resp.sessionID, length |-> resp.length]
             x == IF resp.error = 0
                  THEN [l EXCEPT !.phase = "data", !.length = resp.length,
                                 !.todo = resp.length \div WORD]
                  ELSE l
             still == resp.error \in {0, 1}
  <1>1. /\ l.phase = "status" /\ UNCHANGED <<left, request>> /\ at' = [at EXCEPT ![send] = x]
        /\ IF still THEN Transfer({status}, Nothing) ELSE Transfer({status}, To(meta, v))
    BY DEF send_status, SetAt, Continues
  <1>2. meta \in Stream /\ status \in Stream /\ meta # status /\ FlowShape
    BY AllStreams, Names DEF Shape
  <1>3. Moves(send, x)
    <2> HIDE DEF x
    <2> QED BY <1>1, AllProcesses, Moved1 DEF Shape, AtShape
  <1> HIDE DEF still, x, v
  <1>4. CASE still
    <2>1. Takes(status) /\ Streams({status})
      BY <1>1, <1>2, <1>4, Take
    <2>2. Streams({status, meta}) /\ fifo'[meta] = fifo[meta]
      BY <1>2, <2>1 DEF Streams
    <2> QED BY <1>1, <1>3, <1>4, <2>1, <2>2 DEF still, x
  <1>5. CASE ~ still
    <2>1. Takes(status) /\ Writes(meta, v) /\ Streams({status, meta})
      BY <1>1, <1>2, <1>5, Move
    <2> QED BY <1>1, <1>3, <1>5, <2>1 DEF still, x, v
  <1> QED BY <1>4, <1>5

LEMMA SendWordEffect ==
  ASSUME Shape, send_word
  PROVE  LET l == at[send]
             sent == l.sentByteCnt + l.length
             full == l.todo = 1
             out == s_kernel_network_out
             word == [data |-> Head(fifo[out]), last |-> is_last(l.todo)]
         IN  /\ l.phase = "data" /\ Takes(out) /\ Writes(m_axis_tcp_tx_data, word)
             /\ Streams({out, m_axis_tcp_tx_data})
             /\ Moves(send, IF full
                  THEN [l EXCEPT !.phase = IF sent < expectedTxByteCnt THEN "next" ELSE "done",
                                 !.sentByteCnt = sent, !.todo = 0]
                  ELSE [l EXCEPT !.todo = @ - 1])
             /\ UNCHANGED <<left, request>>
  <1> DEFINE l == at[send]
             sent == l.sentByteCnt + l.length
             full == l.todo = 1
             out == s_kernel_network_out
             data == m_axis_tcp_tx_data
             word == [data |-> Head(fifo[out]), last |-> is_last(l.todo)]
             x == IF full
                  THEN [l EXCEPT !.phase = IF sent < expectedTxByteCnt THEN "next" ELSE "done",
                                 !.sentByteCnt = sent, !.todo = 0]
                  ELSE [l EXCEPT !.todo = @ - 1]
  <1>1. /\ l.phase = "data" /\ UNCHANGED <<left, request>> /\ at' = [at EXCEPT ![send] = x]
        /\ Transfer({out}, To(data, word))
    BY DEF send_word
  <1>2. out \in Stream /\ data \in Stream /\ out # data /\ FlowShape
    BY AllStreams, Names DEF Shape
  <1>3. Moves(send, x)
    <2> HIDE DEF x
    <2> QED BY <1>1, AllProcesses, Moved1 DEF Shape, AtShape
  <1>4. Takes(out) /\ Writes(data, word) /\ Streams({out, data})
    <2> HIDE DEF word
    <2> QED BY <1>1, <1>2, Move
  <1> QED BY <1>1, <1>3, <1>4

LEMMA StackReadEffect ==
  ASSUME Shape, stack_read
  PROVE  LET l == at[stack]
             n == Head(fifo[m_axis_tcp_read_pkg])
         IN  /\ l.packet = <<>> /\ Takes(m_axis_tcp_read_pkg) /\ Writes(s_axis_tcp_rx_meta, 0)
             /\ Streams({m_axis_tcp_read_pkg, s_axis_tcp_rx_meta})
             /\ Moves(stack, [l EXCEPT !.packet = Chunks(SubSeq(l.buffer, 1, n), WORD),
                                       !.buffer = SubSeq(@, n + 1, Len(@))])
             /\ UNCHANGED <<left, request>>
  <1> DEFINE l == at[stack]
             pkg == m_axis_tcp_read_pkg
             meta == s_axis_tcp_rx_meta
             n == Head(fifo[pkg])
             x == [l EXCEPT !.packet = Chunks(SubSeq(l.buffer, 1, n), WORD),
                            !.buffer = SubSeq(@, n + 1, Len(@))]
  <1>1. /\ l.packet = <<>> /\ UNCHANGED <<left, request>> /\ at' = [at EXCEPT ![stack] = x]
        /\ Transfer({pkg}, To(meta, 0))
    BY DEF stack_read, SetAt, Continues
  <1>2. Moves(stack, x)
    <2> HIDE DEF x
    <2> QED BY <1>1, AllProcesses, Moved1 DEF Shape, AtShape
  <1>3. Takes(pkg) /\ Writes(meta, 0) /\ Streams({pkg, meta})
    BY <1>1, AllStreams, Names, Move DEF Shape
  <1> QED BY <1>1, <1>2, <1>3

LEMMA StackWordEffect ==
  ASSUME Shape, stack_word
  PROVE  LET l == at[stack]
         IN  /\ l.packet # <<>> /\ Streams({s_axis_tcp_rx_data})
             /\ Writes(s_axis_tcp_rx_data, [data |-> Head(l.packet), last |-> Len(l.packet) = 1])
             /\ Moves(stack, [l EXCEPT !.packet = Tail(@)])
             /\ UNCHANGED <<left, request>>
  <1> DEFINE l == at[stack]
             v == [data |-> Head(l.packet), last |-> Len(l.packet) = 1]
             x == [l EXCEPT !.packet = Tail(@)]
  <1>1. /\ l.packet # <<>> /\ UNCHANGED <<left, request>> /\ at' = [at EXCEPT ![stack] = x]
        /\ Transfer({}, To(s_axis_tcp_rx_data, v))
    BY DEF stack_word, SetAt, Continues
  <1> HIDE DEF v, x
  <1>2. Moves(stack, x)
    BY <1>1, AllProcesses, Moved1 DEF Shape, AtShape
  <1>3. Writes(s_axis_tcp_rx_data, v) /\ Streams({s_axis_tcp_rx_data})
    BY <1>1, AllStreams, Write DEF Shape
  <1> QED BY <1>1, <1>2, <1>3 DEF v, x

LEMMA StackStatusEffect ==
  ASSUME Shape, stack_status
  PROVE  LET l == at[stack]
             m == Head(fifo[m_axis_tcp_tx_meta])
             Reply(error) == [sessionID |-> m.sessionID, length |-> m.length, error |-> error]
         IN  /\ Takes(m_axis_tcp_tx_meta) /\ Streams({m_axis_tcp_tx_meta, s_axis_tcp_tx_status})
             /\ \/ Writes(s_axis_tcp_tx_status, Reply(0))
                   /\ Moves(stack, [l EXCEPT !.accepted = Append(@, m.length)])
                \/ Writes(s_axis_tcp_tx_status, Reply(1)) /\ UNCHANGED at
                \/ Writes(s_axis_tcp_tx_status, Reply(2))
                   /\ Moves(stack, [l EXCEPT !.retries = @ + 1])
             /\ UNCHANGED <<left, request>>
  <1> DEFINE l == at[stack]
             meta == m_axis_tcp_tx_meta
             status == s_axis_tcp_tx_status
             m == Head(fifo[meta])
             Reply(error) == [sessionID |-> m.sessionID, length |-> m.length, error |-> error]
             x == [l EXCEPT !.accepted = Append(@, m.length)]
             y == [l EXCEPT !.retries = @ + 1]
             v0 == Reply(0)
             v1 == Reply(1)
             v2 == Reply(2)
  <1>1. /\ UNCHANGED <<left, request>>
        /\ \/ Transfer({meta}, To(status, v0)) /\ at' = [at EXCEPT ![stack] = x]
           \/ Transfer({meta}, To(status, v1)) /\ UNCHANGED at
           \/ Transfer({meta}, To(status, v2)) /\ at' = [at EXCEPT ![stack] = y]
    BY DEF stack_status, SetAt, Continues
  <1>2. meta \in Stream /\ status \in Stream /\ meta # status /\ FlowShape
        /\ stack \in Process /\ DOMAIN at = Process
    BY AllStreams, AllProcesses, Names DEF Shape, AtShape
  <1> HIDE DEF x, y, v0, v1, v2
  <1>3. CASE Transfer({meta}, To(status, v0)) /\ at' = [at EXCEPT ![stack] = x]
    <2>1. Takes(meta) /\ Writes(status, v0) /\ Streams({meta, status}) /\ Moves(stack, x)
      BY <1>2, <1>3, Move, Moved1
    <2> QED BY <1>1, <2>1 DEF v0, x
  <1>4. CASE Transfer({meta}, To(status, v1)) /\ UNCHANGED at
    <2>1. Takes(meta) /\ Writes(status, v1) /\ Streams({meta, status})
      BY <1>2, <1>4, Move
    <2> QED BY <1>1, <1>4, <2>1 DEF v1
  <1>5. CASE Transfer({meta}, To(status, v2)) /\ at' = [at EXCEPT ![stack] = y]
    <2>1. Takes(meta) /\ Writes(status, v2) /\ Streams({meta, status}) /\ Moves(stack, y)
      BY <1>2, <1>5, Move, Moved1
    <2> QED BY <1>1, <2>1 DEF v2, y
  <1> QED BY <1>1, <1>3, <1>4, <1>5

LEMMA HostEffect ==
  ASSUME Shape, host_send
  PROVE  LET l == at[host]
             before == SumTo(request.segments, l.segment - 1)
             n == request.segments[l.segment]
             last == l.segment = Len(request.segments)
         IN  /\ l.query <= request.queries
             /\ Writes(s_axis_tcp_notification, n) /\ Streams({s_axis_tcp_notification})
             /\ DOMAIN at' = Process
             /\ at'[stack] = [at[stack] EXCEPT !.buffer =
                  @ \o SubSeq(QueryUnits(l.query), before + 1, before + n)]
             /\ at'[host] = IF last THEN [query |-> l.query + 1, segment |-> 1]
                            ELSE [l EXCEPT !.segment = @ + 1]
             /\ \A q \in Process \ {stack, host} : at'[q] = at[q]
             /\ UNCHANGED <<left, request>>
  <1> DEFINE l == at[host]
             before == SumTo(request.segments, l.segment - 1)
             n == request.segments[l.segment]
             last == l.segment = Len(request.segments)
             new == SubSeq(QueryUnits(l.query), before + 1, before + n)
             x == [at[stack] EXCEPT !.buffer = @ \o new]
             y == IF last THEN [query |-> l.query + 1, segment |-> 1]
                  ELSE [l EXCEPT !.segment = @ + 1]
  <1>1. /\ l.query <= request.queries /\ UNCHANGED <<left, request>>
        /\ Transfer({}, To(s_axis_tcp_notification, n))
    BY DEF host_send, Continues
  <1>2. at' = [at EXCEPT ![stack].buffer = @ \o new, ![host] = y]
    BY DEF host_send
  <1>3. DOMAIN at = Process /\ stack \in Process /\ host \in Process /\ stack # host
    BY AllProcesses, ProcessNames DEF Shape, AtShape
  <1>4. /\ DOMAIN at' = Process /\ at'[stack] = x /\ at'[host] = y
        /\ \A q \in Process \ {stack, host} : at'[q] = at[q]
    <2> HIDE DEF y, new
    <2> QED BY <1>2, <1>3
  <1>5. Writes(s_axis_tcp_notification, n) /\ Streams({s_axis_tcp_notification})
    <2> HIDE DEF n
    <2> QED BY <1>1, AllStreams, Write DEF Shape
  <1> QED BY <1>1, <1>4, <1>5


-----------------------------------------------------------------------------
(* Sums.                                                                   *)

\* f holds the sums of the first elements of s, up to n of them.
Sums(s, n, f) == f = [k \in 0 .. n |-> IF k = 0 THEN 0 ELSE f[k - 1] + s[k]]

\* SumTo is a recursive function: it exists, by induction on its domain.
LEMMA SumsExist ==
  ASSUME NEW s, NEW n \in Nat
  PROVE  \E f : Sums(s, n, f) /\ SumTo(s, n) = f[n]
  <1> DEFINE S == {m \in Nat : \E f : Sums(s, m, f)}
  <1>1. 0 \in S
    <2> DEFINE f == [k \in 0 .. 0 |-> 0]
    <2>1. Sums(s, 0, f)
      BY DEF Sums
    <2> QED BY <2>1
  <1>2. ASSUME NEW m \in S PROVE m + 1 \in S
    <2>1. PICK f : Sums(s, m, f)
      OBVIOUS
    <2> DEFINE g == [k \in 0 .. m + 1 |-> IF k <= m THEN f[k] ELSE f[m] + s[m + 1]]
    <2>2. ASSUME NEW k \in 0 .. m + 1 PROVE g[k] = IF k = 0 THEN 0 ELSE g[k - 1] + s[k]
      <3>1. CASE k = 0
        BY <2>1, <3>1 DEF Sums
      <3>2. CASE k \in 1 .. m
        <4>1. f[k] = f[k - 1] + s[k]
          BY <2>1, <3>2 DEF Sums
        <4> QED BY <3>2, <4>1
      <3>3. CASE k = m + 1
        BY <3>3
      <3> QED BY <3>1, <3>2, <3>3
    <2>3. Sums(s, m + 1, g)
      BY <2>2 DEF Sums
    <2> HIDE DEF g
    <2> QED BY <2>3
  <1>3. n \in S
    <2>1. S \in SUBSET Nat
      OBVIOUS
    <2> HIDE DEF S
    <2> QED BY <1>1, <1>2, <2>1, Induction
  <1> DEFINE h == CHOOSE f : Sums(s, n, f)
  <1>4. Sums(s, n, h)
    BY <1>3
  <1>5. SumTo(s, n) = h[n]
    BY DEF SumTo, Sums
  <1> HIDE DEF h
  <1> QED BY <1>4, <1>5

\* Its value does not depend on how far it is computed.
LEMMA SumsAgree ==
  ASSUME NEW s, NEW t, NEW m \in Nat, NEW n \in Nat, NEW f, NEW g,
         Sums(s, m, f), Sums(t, n, g), NEW i \in Nat, i <= m, i <= n,
         \A j \in 1 .. i : s[j] = t[j]
  PROVE  f[i] = g[i]
  <1> DEFINE S == {k \in Nat : k <= i => f[k] = g[k]}
  <1>1. 0 \in S
    BY DEF Sums
  <1>2. ASSUME NEW k \in S PROVE k + 1 \in S
    <2> SUFFICES ASSUME k + 1 <= i PROVE f[k + 1] = g[k + 1]
      OBVIOUS
    <2>1. f[k] = g[k] /\ s[k + 1] = t[k + 1]
      OBVIOUS
    <2>2. f[k + 1] = f[k] + s[k + 1]
      BY DEF Sums
    <2>3. g[k + 1] = g[k] + t[k + 1]
      BY DEF Sums
    <2> QED BY <2>1, <2>2, <2>3
  <1>3. i \in S
    <2>1. S \in SUBSET Nat
      OBVIOUS
    <2> HIDE DEF S
    <2> QED BY <1>1, <1>2, <2>1, Induction
  <1> QED BY <1>3

\* The sum of the first elements depends on those alone.
LEMMA SumSame ==
  ASSUME NEW s, NEW t, NEW n \in Nat, \A j \in 1 .. n : s[j] = t[j]
  PROVE  SumTo(s, n) = SumTo(t, n)
  <1>1. PICK f : Sums(s, n, f) /\ SumTo(s, n) = f[n]
    BY SumsExist
  <1>2. PICK g : Sums(t, n, g) /\ SumTo(t, n) = g[n]
    BY SumsExist
  <1> QED BY <1>1, <1>2, SumsAgree

\* One element after the other.
LEMMA SumStep ==
  ASSUME NEW s
  PROVE  SumTo(s, 0) = 0 /\ \A n \in Nat : SumTo(s, n + 1) = SumTo(s, n) + s[n + 1]
  <1>1. SumTo(s, 0) = 0
    <2>1. PICK f : Sums(s, 0, f) /\ SumTo(s, 0) = f[0]
      BY SumsExist
    <2> QED BY <2>1 DEF Sums
  <1>2. ASSUME NEW n \in Nat PROVE SumTo(s, n + 1) = SumTo(s, n) + s[n + 1]
    <2>1. PICK f : Sums(s, n + 1, f) /\ SumTo(s, n + 1) = f[n + 1]
      BY SumsExist
    <2>2. PICK g : Sums(s, n, g) /\ SumTo(s, n) = g[n]
      BY SumsExist
    <2>3. f[n] = g[n]
      BY <2>1, <2>2, SumsAgree
    <2>4. f[n + 1] = f[n] + s[n + 1]
      BY <2>1 DEF Sums
    <2> QED BY <2>1, <2>2, <2>3, <2>4
  <1> QED BY <1>1, <1>2

\* Sums of numbers are numbers, and they grow.
LEMMA SumNat ==
  ASSUME NEW s \in Seq(Nat)
  PROVE  \A n \in 0 .. Len(s) : SumTo(s, n) \in Nat
  <1> DEFINE S == {n \in Nat : n <= Len(s) => SumTo(s, n) \in Nat}
  <1>1. 0 \in S
    BY SumStep
  <1>2. ASSUME NEW n \in S PROVE n + 1 \in S
    <2> SUFFICES ASSUME n + 1 <= Len(s) PROVE SumTo(s, n + 1) \in Nat
      OBVIOUS
    <2>1. n \in Nat /\ SumTo(s, n) \in Nat /\ s[n + 1] \in Nat
      OBVIOUS
    <2>2. SumTo(s, n + 1) = SumTo(s, n) + s[n + 1]
      <3> HIDE DEF S
      <3> QED BY <2>1, SumStep
    <2> QED BY <2>1, <2>2
  <1>3. S = Nat
    <2>1. S \in SUBSET Nat
      OBVIOUS
    <2> HIDE DEF S
    <2> QED BY <1>1, <1>2, <2>1, Induction
  <1> QED BY <1>3

LEMMA SumGrows ==
  ASSUME NEW s \in Seq(Nat), NEW m \in 0 .. Len(s)
  PROVE  \A n \in m .. Len(s) : SumTo(s, m) <= SumTo(s, n)
  <1> DEFINE S == {k \in Nat : m + k <= Len(s) => SumTo(s, m) <= SumTo(s, m + k)}
  <1>1. 0 \in S
    BY SumNat
  <1>2. ASSUME NEW k \in S PROVE k + 1 \in S
    <2> SUFFICES ASSUME m + (k + 1) <= Len(s) PROVE SumTo(s, m) <= SumTo(s, m + (k + 1))
      OBVIOUS
    <2>1. m + k \in 0 .. Len(s) /\ SumTo(s, m) <= SumTo(s, m + k) /\ s[m + k + 1] \in Nat
      OBVIOUS
    <2>2. SumTo(s, m + k + 1) = SumTo(s, m + k) + s[m + k + 1]
      <3> HIDE DEF S
      <3>1. m + k \in Nat
        BY <2>1
      <3> QED BY <3>1, SumStep
    <2>3. SumTo(s, m) \in Nat /\ SumTo(s, m + k) \in Nat
      BY <2>1, SumNat
    <2>4. m + k + 1 = m + (k + 1)
      OBVIOUS
    <2> QED BY <2>1, <2>2, <2>3, <2>4
  <1>3. S = Nat
    <2>1. S \in SUBSET Nat
      OBVIOUS
    <2> HIDE DEF S
    <2> QED BY <1>1, <1>2, <2>1, Induction
  <1>4. ASSUME NEW n \in m .. Len(s) PROVE SumTo(s, m) <= SumTo(s, n)
    <2>1. n - m \in S /\ m + (n - m) = n /\ n <= Len(s)
      <3> HIDE DEF S
      <3> QED BY <1>3
    <2> QED BY <2>1
  <1> QED BY <1>4

\* An element added.
LEMMA SumAppend ==
  ASSUME NEW s \in Seq(Nat), NEW x \in Nat
  PROVE  /\ Sum(Append(s, x)) = Sum(s) + x /\ Sum(s) \in Nat
         /\ \A k \in 0 .. Len(s) : SumTo(Append(s, x), k) = SumTo(s, k)
  <1>1. /\ Append(s, x) \in Seq(Nat) /\ Len(Append(s, x)) = Len(s) + 1 /\ Len(s) \in Nat
        /\ Append(s, x)[Len(s) + 1] = x
        /\ \A j \in 1 .. Len(s) : Append(s, x)[j] = s[j]
    OBVIOUS
  <1>2. ASSUME NEW k \in 0 .. Len(s) PROVE SumTo(Append(s, x), k) = SumTo(s, k)
    <2>1. k \in Nat /\ \A j \in 1 .. k : Append(s, x)[j] = s[j]
      BY <1>1
    <2> QED BY <2>1, SumSame
  <1>3. SumTo(Append(s, x), Len(s) + 1) = SumTo(Append(s, x), Len(s)) + x
    BY <1>1, SumStep
  <1>4. Len(s) \in 0 .. Len(s)
    BY <1>1
  <1> QED BY <1>1, <1>2, <1>3, <1>4, SumNat DEF Sum

\* The first element removed.
LEMMA SumTail ==
  ASSUME NEW s \in Seq(Nat), s # <<>>
  PROVE  Sum(Tail(s)) = Sum(s) - Head(s) /\ Sum(s) \in Nat /\ Sum(Tail(s)) \in Nat
  <1> DEFINE t == Tail(s)
             S == {n \in Nat : n <= Len(t) => SumTo(s, n + 1) = SumTo(t, n) + Head(s)}
  <1>1. /\ t \in Seq(Nat) /\ Len(s) \in Nat \ {0} /\ Len(t) = Len(s) - 1
        /\ Head(s) = s[1] /\ Head(s) \in Nat
        /\ \A j \in 1 .. Len(t) : t[j] = s[j + 1] /\ t[j] \in Nat
    OBVIOUS
  <1> HIDE DEF t
  <1>2. 0 \in S
    <2>1. SumTo(s, 0) = 0 /\ SumTo(t, 0) = 0 /\ SumTo(s, 0 + 1) = SumTo(s, 0) + s[0 + 1]
      BY SumStep
    <2> QED BY <1>1, <2>1
  <1>3. ASSUME NEW n \in S PROVE n + 1 \in S
    <2> SUFFICES ASSUME n + 1 <= Len(t) PROVE SumTo(s, n + 1 + 1) = SumTo(t, n + 1) + Head(s)
      OBVIOUS
    <2>1. SumTo(s, n + 1) = SumTo(t, n) + Head(s)
      OBVIOUS
    <2>2. /\ SumTo(s, n + 1 + 1) = SumTo(s, n + 1) + s[n + 1 + 1]
          /\ SumTo(t, n + 1) = SumTo(t, n) + t[n + 1]
      <3>1. n \in Nat /\ n + 1 \in Nat
        OBVIOUS
      <3> HIDE DEF S
      <3> QED BY <3>1, SumStep
    <2>3. t[n + 1] = s[n + 1 + 1] /\ t[n + 1] \in Nat
      <3>1. n \in Nat /\ Len(t) \in Nat
        BY <1>1
      <3> HIDE DEF S
      <3>2. n + 1 \in 1 .. Len(t)
        BY <3>1
      <3> QED BY <1>1, <3>2
    <2>4. SumTo(t, n) \in Nat
      <3>1. t \in Seq(Nat) /\ n \in 0 .. Len(t)
        BY <1>1
      <3> HIDE DEF S
      <3> QED BY <3>1, SumNat
    <2> DEFINE a == SumTo(t, n)
               b == t[n + 1]
               h == Head(s)
    <2>5. h \in Nat /\ a \in Nat /\ b \in Nat
      BY <1>1, <2>3, <2>4
    <2>6. SumTo(s, n + 1 + 1) = (a + h) + b /\ SumTo(t, n + 1) = a + b
      BY <2>1, <2>2, <2>3
    <2> HIDE DEF a, b, h, S
    <2>7. (a + h) + b = (a + b) + h
      BY <2>5
    <2> QED BY <2>6, <2>7 DEF h
  <1>4. S = Nat
    <2>1. S \in SUBSET Nat
      OBVIOUS
    <2> HIDE DEF S
    <2> QED BY <1>2, <1>3, <2>1, Induction
  <1>5. SumTo(s, Len(t) + 1) = SumTo(t, Len(t)) + Head(s)
    <2>1. Len(t) \in S
      <3> HIDE DEF S
      <3> QED BY <1>1, <1>4
    <2> QED BY <1>1, <2>1
  <1>6. Sum(s) \in Nat /\ Sum(t) \in Nat
    <2>1. Len(s) \in 0 .. Len(s) /\ Len(t) \in 0 .. Len(t)
      BY <1>1
    <2> QED BY <1>1, <2>1, SumNat DEF Sum
  <1>7. Len(t) + 1 = Len(s)
    BY <1>1
  <1>8. Sum(s) = Sum(t) + Head(s)
    BY <1>5, <1>7 DEF Sum
  <1>9. Sum(t) = Sum(s) - Head(s)
    BY <1>1, <1>6, <1>8
  <1> QED BY <1>6, <1>9 DEF t

-----------------------------------------------------------------------------
(* Pieces of a sequence.                                                   *)

\* c is s cut into m pieces of length n.
Pieced(s, n, c, m) ==
  /\ Len(c) = m
  /\ \A k \in 1 .. m : Len(c[k]) = n /\ \A j \in 1 .. n : c[k][j] = s[(k - 1) * n + j]

\* The words of a packet, joined, are what was cut.
LEMMA Pieces ==
  ASSUME NEW V, NEW s \in Seq(V), NEW n \in Nat \ {0}
  PROVE  /\ Chunks(s, n) \in Seq(Seq(V))
         /\ \A m \in Nat : Len(s) = m * n => Pieced(s, n, Chunks(s, n), m)
  <1> DEFINE c == Ceil(Len(s), n)
             p == Len(s) + n - 1
  <1>1. Len(s) \in Nat /\ p \in Nat
    OBVIOUS
  <1>2. c = p \div n
    BY DEF Ceil
  <1>3. c \in Nat /\ c * n <= p /\ p < c * n + n
    <2> HIDE DEF p, c
    <2>1. /\ p \div n \in Nat /\ p % n \in 0 .. n - 1 /\ p = (p \div n) * n + (p % n)
      BY <1>1, Quotient
    <2> DEFINE r == p % n
    <2>2. c \in Nat /\ r \in 0 .. n - 1 /\ p = c * n + r
      <3>1. c \in Nat
        BY <1>2, <2>1
      <3>2. p = c * n + (p % n)
        BY <1>2, <2>1
      <3> QED BY <2>1, <3>1, <3>2
    <2> HIDE DEF r
    <2>3. c * n \in Nat
      BY <2>2
    <2> QED BY <1>1, <2>2, <2>3
  <1> DEFINE piece(k) == SubSeq(s, (k - 1) * n + 1, IF k * n <= Len(s) THEN k * n ELSE Len(s))
  <1>4. ASSUME NEW k \in 1 .. c PROVE piece(k) \in Seq(V)
    <2> DEFINE a == (k - 1) * n + 1
               b == IF k * n <= Len(s) THEN k * n ELSE Len(s)
    <2>1. (k - 1) * n \in Nat /\ k * n \in Nat
      BY <1>3
    <2>2. a \in Nat \ {0} /\ b \in 0 .. Len(s)
      BY <1>1, <2>1
    <2> HIDE DEF a, b
    <2>3. \A i \in a .. b : s[i] \in V
      BY <2>2
    <2>4. SubSeq(s, a, b) \in Seq(V)
      BY <2>2, <2>3, SubSeqProperties
    <2> QED BY <2>4 DEF a, b
  <1>5. Chunks(s, n) = [k \in 1 .. c |-> piece(k)]
    BY DEF Chunks
  <1>6. Chunks(s, n) \in Seq(Seq(V)) /\ Len(Chunks(s, n)) = c
    <2> HIDE DEF piece, c
    <2> QED BY <1>3, <1>4, <1>5
  <1>7. ASSUME NEW m \in Nat, Len(s) = m * n
        PROVE  /\ c = m
               /\ \A k \in 1 .. m :
                    /\ Len(Chunks(s, n)[k]) = n
                    /\ \A j \in 1 .. n : Chunks(s, n)[k][j] = s[(k - 1) * n + j]
    <2>1. c = m
      <3>1. p = m * n + (n - 1) /\ n - 1 \in 0 .. n - 1
        BY <1>7
      <3>2. (m * n + (n - 1)) \div n = m
        BY <3>1, Division
      <3> HIDE DEF p, c
      <3> QED BY <1>2, <3>1, <3>2
    <2>2. ASSUME NEW k \in 1 .. m
          PROVE  Len(piece(k)) = n /\ \A j \in 1 .. n : piece(k)[j] = s[(k - 1) * n + j]
      <3>1. k * n <= m * n /\ (k - 1) * n \in Nat /\ k * n = (k - 1) * n + n
        OBVIOUS
      <3> DEFINE a == (k - 1) * n
      <3>2. piece(k) = SubSeq(s, a + 1, a + n)
        BY <1>7, <3>1
      <3>3. a \in Nat /\ a + n <= Len(s)
        BY <1>7, <3>1
      <3> HIDE DEF a, piece
      <3>4. SubSeq(s, a + 1, a + n) = [j \in 1 .. n |-> s[a + j]]
        BY <3>3
      <3>5. Len(piece(k)) = n /\ \A j \in 1 .. n : piece(k)[j] = s[a + j]
        <4> DEFINE t == [j \in 1 .. n |-> s[a + j]]
        <4>1. Len(t) = n /\ \A j \in 1 .. n : t[j] = s[a + j]
          OBVIOUS
        <4>2. piece(k) = t
          BY <3>2, <3>4
        <4> HIDE DEF t
        <4> QED BY <4>1, <4>2
      <3> QED BY <3>5 DEF a
    <2> HIDE DEF piece, c
    <2> QED BY <1>5, <2>1, <2>2
  <1> HIDE DEF c, piece
  <1>8. ASSUME NEW m \in Nat, Len(s) = m * n PROVE Pieced(s, n, Chunks(s, n), m)
    BY <1>6, <1>7, <1>8 DEF Pieced
  <1> QED BY <1>6, <1>8


-----------------------------------------------------------------------------
(* The types, and what else is needed for them.                            *)

\* What each stream carries.
LEMMA ValuesOf ==
  /\ Values(m_axis_tcp_listen_port) = {"basePort", "baseIpAddress"}
  /\ Values(m_axis_tcp_open_connection) = {"basePort", "baseIpAddress"}
  /\ Values(s_axis_tcp_port_status) = BOOLEAN
  /\ Values(s_axis_tcp_open_status) = [success : BOOLEAN, sessionID : SessionID]
  /\ Values(s_axis_tcp_notification) = Nat
  /\ Values(m_axis_tcp_read_pkg) = Nat \ {0} /\ Values(nextRxPacketLength) = Nat \ {0}
  /\ Values(s_axis_tcp_rx_meta) = {0, 1} /\ Values(s_consumeDataReady) = {0, 1}
  /\ Values(s_axis_tcp_rx_data) = [data : Word, last : BOOLEAN]
  /\ Values(s_kernel_network_in) = Word
  /\ Values(s_batch_header(output)) = {Header(1, 1)}
  /\ Values(s_output) = Nat \X Nat
  /\ Values(s_kernel_network_out) = OutWord
  /\ Values(m_axis_tcp_tx_meta) = [sessionID : SessionID, length : Nat]
  /\ Values(s_axis_tcp_tx_status) = [sessionID : SessionID, length : Nat, error : 0 .. 2]
  /\ Values(m_axis_tcp_tx_data) = [data : OutWord, last : BOOLEAN]
  <1>1. Values(m_axis_tcp_listen_port) = {"basePort", "baseIpAddress"}
        /\ Values(m_axis_tcp_open_connection) = {"basePort", "baseIpAddress"}
    BY Names DEF Values
  <1>2. Values(s_axis_tcp_port_status) = BOOLEAN
    BY Names DEF Values
  <1>3. Values(s_axis_tcp_open_status) = [success : BOOLEAN, sessionID : SessionID]
    BY Names DEF Values
  <1>4. Values(s_axis_tcp_notification) = Nat
    BY Names DEF Values
  <1>5. Values(m_axis_tcp_read_pkg) = Nat \ {0} /\ Values(nextRxPacketLength) = Nat \ {0}
    BY Names DEF Values
  <1>6. Values(s_axis_tcp_rx_meta) = {0, 1} /\ Values(s_consumeDataReady) = {0, 1}
    BY Names DEF Values
  <1>7. Values(s_axis_tcp_rx_data) = [data : Word, last : BOOLEAN]
    BY Names DEF Values
  <1>8. Values(s_kernel_network_in) = Word
    BY Names DEF Values
  <1>9. Values(s_batch_header(output)) = {Header(1, 1)}
    BY Names DEF Values
  <1>10. Values(s_output) = Nat \X Nat
    BY Names DEF Values
  <1>11. Values(s_kernel_network_out) = OutWord
    BY Names DEF Values
  <1>12. Values(m_axis_tcp_tx_meta) = [sessionID : SessionID, length : Nat]
    BY Names DEF Values
  <1>13. Values(s_axis_tcp_tx_status) = [sessionID : SessionID, length : Nat, error : 0 .. 2]
    BY Names DEF Values
  <1>14. Values(m_axis_tcp_tx_data) = [data : OutWord, last : BOOLEAN]
    BY Names DEF Values
  <1> QED BY <1>1, <1>2, <1>3, <1>4, <1>5, <1>6, <1>7, <1>8, <1>9, <1>10, <1>11, <1>12,
             <1>13, <1>14

\* What each process keeps.
LEMMA LocalTypes ==
  /\ LocalType(listen) = [asked : BOOLEAN, answered : BOOLEAN, sessionID : SessionID]
  /\ LocalType(open) = [asked : BOOLEAN, answered : BOOLEAN, sessionID : SessionID]
  /\ LocalType(handshake) = [rxByteCnt : Nat]
  /\ LocalType(consume) = [started : BOOLEAN, rxByteCnt : Nat, length : Nat]
  /\ LocalType(search) = [words : Seq(Word), query : Nat, left : 0 .. TOPK]
  /\ LocalType(output) = [phase : {"idle", "results", "words"},
                          results : Seq(Nat \X Nat), word : 1 .. ANSWER_WORDS]
  /\ LocalType(send) = [phase : {"first", "status", "data", "next", "done"},
                        sentByteCnt : Nat, length : Nat, todo : Nat]
  /\ LocalType(stack) = [buffer : Seq(Unit), packet : Seq(Word), accepted : Seq(Nat),
                         zeros : Nat, retries : Nat]
  /\ LocalType(host) = [query : Nat \ {0}, segment : Nat \ {0}]
  <1>1. /\ LocalType(listen) = [asked : BOOLEAN, answered : BOOLEAN, sessionID : SessionID]
        /\ LocalType(open) = [asked : BOOLEAN, answered : BOOLEAN, sessionID : SessionID]
    BY ProcessNames DEF LocalType
  <1>2. LocalType(handshake) = [rxByteCnt : Nat]
    BY ProcessNames DEF LocalType
  <1>3. LocalType(consume) = [started : BOOLEAN, rxByteCnt : Nat, length : Nat]
    BY ProcessNames DEF LocalType
  <1>4. LocalType(search) = [words : Seq(Word), query : Nat, left : 0 .. TOPK]
    BY ProcessNames DEF LocalType
  <1>5. LocalType(output) = [phase : {"idle", "results", "words"},
                          results : Seq(Nat \X Nat), word : 1 .. ANSWER_WORDS]
    BY ProcessNames DEF LocalType
  <1>6. LocalType(send) = [phase : {"first", "status", "data", "next", "done"},
                        sentByteCnt : Nat, length : Nat, todo : Nat]
    BY ProcessNames DEF LocalType
  <1>7. LocalType(stack) = [buffer : Seq(Unit), packet : Seq(Word), accepted : Seq(Nat),
                         zeros : Nat, retries : Nat]
    BY ProcessNames DEF LocalType
  <1>8. LocalType(host) = [query : Nat \ {0}, segment : Nat \ {0}]
    BY ProcessNames DEF LocalType
  <1> QED BY <1>1, <1>2, <1>3, <1>4, <1>5, <1>6, <1>7, <1>8

\* A step of the processes P that touches the streams C.
LEMMA TypeStep ==
  ASSUME TypeOK, UNCHANGED request, left' \in [Process -> Nat], NEW C, NEW P,
         Streams(C), \A c \in C : fifo'[c] \in Seq(Values(c)),
         DOMAIN at' = Process, \A q \in Process \ P : at'[q] = at[q],
         \A p \in P : at'[p] \in LocalType(p)
  PROVE  TypeOK'
  <1>1. request' \in Requests
    BY DEF TypeOK
  <1>2. DOMAIN fifo' = Stream
    BY DEF Streams
  <1>3. ASSUME NEW c \in Stream PROVE fifo'[c] \in Seq(Values(c))
    BY DEF Streams, TypeOK
  <1>4. ASSUME NEW p \in Process PROVE at'[p] \in LocalType(p)
    BY DEF TypeOK
  <1> QED BY <1>1, <1>2, <1>3, <1>4 DEF TypeOK

LEMMA TypedTake ==
  ASSUME TypeOK, NEW a \in Stream, Takes(a)
  PROVE  /\ Head(fifo[a]) \in Values(a) /\ fifo'[a] \in Seq(Values(a))
         /\ fifo[a] \in Seq(Values(a)) /\ Len(fifo[a]) \in Nat \ {0}
         /\ Len(fifo'[a]) = Len(fifo[a]) - 1
  <1>1. fifo[a] \in Seq(Values(a)) /\ fifo[a] # <<>> /\ fifo'[a] = Tail(fifo[a])
    BY DEF TypeOK, Takes
  <1> QED BY <1>1

LEMMA TypedWrite ==
  ASSUME TypeOK, NEW b \in Stream, NEW v \in Values(b), Writes(b, v)
  PROVE  /\ fifo'[b] \in Seq(Values(b)) /\ fifo[b] \in Seq(Values(b))
         /\ Len(fifo[b]) \in Nat /\ Len(fifo'[b]) = Len(fifo[b]) + 1
  <1>1. fifo[b] \in Seq(Values(b)) /\ fifo'[b] = Append(fifo[b], v)
    BY DEF TypeOK, Writes
  <1> QED BY <1>1

LEMMA TypedSame ==
  ASSUME TypeOK, NEW c \in Stream, fifo'[c] = fifo[c]
  PROVE  fifo'[c] \in Seq(Values(c))
BY DEF TypeOK

\* What the processes keep.
LEMMA TypedLocals ==
  ASSUME TypeOK
  PROVE  /\ at[listen] \in [asked : BOOLEAN, answered : BOOLEAN, sessionID : SessionID]
         /\ at[open] \in [asked : BOOLEAN, answered : BOOLEAN, sessionID : SessionID]
         /\ at[handshake] \in [rxByteCnt : Nat]
         /\ at[consume] \in [started : BOOLEAN, rxByteCnt : Nat, length : Nat]
         /\ at[search] \in [words : Seq(Word), query : Nat, left : 0 .. TOPK]
         /\ at[output] \in [phase : {"idle", "results", "words"},
                          results : Seq(Nat \X Nat), word : 1 .. ANSWER_WORDS]
         /\ at[send] \in [phase : {"first", "status", "data", "next", "done"},
                          sentByteCnt : Nat, length : Nat, todo : Nat]
         /\ at[stack] \in [buffer : Seq(Unit), packet : Seq(Word), accepted : Seq(Nat),
                          zeros : Nat, retries : Nat]
         /\ at[host] \in [query : Nat \ {0}, segment : Nat \ {0}]
  <1>1. at[listen] \in [asked : BOOLEAN, answered : BOOLEAN, sessionID : SessionID]
    <2>1. at[listen] \in LocalType(listen)
      BY AllProcesses DEF TypeOK
    <2> QED BY <2>1, LocalTypes, Zenon
  <1>2. at[open] \in [asked : BOOLEAN, answered : BOOLEAN, sessionID : SessionID]
    <2>1. at[open] \in LocalType(open)
      BY AllProcesses DEF TypeOK
    <2> QED BY <2>1, LocalTypes, Zenon
  <1>3. at[handshake] \in [rxByteCnt : Nat]
    <2>1. at[handshake] \in LocalType(handshake)
      BY AllProcesses DEF TypeOK
    <2> QED BY <2>1, LocalTypes, Zenon
  <1>4. at[consume] \in [started : BOOLEAN, rxByteCnt : Nat, length : Nat]
    <2>1. at[consume] \in LocalType(consume)
      BY AllProcesses DEF TypeOK
    <2> QED BY <2>1, LocalTypes, Zenon
  <1>5. at[search] \in [words : Seq(Word), query : Nat, left : 0 .. TOPK]
    <2>1. at[search] \in LocalType(search)
      BY AllProcesses DEF TypeOK
    <2> QED BY <2>1, LocalTypes, Zenon
  <1>6. at[output] \in [phase : {"idle", "results", "words"},
                       results : Seq(Nat \X Nat), word : 1 .. ANSWER_WORDS]
    <2>1. at[output] \in LocalType(output)
      BY AllProcesses DEF TypeOK
    <2> QED BY <2>1, LocalTypes, Zenon
  <1>7. at[send] \in [phase : {"first", "status", "data", "next", "done"},
                       sentByteCnt : Nat, length : Nat, todo : Nat]
    <2>1. at[send] \in LocalType(send)
      BY AllProcesses DEF TypeOK
    <2> QED BY <2>1, LocalTypes, Zenon
  <1>8. at[stack] \in [buffer : Seq(Unit), packet : Seq(Word), accepted : Seq(Nat),
                       zeros : Nat, retries : Nat]
    <2>1. at[stack] \in LocalType(stack)
      BY AllProcesses DEF TypeOK
    <2> QED BY <2>1, LocalTypes, Zenon
  <1>9. at[host] \in [query : Nat \ {0}, segment : Nat \ {0}]
    <2>1. at[host] \in LocalType(host)
      BY AllProcesses DEF TypeOK
    <2> QED BY <2>1, LocalTypes, Zenon
  <1> QED BY <1>1, <1>2, <1>3, <1>4, <1>5, <1>6, <1>7, <1>8, <1>9

LEMMA TypedShape == TypeOK => Shape
  <1> SUFFICES ASSUME TypeOK PROVE Shape
    OBVIOUS
  <1>1. FlowShape
    BY DEF TypeOK, FlowShape, IsSequence
  <1>2. /\ at[consume] \in [started : BOOLEAN, rxByteCnt : Nat, length : Nat]
        /\ at[send] \in [phase : {"first", "status", "data", "next", "done"},
                        sentByteCnt : Nat, length : Nat, todo : Nat]
    BY TypedLocals
  <1>3. DOMAIN at = Process
    BY DEF TypeOK
  <1> QED BY <1>1, <1>2, <1>3 DEF Shape, AtShape

\* The constants and the request.
LEMMA Numbers ==
  ASSUME TypeOK
  PROVE  /\ WORD \in Nat \ {0} /\ QUERY_WORDS \in Nat \ {0} /\ TOPK \in Nat \ {0}
         /\ IDS_PER_WORD \in Nat \ {0} /\ DISTS_PER_WORD \in Nat \ {0}
         /\ request.queries \in Nat /\ request.expectedTxPkgCnt \in Nat
         /\ request.pkgWordCount \in Nat \ {0}
         /\ request.segments \in Seq(Nat \ {0}) /\ request.segments \in Seq(Nat)
         /\ Sum(request.segments) = QUERY_WORDS * WORD
         /\ pkgLength \in Nat /\ expectedTxByteCnt \in Nat
         /\ request.open \in BOOLEAN
  <1>1. IsInput(request)
    BY GlueAssumption DEF TypeOK
  <1>2. /\ WORD \in Nat \ {0} /\ QUERY_WORDS \in Nat \ {0} /\ TOPK \in Nat \ {0}
        /\ IDS_PER_WORD \in Nat \ {0} /\ DISTS_PER_WORD \in Nat \ {0}
    BY GlueAssumption
  <1>3. /\ request.queries \in Nat /\ request.expectedTxPkgCnt \in Nat
        /\ request.pkgWordCount \in Nat \ {0} /\ request.open \in BOOLEAN
        /\ request.segments \in Seq(Nat \ {0}) /\ Sum(request.segments) = QUERY_WORDS * WORD
    BY <1>1 DEF IsInput
  <1>4. request.segments \in Seq(Nat)
    BY <1>3
  <1>5. pkgLength \in Nat /\ expectedTxByteCnt \in Nat
    BY <1>2, <1>3 DEF pkgLength, expectedTxByteCnt
  <1> QED BY <1>2, <1>3, <1>4, <1>5

-----------------------------------------------------------------------------
(* The other steps, and what the steps leave alone.                        *)

ConnectionStreams == {m_axis_tcp_listen_port, s_axis_tcp_port_status,
                      m_axis_tcp_open_connection, s_axis_tcp_open_status}
Connections == listen_port_handler \/ port_status_handler \/ openConnections
                 \/ stack_listen \/ stack_open

\* The type of a connection's process.
LEMMA ConnectionEffect ==
  ASSUME TypeOK, Connections
  PROVE  /\ Streams(ConnectionStreams)
         /\ \A c \in ConnectionStreams : fifo'[c] \in Seq(Values(c))
         /\ DOMAIN at' = Process /\ \A q \in Process \ {listen, open} : at'[q] = at[q]
         /\ at'[listen] \in LocalType(listen) /\ at'[open] \in LocalType(open)
         /\ UNCHANGED <<left, request>>
  <1> DEFINE port == m_axis_tcp_listen_port
             pstatus == s_axis_tcp_port_status
             conn == m_axis_tcp_open_connection
             ostatus == s_axis_tcp_open_status
  <1>1. /\ port \in Stream /\ pstatus \in Stream /\ conn \in Stream /\ ostatus \in Stream
        /\ port # pstatus /\ port # conn /\ port # ostatus /\ pstatus # conn
        /\ pstatus # ostatus /\ conn # ostatus
    BY AllStreams, Names
  <1>2. /\ Shape /\ FlowShape /\ DOMAIN at = Process /\ listen \in Process /\ open \in Process
        /\ listen # open
    BY TypedShape, AllProcesses, ProcessNames DEF Shape, AtShape
  <1>3. /\ at[listen] \in [asked : BOOLEAN, answered : BOOLEAN, sessionID : SessionID]
        /\ at[open] \in [asked : BOOLEAN, answered : BOOLEAN, sessionID : SessionID]
    BY TypedLocals
  <1>s. ASSUME NEW C, Streams(C), C \subseteq ConnectionStreams,
               \A c \in C : fifo'[c] \in Seq(Values(c))
        PROVE  /\ Streams(ConnectionStreams)
               /\ \A c \in ConnectionStreams : fifo'[c] \in Seq(Values(c))
    <2>1. ConnectionStreams \subseteq Stream
      BY <1>1 DEF ConnectionStreams
    <2>2. Streams(ConnectionStreams)
      BY <1>s DEF Streams
    <2>3. ASSUME NEW c \in ConnectionStreams PROVE fifo'[c] \in Seq(Values(c))
      BY <1>s, <2>1, TypedSame DEF Streams
    <2> QED BY <2>2, <2>3
  <1>m. ASSUME NEW p \in {listen, open}, NEW x, Moves(p, x),
               x \in [asked : BOOLEAN, answered : BOOLEAN, sessionID : SessionID]
        PROVE  /\ DOMAIN at' = Process /\ \A q \in Process \ {listen, open} : at'[q] = at[q]
               /\ at'[listen] \in LocalType(listen) /\ at'[open] \in LocalType(open)
    <2>1. /\ at'[listen] \in [asked : BOOLEAN, answered : BOOLEAN, sessionID : SessionID]
          /\ at'[open] \in [asked : BOOLEAN, answered : BOOLEAN, sessionID : SessionID]
      BY <1>2, <1>3, <1>m DEF Moves
    <2>2. DOMAIN at' = Process /\ \A q \in Process \ {listen, open} : at'[q] = at[q]
      BY <1>m DEF Moves
    <2>3. at'[listen] \in LocalType(listen) /\ at'[open] \in LocalType(open)
      BY <2>1, LocalTypes, Zenon
    <2> QED BY <2>2, <2>3
  <1>a. /\ port \in ConnectionStreams /\ pstatus \in ConnectionStreams
        /\ conn \in ConnectionStreams /\ ostatus \in ConnectionStreams
    BY DEF ConnectionStreams
  <1>b. ASSUME NEW b \in ConnectionStreams, NEW v \in Values(b), Transfer({}, To(b, v))
        PROVE  /\ Streams(ConnectionStreams)
               /\ \A c \in ConnectionStreams : fifo'[c] \in Seq(Values(c))
    <2>1. b \in Stream
      BY <1>1 DEF ConnectionStreams
    <2>2. Writes(b, v) /\ Streams({b})
      BY <1>2, <1>b, <2>1, Write
    <2> QED BY <1>s, <2>1, <2>2, TypedWrite
  <1>t. ASSUME NEW a \in ConnectionStreams, Transfer({a}, Nothing)
        PROVE  /\ Streams(ConnectionStreams) /\ Takes(a)
               /\ \A c \in ConnectionStreams : fifo'[c] \in Seq(Values(c))
    <2>1. a \in Stream
      BY <1>1 DEF ConnectionStreams
    <2>2. Takes(a) /\ Streams({a})
      BY <1>2, <1>t, <2>1, Take
    <2> QED BY <1>s, <2>1, <2>2, TypedTake
  <1>v. ASSUME NEW a \in ConnectionStreams, NEW b \in ConnectionStreams, a # b,
               NEW v \in Values(b), Transfer({a}, To(b, v))
        PROVE  /\ Streams(ConnectionStreams)
               /\ \A c \in ConnectionStreams : fifo'[c] \in Seq(Values(c))
    <2>1. a \in Stream /\ b \in Stream
      BY <1>1 DEF ConnectionStreams
    <2>2. Takes(a) /\ Writes(b, v) /\ Streams({a, b})
      BY <1>2, <1>v, <2>1, Move
    <2> QED BY <1>s, <2>1, <2>2, TypedTake, TypedWrite
  <1>u. UNCHANGED at => /\ DOMAIN at' = Process
                        /\ \A q \in Process \ {listen, open} : at'[q] = at[q]
                        /\ at'[listen] \in LocalType(listen) /\ at'[open] \in LocalType(open)
    BY <1>2 DEF TypeOK
  <1>4. CASE listen_port_handler
    <2> DEFINE x == [at[listen] EXCEPT !.asked = TRUE]
    <2>1. /\ Transfer({}, To(port, "basePort")) /\ UNCHANGED <<left, request>>
          /\ at' = [at EXCEPT ![listen] = x]
      BY <1>4 DEF listen_port_handler, Continues
    <2>2. x \in [asked : BOOLEAN, answered : BOOLEAN, sessionID : SessionID]
      BY <1>3
    <2>3. "basePort" \in Values(port)
      BY ValuesOf
    <2> HIDE DEF x
    <2>4. Moves(listen, x)
      BY <1>2, <2>1, Moved1
    <2> QED BY <1>a, <1>b, <1>m, <2>1, <2>2, <2>3, <2>4
  <1>5. CASE port_status_handler
    <2> DEFINE x == [at[listen] EXCEPT !.answered = TRUE]
    <2>1. /\ Transfer({pstatus}, Nothing) /\ UNCHANGED <<left, request>>
          /\ at' = [at EXCEPT ![listen] = x]
      BY <1>5 DEF port_status_handler, Continues
    <2>2. x \in [asked : BOOLEAN, answered : BOOLEAN, sessionID : SessionID]
      BY <1>3
    <2> HIDE DEF x
    <2>4. Moves(listen, x)
      BY <1>2, <2>1, Moved1
    <2> QED BY <1>a, <1>t, <1>m, <2>1, <2>2, <2>4
  <1>6. CASE openConnections
    <2>1. CASE ~ at[open].asked
      <3> DEFINE x == [at[open] EXCEPT !.asked = TRUE]
      <3>1. /\ Transfer({}, To(conn, "baseIpAddress")) /\ UNCHANGED <<left, request>>
            /\ at' = [at EXCEPT ![open] = x]
        BY <1>6, <2>1 DEF openConnections, Continues
      <3>2. x \in [asked : BOOLEAN, answered : BOOLEAN, sessionID : SessionID]
        BY <1>3
      <3>3. "baseIpAddress" \in Values(conn)
        BY ValuesOf
      <3> HIDE DEF x
      <3>4. Moves(open, x)
        BY <1>2, <3>1, Moved1
      <3> QED BY <1>a, <1>b, <1>m, <3>1, <3>2, <3>3, <3>4
    <2>2. CASE at[open].asked
      <3> DEFINE status == Head(fifo[ostatus])
                 x == [at[open] EXCEPT !.answered = TRUE,
                         !.sessionID = IF status.success THEN status.sessionID ELSE @]
      <3>1. /\ Transfer({ostatus}, Nothing) /\ UNCHANGED <<left, request>>
            /\ at' = [at EXCEPT ![open] = x]
        BY <1>6, <2>2 DEF openConnections, Continues
      <3>2. status \in [success : BOOLEAN, sessionID : SessionID]
        BY <1>1, <1>a, <1>t, <3>1, TypedTake, ValuesOf
      <3>3. x \in [asked : BOOLEAN, answered : BOOLEAN, sessionID : SessionID]
        <4> HIDE DEF status
        <4> QED BY <1>3, <3>2
      <3> HIDE DEF x
      <3>4. Moves(open, x)
        BY <1>2, <3>1, Moved1
      <3> QED BY <1>a, <1>t, <1>m, <3>1, <3>3, <3>4
    <2> QED BY <2>1, <2>2
  <1>7. CASE stack_listen
    <2>1. Transfer({port}, To(pstatus, TRUE)) /\ UNCHANGED <<at, left, request>>
      BY <1>7 DEF stack_listen, Continues
    <2>2. TRUE \in Values(pstatus)
      BY ValuesOf
    <2> QED BY <1>1, <1>a, <1>v, <1>u, <2>1, <2>2
  <1>8. CASE stack_open
    <2> DEFINE v == [success |-> request.open, sessionID |-> "session"]
    <2>1. Transfer({conn}, To(ostatus, v)) /\ UNCHANGED <<at, left, request>>
      BY <1>8 DEF stack_open, Continues
    <2>2. v \in Values(ostatus)
      BY ValuesOf, Numbers DEF SessionID
    <2> HIDE DEF v
    <2> QED BY <1>1, <1>a, <1>v, <1>u, <2>1, <2>2
  <1> QED BY <1>4, <1>5, <1>6, <1>7, <1>8 DEF Connections

LEMMA ConsumeStartEffect ==
  ASSUME Shape, consume_start
  PROVE  /\ Writes(s_consumeDataReady, 1) /\ Streams({s_consumeDataReady})
         /\ Moves(consume, [at[consume] EXCEPT !.started = TRUE]) /\ UNCHANGED <<left, request>>
  <1> DEFINE x == [at[consume] EXCEPT !.started = TRUE]
  <1>1. /\ Transfer({}, To(s_consumeDataReady, 1)) /\ UNCHANGED <<left, request>>
        /\ at' = [at EXCEPT ![consume] = x]
    BY DEF consume_start, Continues
  <1> HIDE DEF x
  <1>2. Moves(consume, x)
    BY <1>1, AllProcesses, Moved1 DEF Shape, AtShape
  <1>3. Writes(s_consumeDataReady, 1) /\ Streams({s_consumeDataReady})
    BY <1>1, AllStreams, Write DEF Shape
  <1> QED BY <1>1, <1>2, <1>3 DEF x

LEMMA StackZeroEffect ==
  ASSUME Shape, stack_zero
  PROVE  /\ Writes(s_axis_tcp_notification, 0) /\ Streams({s_axis_tcp_notification})
         /\ Moves(stack, [at[stack] EXCEPT !.zeros = @ + 1]) /\ UNCHANGED <<left, request>>
  <1> DEFINE x == [at[stack] EXCEPT !.zeros = @ + 1]
  <1>1. /\ Transfer({}, To(s_axis_tcp_notification, 0)) /\ UNCHANGED <<left, request>>
        /\ at' = [at EXCEPT ![stack] = x]
    BY DEF stack_zero, Continues
  <1> HIDE DEF x
  <1>2. Moves(stack, x)
    BY <1>1, AllProcesses, Moved1 DEF Shape, AtShape
  <1>3. Writes(s_axis_tcp_notification, 0) /\ Streams({s_axis_tcp_notification})
    BY <1>1, AllStreams, Write DEF Shape
  <1> QED BY <1>1, <1>2, <1>3 DEF x


\* What the words of the queries pass through.
ReceiveSame ==
  UNCHANGED <<fifo[s_axis_tcp_notification], fifo[m_axis_tcp_read_pkg],
              fifo[s_axis_tcp_rx_data], fifo[s_kernel_network_in], at[search].words,
              at[search].query, at[stack].buffer, at[stack].packet, at[host], request>>

\* What the answers are made of, up to the words of the kernel.
AnswerSame ==
  UNCHANGED <<at[output], left, fifo[s_batch_header(output)], fifo[s_output],
              fifo[s_kernel_network_out], at[search].query, at[search].left>>

\* What the packets are negotiated and sent with.
SendSame ==
  UNCHANGED <<at[send], fifo[m_axis_tcp_tx_meta], fifo[s_axis_tcp_tx_status],
              fifo[m_axis_tcp_tx_data], at[stack].accepted, request>>

\* A step of p, and the streams it touches.
LEMMA Frame ==
  ASSUME UNCHANGED <<left, request>>, NEW C, Streams(C), NEW P, DOMAIN at' = Process,
         \A q \in Process \ P : at'[q] = at[q]
  PROVE  /\ /\ C \cap {s_axis_tcp_notification, m_axis_tcp_read_pkg,
                       s_axis_tcp_rx_data, s_kernel_network_in} = {}
            /\ P \cap {search, stack, host} = {}
            => ReceiveSame
         /\ /\ C \cap {s_batch_header(output), s_output, s_kernel_network_out} = {}
            /\ P \cap {output, search} = {}
            => AnswerSame
         /\ /\ C \cap {m_axis_tcp_tx_meta, s_axis_tcp_tx_status, m_axis_tcp_tx_data} = {}
            /\ P \cap {send, stack} = {}
            => SendSame
  <1>1. ASSUME NEW c \in Stream, c \notin C PROVE fifo'[c] = fifo[c]
    BY <1>1 DEF Streams
  <1>2. ASSUME NEW p \in Process, p \notin P PROVE at'[p] = at[p]
    BY <1>2
  <1>3. ASSUME C \cap {s_axis_tcp_notification, m_axis_tcp_read_pkg,
                       s_axis_tcp_rx_data, s_kernel_network_in} = {},
               P \cap {search, stack, host} = {}
        PROVE  ReceiveSame
    BY <1>1, <1>2, <1>3, AllStreams, AllProcesses DEF ReceiveSame
  <1>4. ASSUME C \cap {s_batch_header(output), s_output, s_kernel_network_out} = {},
               P \cap {output, search} = {}
        PROVE  AnswerSame
    BY <1>1, <1>2, <1>4, AllStreams, AllProcesses DEF AnswerSame
  <1>5. ASSUME C \cap {m_axis_tcp_tx_meta, s_axis_tcp_tx_status, m_axis_tcp_tx_data} = {},
               P \cap {send, stack} = {}
        PROVE  SendSame
    BY <1>1, <1>2, <1>5, AllStreams, AllProcesses DEF SendSame
  <1> QED BY <1>3, <1>4, <1>5

LEMMA Others ==
  ASSUME NEW p \in Process, NEW x, Moves(p, x)
  PROVE  DOMAIN at' = Process /\ \A q \in Process \ {p} : at'[q] = at[q]
BY DEF Moves

\* What each step leaves alone.
LEMMA ConnectionFrame ==
  ASSUME TypeOK, Connections PROVE ReceiveSame /\ AnswerSame /\ SendSame
  <1> DEFINE W == {s_axis_tcp_notification, m_axis_tcp_read_pkg,
                   s_axis_tcp_rx_data, s_kernel_network_in}
             A == {s_batch_header(output), s_output, s_kernel_network_out}
             S == {m_axis_tcp_tx_meta, s_axis_tcp_tx_status, m_axis_tcp_tx_data}
             P == {listen, open}
  <1>1. /\ ConnectionStreams \cap W = {} /\ ConnectionStreams \cap A = {}
        /\ ConnectionStreams \cap S = {}
    BY Names DEF ConnectionStreams
  <1>2. P \cap {search, stack, host} = {} /\ P \cap {output, search} = {}
        /\ P \cap {send, stack} = {}
    BY ProcessNames
  <1>3. /\ Streams(ConnectionStreams) /\ UNCHANGED <<left, request>> /\ DOMAIN at' = Process
        /\ \A q \in Process \ P : at'[q] = at[q]
    BY ConnectionEffect
  <1> HIDE DEF P
  <1> QED BY <1>1, <1>2, <1>3, Frame

LEMMA ReceiveFrame ==
  ASSUME TypeOK,
         recvData_handshake \/ recvData_consumeData \/ stack_zero \/ stack_read
           \/ stack_word \/ host_send
  PROVE  AnswerSame /\ SendSame
  <1> USE TypedShape
  <1> DEFINE A == {s_batch_header(output), s_output, s_kernel_network_out}
             S == {m_axis_tcp_tx_meta, s_axis_tcp_tx_status, m_axis_tcp_tx_data}
  <1>f. ASSUME NEW C, Streams(C), NEW p \in {handshake, consume}, NEW x, Moves(p, x),
               UNCHANGED <<left, request>>, C \cap A = {}, C \cap S = {}
        PROVE  AnswerSame /\ SendSame
    <2>1. p \in Process /\ {p} \cap {output, search} = {} /\ {p} \cap {send, stack} = {}
      BY AllProcesses, ProcessNames
    <2> QED BY <1>f, <2>1, Others, Frame
  <1>g. ASSUME NEW C, Streams(C), UNCHANGED <<left, request>>, C \cap A = {}, C \cap S = {},
               DOMAIN at' = Process, \A q \in Process \ {stack, host} : at'[q] = at[q],
               at'[stack].accepted = at[stack].accepted
        PROVE  AnswerSame /\ SendSame
    <2>1. {stack, host} \cap {output, search} = {}
      BY ProcessNames
    <2>2. AnswerSame
      BY <1>g, <2>1, Frame
    <2>3. at'[send] = at[send]
      BY <1>g, AllProcesses, ProcessNames
    <2>4. \A c \in S : fifo'[c] = fifo[c]
      BY <1>g, AllStreams DEF Streams
    <2> QED BY <1>g, <2>2, <2>3, <2>4 DEF SendSame
  <1>1. CASE recvData_handshake
    <2> DEFINE C == {s_axis_tcp_notification, s_consumeDataReady, m_axis_tcp_read_pkg,
                     nextRxPacketLength}
    <2>1. C \cap A = {} /\ C \cap S = {}
      BY Names
    <2>2. Streams(C) /\ UNCHANGED <<left, request>> /\ \E x : Moves(handshake, x)
      BY <1>1, HandshakeEffect
    <2> QED BY <1>f, <2>1, <2>2
  <1>2. CASE consume_start
    <2>1. {s_consumeDataReady} \cap A = {} /\ {s_consumeDataReady} \cap S = {}
      BY Names
    <2>2. Streams({s_consumeDataReady}) /\ UNCHANGED <<left, request>> /\ \E x : Moves(consume, x)
      BY <1>2, ConsumeStartEffect
    <2> QED BY <1>f, <2>1, <2>2
  <1>3. CASE consume_meta
    <2> DEFINE C == {s_axis_tcp_rx_meta, nextRxPacketLength}
    <2>1. C \cap A = {} /\ C \cap S = {}
      BY Names
    <2>2. Streams(C) /\ UNCHANGED <<left, request>> /\ \E x : Moves(consume, x)
      BY <1>3, ConsumeMetaEffect
    <2> QED BY <1>f, <2>1, <2>2
  <1>4. CASE consume_word
    <2> DEFINE C == {s_axis_tcp_rx_data, s_kernel_network_in, s_consumeDataReady}
    <2>1. C \cap A = {} /\ C \cap S = {}
      BY Names
    <2>2. Streams(C) /\ UNCHANGED <<left, request>> /\ \E x : Moves(consume, x)
      BY <1>4, ConsumeWordEffect
    <2> QED BY <1>f, <2>1, <2>2
  <1>t. at[stack] \in [buffer : Seq(Unit), packet : Seq(Word), accepted : Seq(Nat),
                       zeros : Nat, retries : Nat]
    BY TypedLocals
  <1>5. CASE stack_zero
    <2>1. {s_axis_tcp_notification} \cap A = {} /\ {s_axis_tcp_notification} \cap S = {}
      BY Names
    <2>2. /\ Streams({s_axis_tcp_notification}) /\ UNCHANGED <<left, request>>
          /\ Moves(stack, [at[stack] EXCEPT !.zeros = @ + 1])
      BY <1>5, StackZeroEffect
    <2>3. at'[stack].accepted = at[stack].accepted
      BY <1>t, <2>2 DEF Moves
    <2>4. DOMAIN at' = Process /\ \A q \in Process \ {stack, host} : at'[q] = at[q]
      BY <2>2 DEF Moves
    <2> QED BY <1>g, <2>1, <2>2, <2>3, <2>4
  <1>6. CASE stack_read
    <2> DEFINE C == {m_axis_tcp_read_pkg, s_axis_tcp_rx_meta}
               n == Head(fifo[m_axis_tcp_read_pkg])
               p == Chunks(SubSeq(at[stack].buffer, 1, n), WORD)
               b == SubSeq(at[stack].buffer, n + 1, Len(at[stack].buffer))
    <2>1. C \cap A = {} /\ C \cap S = {}
      BY Names
    <2>2. /\ Streams(C) /\ UNCHANGED <<left, request>>
          /\ Moves(stack, [at[stack] EXCEPT !.packet = p, !.buffer = b])
      BY <1>6, StackReadEffect
    <2> HIDE DEF p, b
    <2>3. at'[stack].accepted = at[stack].accepted
      BY <1>t, <2>2 DEF Moves
    <2>4. DOMAIN at' = Process /\ \A q \in Process \ {stack, host} : at'[q] = at[q]
      BY <2>2 DEF Moves
    <2> QED BY <1>g, <2>1, <2>2, <2>3, <2>4
  <1>7. CASE stack_word
    <2>1. {s_axis_tcp_rx_data} \cap A = {} /\ {s_axis_tcp_rx_data} \cap S = {}
      BY Names
    <2>2. /\ Streams({s_axis_tcp_rx_data}) /\ UNCHANGED <<left, request>>
          /\ Moves(stack, [at[stack] EXCEPT !.packet = Tail(@)])
      BY <1>7, StackWordEffect
    <2>3. at'[stack].accepted = at[stack].accepted
      BY <1>t, <2>2 DEF Moves
    <2>4. DOMAIN at' = Process /\ \A q \in Process \ {stack, host} : at'[q] = at[q]
      BY <2>2 DEF Moves
    <2> QED BY <1>g, <2>1, <2>2, <2>3, <2>4
  <1>8. CASE host_send
    <2>1. {s_axis_tcp_notification} \cap A = {} /\ {s_axis_tcp_notification} \cap S = {}
      BY Names
    <2> DEFINE l == at[host]
               before == SumTo(request.segments, l.segment - 1)
               b == at[stack].buffer \o SubSeq(QueryUnits(l.query), before + 1,
                                               before + request.segments[l.segment])
    <2>2. /\ Streams({s_axis_tcp_notification}) /\ UNCHANGED <<left, request>>
          /\ DOMAIN at' = Process /\ \A q \in Process \ {stack, host} : at'[q] = at[q]
          /\ at'[stack] = [at[stack] EXCEPT !.buffer = b]
      BY <1>8, HostEffect
    <2> HIDE DEF b
    <2>3. at'[stack].accepted = at[stack].accepted
      BY <1>t, <2>2
    <2> QED BY <1>g, <2>1, <2>2, <2>3
  <1> QED BY <1>1, <1>2, <1>3, <1>4, <1>5, <1>6, <1>7, <1>8 DEF recvData_consumeData

LEMMA ConsumeFrame ==
  ASSUME TypeOK, consume_start \/ consume_meta
  PROVE  ReceiveSame
  <1> DEFINE W == {s_axis_tcp_notification, m_axis_tcp_read_pkg,
                   s_axis_tcp_rx_data, s_kernel_network_in}
             C == {s_consumeDataReady, s_axis_tcp_rx_meta, nextRxPacketLength}
  <1>1. C \cap W = {} /\ {consume} \cap {search, stack, host} = {} /\ consume \in Process
    BY Names, ProcessNames, AllProcesses
  <1>2. /\ Streams({s_consumeDataReady}) \/ Streams({s_axis_tcp_rx_meta, nextRxPacketLength})
        /\ UNCHANGED <<left, request>> /\ \E x : Moves(consume, x)
    BY TypedShape, ConsumeStartEffect, ConsumeMetaEffect
  <1>3. Streams(C)
    BY <1>2 DEF Streams
  <1> QED BY <1>1, <1>2, <1>3, Others, Frame

LEMMA AnswerFrame ==
  ASSUME TypeOK, search_word \/ search_result \/ network_output_processing
  PROVE  SendSame /\ (search_result \/ network_output_processing => ReceiveSame)
  <1> DEFINE W == {s_axis_tcp_notification, m_axis_tcp_read_pkg,
                   s_axis_tcp_rx_data, s_kernel_network_in}
             S == {m_axis_tcp_tx_meta, s_axis_tcp_tx_status, m_axis_tcp_tx_data}
             C == {s_batch_header(output), s_output, s_kernel_network_out}
  <1>1. C \cap W = {} /\ C \cap S = {} /\ {s_kernel_network_in} \cap S = {}
    BY Names
  <1>2. /\ {search, output} \cap {send, stack} = {} /\ {output} \cap {search, stack, host} = {}
        /\ search # stack /\ search # host /\ search # send
        /\ search \in Process /\ output \in Process /\ stack \in Process /\ host \in Process
    BY ProcessNames, AllProcesses
  <1>3. ASSUME search_word PROVE SendSame
    <2>1. /\ Streams({s_kernel_network_in, s_batch_header(output)}) /\ UNCHANGED request
          /\ \E x : Moves(search, x)
      BY <1>3, TypedShape, SearchWordEffect
    <2>2. at'[send] = at[send] /\ at'[stack] = at[stack]
      BY <1>2, <2>1, AllProcesses DEF Moves
    <2>3. \A c \in S : fifo'[c] = fifo[c]
      BY <1>1, <2>1, AllStreams DEF Streams
    <2> QED BY <1>3, <2>1, <2>2, <2>3 DEF SendSame
  <1>4. ASSUME search_result PROVE SendSame /\ ReceiveSame
    <2>1. /\ Streams({s_output}) /\ UNCHANGED request
          /\ Moves(search, [at[search] EXCEPT !.left = @ - 1])
      BY <1>4, TypedShape, SearchResultEffect
    <2>2. at'[send] = at[send] /\ at'[stack] = at[stack] /\ at'[host] = at[host]
      BY <1>2, <2>1, AllProcesses DEF Moves
    <2>3. at'[search].words = at[search].words /\ at'[search].query = at[search].query
      <3>1. at[search] \in [words : Seq(Word), query : Nat, left : 0 .. TOPK]
        BY TypedLocals
      <3> QED BY <2>1, <3>1 DEF Moves
    <2>4. /\ \A c \in S : c \in Stream /\ c # s_output
          /\ \A c \in W : c \in Stream /\ c # s_output
      BY <1>1, AllStreams
    <2>5. \A c \in S \cup W : fifo'[c] = fifo[c]
      <3> HIDE DEF S, W
      <3> QED BY <2>1, <2>4 DEF Streams
    <2> QED BY <2>1, <2>2, <2>3, <2>5 DEF SendSame, ReceiveSame
  <1>5. ASSUME Streams(C), UNCHANGED request, DOMAIN at' = Process,
               \A q \in Process \ {output} : at'[q] = at[q]
        PROVE  SendSame /\ ReceiveSame
    <2>1. /\ at'[send] = at[send] /\ at'[stack] = at[stack] /\ at'[host] = at[host]
          /\ at'[search] = at[search]
      BY <1>2, <1>5, AllProcesses
    <2>2. \A c \in S \cup W : c \in Stream /\ c \notin C
      BY <1>1, AllStreams
    <2>3. \A c \in S \cup W : fifo'[c] = fifo[c]
      <3> HIDE DEF S, W, C
      <3> QED BY <1>5, <2>2 DEF Streams
    <2> QED BY <1>5, <2>1, <2>3 DEF SendSame, ReceiveSame
  <1>6. ASSUME read_header(output), UNCHANGED <<at, request>> PROVE SendSame /\ ReceiveSame
    <2>1. Streams({s_batch_header(output)})
      BY <1>6, TypedShape, HeaderEffect
    <2>2. Streams(C)
      BY <2>1 DEF Streams
    <2> QED BY <1>5, <1>6, <2>2 DEF TypeOK
  <1>7. ASSUME output_result PROVE SendSame /\ ReceiveSame
    <2>1. Streams({s_output}) /\ UNCHANGED request /\ \E x : Moves(output, x)
      BY <1>7, TypedShape, OutputResultEffect
    <2>2. Streams(C)
      BY <2>1 DEF Streams
    <2> QED BY <1>2, <1>5, <2>1, <2>2, Others
  <1>8. ASSUME output_word PROVE SendSame /\ ReceiveSame
    <2>1. Streams({s_kernel_network_out}) /\ UNCHANGED request /\ \E x : Moves(output, x)
      BY <1>8, TypedShape, OutputWordEffect
    <2>2. Streams(C)
      BY <2>1 DEF Streams
    <2> QED BY <1>2, <1>5, <2>1, <2>2, Others
  <1> QED BY <1>3, <1>4, <1>6, <1>7, <1>8 DEF network_output_processing

LEMMA SendFrame ==
  ASSUME TypeOK, sendDataProtected \/ stack_status
  PROVE  /\ ReceiveSame
         /\ send_first \/ send_next \/ send_status \/ stack_status => AnswerSame
  <1> USE TypedShape
  <1> DEFINE W == {s_axis_tcp_notification, m_axis_tcp_read_pkg,
                   s_axis_tcp_rx_data, s_kernel_network_in}
             A == {s_batch_header(output), s_output, s_kernel_network_out}
             C == {m_axis_tcp_tx_meta, s_axis_tcp_tx_status}
  <1>1. C \cap W = {} /\ C \cap A = {}
        /\ {s_kernel_network_out, m_axis_tcp_tx_data} \cap W = {}
    BY Names
  <1>2. /\ {send} \cap {search, stack, host} = {} /\ {send} \cap {output, search} = {}
        /\ send \in Process
    BY ProcessNames, AllProcesses
  <1>3. ASSUME send_first \/ send_next PROVE ReceiveSame /\ AnswerSame
    <2>1. Streams({m_axis_tcp_tx_meta}) /\ UNCHANGED <<left, request>> /\ \E x : Moves(send, x)
      BY <1>3, AnnounceEffect
    <2>2. Streams(C)
      BY <2>1 DEF Streams
    <2> QED BY <1>1, <1>2, <2>1, <2>2, Others, Frame
  <1>4. ASSUME send_status PROVE ReceiveSame /\ AnswerSame
    <2>1. Streams(C) /\ UNCHANGED <<left, request>> /\ \E x : Moves(send, x)
      BY <1>4, StatusEffect
    <2> QED BY <1>1, <1>2, <2>1, Others, Frame
  <1>5. ASSUME send_word PROVE ReceiveSame
    <2>1. /\ Streams({s_kernel_network_out, m_axis_tcp_tx_data}) /\ UNCHANGED <<left, request>>
          /\ \E x : Moves(send, x)
      BY <1>5, SendWordEffect
    <2> QED BY <1>1, <1>2, <1>5, <2>1, Others, Frame
  <1>6. ASSUME stack_status PROVE ReceiveSame /\ AnswerSame
    <2> DEFINE m == Head(fifo[m_axis_tcp_tx_meta])
    <2>1. /\ Streams(C) /\ UNCHANGED <<left, request>>
          /\ \/ UNCHANGED at
             \/ Moves(stack, [at[stack] EXCEPT !.accepted = Append(@, m.length)])
             \/ Moves(stack, [at[stack] EXCEPT !.retries = @ + 1])
      BY <1>6, StackStatusEffect
    <2>2. at[stack] \in [buffer : Seq(Unit), packet : Seq(Word), accepted : Seq(Nat),
                         zeros : Nat, retries : Nat] /\ DOMAIN at = Process
      BY TypedLocals DEF TypeOK
    <2>3. /\ DOMAIN at' = Process /\ \A q \in Process \ {stack} : at'[q] = at[q]
          /\ at'[stack].buffer = at[stack].buffer /\ at'[stack].packet = at[stack].packet
      BY <2>1, <2>2 DEF Moves
    <2>4. {stack} \cap {output, search} = {} /\ stack # search /\ stack # host
      BY ProcessNames
    <2>5. AnswerSame
      BY <1>1, <2>1, <2>3, <2>4, Frame
    <2>6. \A c \in W : fifo'[c] = fifo[c]
      BY <1>1, <2>1, AllStreams DEF Streams
    <2>7. ReceiveSame
      BY <2>1, <2>3, <2>4, <2>6, AllProcesses DEF ReceiveSame
    <2> QED BY <2>5, <2>7
  <1> QED BY <1>3, <1>4, <1>5, <1>6 DEF sendDataProtected


-----------------------------------------------------------------------------
(* The type invariant.                                                     *)

\* The lengths of packets are whole words.
Lengths == {k * WORD : k \in Nat \ {0}}

\* What was notified and is not yet passed to the kernel is in the stack.
BytesAsked ==
  Len(at[stack].buffer) = Sum(fifo[s_axis_tcp_notification]) + Sum(fifo[m_axis_tcp_read_pkg])

SendState ==
  LET l == at[send]
  IN  /\ l.phase = "data" <=> l.todo > 0
      /\ l.phase = "next" => l.sentByteCnt < expectedTxByteCnt
      /\ l.sentByteCnt \in Lengths \cup {0} /\ l.length \in Lengths \cup {0}
      /\ fifo[m_axis_tcp_tx_meta] \in Seq([sessionID : SessionID, length : Lengths])
      /\ fifo[s_axis_tcp_tx_status]
           \in Seq([sessionID : SessionID, length : Lengths, error : 0 .. 2])

\* The header is written before the results are read, the rest after that.
OutputState ==
  LET l == at[output]
  IN  /\ l.phase = "idle" <=> l.word = 1
      /\ l.phase = "idle" => l.results = <<>>
      /\ l.phase = "results" => l.word = 2 /\ Len(l.results) < TOPK
      /\ l.phase = "words" => Len(l.results) = TOPK

HostState ==
  LET l == at[host]
  IN  /\ l.query <= request.queries + 1 /\ l.segment <= Len(request.segments)
      /\ l.query = request.queries + 1 => l.segment = 1

TypeInv == TypeOK /\ BytesAsked /\ SendState /\ OutputState /\ HostState

LEMMA QueueTake ==
  ASSUME NEW S, NEW a, fifo[a] \in Seq(S), Takes(a)
  PROVE  Head(fifo[a]) \in S /\ fifo'[a] \in Seq(S)
BY DEF Takes

LEMMA QueueWrite ==
  ASSUME NEW S, NEW b, NEW v \in S, fifo[b] \in Seq(S), Writes(b, v)
  PROVE  fifo'[b] \in Seq(S)
BY DEF Writes

\* Whole words.
LEMMA WholeWords ==
  ASSUME TypeOK
  PROVE  /\ \A n \in Lengths : /\ n \in Nat \ {0} /\ n \div WORD \in Nat \ {0}
                               /\ (n \div WORD) * WORD = n
         /\ \A m, n \in Lengths \cup {0} : /\ m + n \in Lengths \cup {0}
                                           /\ m < n => n - m \in Lengths
         /\ pkgLength \in Lengths /\ expectedTxByteCnt \in Lengths \cup {0}
  <1>1. WORD \in Nat \ {0} /\ request.pkgWordCount \in Nat \ {0}
        /\ request.expectedTxPkgCnt \in Nat
    BY Numbers
  <1>2. ASSUME NEW n \in Lengths
        PROVE  n \in Nat \ {0} /\ n \div WORD \in Nat \ {0} /\ (n \div WORD) * WORD = n
    <2>1. PICK k \in Nat \ {0} : n = k * WORD
      BY DEF Lengths
    <2>2. n \in Nat \ {0}
      BY <1>1, <2>1
    <2>3. n \div WORD = k
      <3>1. 0 \in 0 .. WORD - 1 /\ k * WORD + 0 = n /\ k \in Nat
        BY <1>1, <2>1, <2>2
      <3> QED BY <1>1, <3>1, Division
    <2> QED BY <2>1, <2>2, <2>3
  <1>3. ASSUME NEW m \in Lengths \cup {0}, NEW n \in Lengths \cup {0}
        PROVE  m + n \in Lengths \cup {0} /\ (m < n => n - m \in Lengths)
    <2>1. PICK j \in Nat : m = j * WORD
      BY <1>1 DEF Lengths
    <2>2. PICK k \in Nat : n = k * WORD
      BY <1>1 DEF Lengths
    <2>3. m + n \in Lengths \cup {0}
      <3>1. m + n = (j + k) * WORD
        BY <1>1, <2>1, <2>2
      <3>2. CASE j + k = 0
        BY <1>1, <3>1, <3>2
      <3>3. CASE j + k # 0
        <4>1. j + k \in Nat \ {0}
          BY <3>3
        <4> QED BY <3>1, <4>1 DEF Lengths
      <3> QED BY <3>2, <3>3
    <2>4. ASSUME m < n PROVE n - m \in Lengths
      <3>1. j < k
        <4> SUFFICES ASSUME k <= j PROVE FALSE
          OBVIOUS
        <4>1. k * WORD <= j * WORD
          BY <1>1
        <4>2. j * WORD \in Nat /\ k * WORD \in Nat
          BY <1>1
        <4> QED BY <2>1, <2>2, <2>4, <4>1, <4>2
      <3>2. k - j \in Nat \ {0} /\ n - m = (k - j) * WORD
        BY <1>1, <2>1, <2>2, <3>1
      <3> QED BY <3>2 DEF Lengths
    <2> QED BY <2>3, <2>4
  <1>4. pkgLength \in Lengths
    BY <1>1 DEF pkgLength, Lengths
  <1>5. expectedTxByteCnt \in Lengths \cup {0}
    <2>1. expectedTxByteCnt = (request.expectedTxPkgCnt * request.pkgWordCount) * WORD
      BY <1>1 DEF expectedTxByteCnt, pkgLength
    <2>2. request.expectedTxPkgCnt * request.pkgWordCount \in Nat
      BY <1>1
    <2>3. CASE request.expectedTxPkgCnt * request.pkgWordCount = 0
      BY <1>1, <2>1, <2>3
    <2>4. CASE request.expectedTxPkgCnt * request.pkgWordCount # 0
      <3>1. request.expectedTxPkgCnt * request.pkgWordCount \in Nat \ {0}
        BY <2>2, <2>4
      <3> DEFINE k == request.expectedTxPkgCnt * request.pkgWordCount
      <3>2. k \in Nat \ {0} /\ expectedTxByteCnt = k * WORD
        BY <2>1, <3>1
      <3> HIDE DEF k
      <3> QED BY <3>2 DEF Lengths
    <2> QED BY <2>3, <2>4
  <1> QED BY <1>2, <1>3, <1>4, <1>5

\* An answer has more than one word, and its words are what they should be.
LEMMA AnswerWords ==
  /\ ID_WORDS \in Nat \ {0} /\ DIST_WORDS \in Nat \ {0} /\ ANSWER_WORDS \in Nat
  /\ ANSWER_WORDS >= 3
  <1>1. TOPK \in Nat \ {0} /\ IDS_PER_WORD \in Nat \ {0} /\ DISTS_PER_WORD \in Nat \ {0}
    BY GlueAssumption
  <1>2. ASSUME NEW d \in Nat \ {0} PROVE Ceil(TOPK, d) \in Nat \ {0}
    <2> DEFINE p == TOPK + d - 1
               q == p \div d
               r == p % d
    <2>1. p \in Nat /\ p >= d
      BY <1>1
    <2>2. q \in Nat /\ r \in 0 .. d - 1 /\ p = q * d + r
      <3> HIDE DEF p
      <3> QED BY <2>1, Quotient
    <2>3. q # 0
      <3> SUFFICES ASSUME q = 0 PROVE FALSE
        OBVIOUS
      <3> HIDE DEF p, q, r
      <3>1. p = r
        BY <2>2
      <3> QED BY <2>1, <2>2, <3>1
    <2> QED BY <2>2, <2>3 DEF Ceil
  <1>3. ID_WORDS \in Nat \ {0} /\ DIST_WORDS \in Nat \ {0}
    BY <1>1, <1>2 DEF ID_WORDS, DIST_WORDS
  <1> QED BY <1>3 DEF ANSWER_WORDS

\* A word of an answer holds results, or padding.
LEMMA AnswerWordType ==
  ASSUME NEW results \in Seq(Nat \X Nat), NEW w \in 1 .. ANSWER_WORDS,
         w > 1 => Len(results) = TOPK
  PROVE  AnswerWord(results, w) \in OutWord
  <1> DEFINE Part(n, j) == [k \in 1 .. n |->
                       LET r == (j - 1) * n + k
                       IN  IF r <= TOPK THEN results[r] ELSE NoResult]
  <1>1. TOPK \in Nat \ {0} /\ IDS_PER_WORD \in Nat \ {0} /\ DISTS_PER_WORD \in Nat \ {0}
        /\ ID_WORDS \in Nat \ {0} /\ DIST_WORDS \in Nat \ {0}
        /\ ANSWER_WORDS = 1 + ID_WORDS + DIST_WORDS
    BY GlueAssumption, AnswerWords DEF ANSWER_WORDS
  <1>2. ASSUME NEW n \in Nat \ {0}, NEW j \in Nat \ {0}, Len(results) = TOPK
        PROVE  Part(n, j) \in Seq(Nat \X Nat)
    <2>1. ASSUME NEW k \in 1 .. n
          PROVE  (IF (j - 1) * n + k <= TOPK THEN results[(j - 1) * n + k] ELSE NoResult)
                   \in Nat \X Nat
      <3>1. (j - 1) * n \in Nat
        BY <1>2
      <3>2. (j - 1) * n + k \in Nat \ {0}
        BY <3>1
      <3>3. NoResult \in Nat \X Nat
        BY DEF NoResult, Result
      <3>4. CASE (j - 1) * n + k <= TOPK
        <4>1. (j - 1) * n + k \in 1 .. Len(results)
          BY <1>1, <1>2, <3>2, <3>4
        <4> QED BY <3>4, <4>1
      <3> QED BY <3>3, <3>4
    <2> QED BY <2>1
  <1>3. CASE w = 1
    <2>1. AnswerWord(results, w) = [kind |-> "topK", content |-> <<>>]
      BY <1>3 DEF AnswerWord
    <2> QED BY <2>1 DEF OutWord
  <1>4. CASE w > 1 /\ w <= 1 + ID_WORDS
    <2>1. AnswerWord(results, w) = [kind |-> "vec_ID", content |-> Part(IDS_PER_WORD, w - 1)]
      BY <1>1, <1>4 DEF AnswerWord
    <2>2. Part(IDS_PER_WORD, w - 1) \in Seq(Nat \X Nat)
      <3> HIDE DEF Part
      <3>1. w - 1 \in Nat \ {0}
        BY <1>4
      <3> QED BY <1>1, <1>2, <1>4, <3>1
    <2> HIDE DEF Part
    <2> QED BY <2>1, <2>2 DEF OutWord
  <1>5. CASE w > 1 + ID_WORDS
    <2>1. AnswerWord(results, w)
            = [kind |-> "dist", content |-> Part(DISTS_PER_WORD, w - 1 - ID_WORDS)]
      BY <1>1, <1>5 DEF AnswerWord
    <2>2. Part(DISTS_PER_WORD, w - 1 - ID_WORDS) \in Seq(Nat \X Nat)
      <3> HIDE DEF Part
      <3>1. w - 1 - ID_WORDS \in Nat \ {0} /\ w > 1
        BY <1>1, <1>5
      <3> QED BY <1>1, <1>2, <3>1
    <2> HIDE DEF Part
    <2> QED BY <2>1, <2>2 DEF OutWord
  <1> QED BY <1>1, <1>3, <1>4, <1>5

\* What of a query is still to be sent.
LEMMA Segments ==
  ASSUME TypeOK, HostState
  PROVE  LET l == at[host]
             before == SumTo(request.segments, l.segment - 1)
             n == request.segments[l.segment]
         IN  /\ l.segment \in 1 .. Len(request.segments) /\ Len(request.segments) \in Nat
             /\ before \in Nat /\ n \in Nat \ {0}
             /\ SumTo(request.segments, l.segment) = before + n
             /\ before + n <= QUERY_WORDS * WORD /\ QUERY_WORDS * WORD \in Nat
             /\ l.segment = Len(request.segments) => before + n = QUERY_WORDS * WORD
  <1> DEFINE l == at[host]
             s == request.segments
             g == l.segment
  <1>1. /\ s \in Seq(Nat \ {0}) /\ s \in Seq(Nat) /\ Sum(s) = QUERY_WORDS * WORD
        /\ QUERY_WORDS * WORD \in Nat
    BY Numbers
  <1>2. g \in 1 .. Len(s) /\ Len(s) \in Nat
    <2>1. at[host] \in [query : Nat \ {0}, segment : Nat \ {0}]
      BY TypedLocals
    <2> QED BY <1>1, <2>1 DEF HostState
  <1> HIDE DEF s, g
  <1>3. s[g] \in Nat \ {0}
    BY <1>1, <1>2
  <1>4. g - 1 \in Nat /\ (g - 1) + 1 = g
    BY <1>2
  <1>5. SumTo(s, g) = SumTo(s, g - 1) + s[g]
    BY <1>4, SumStep
  <1>6. SumTo(s, g - 1) \in Nat /\ SumTo(s, g) <= SumTo(s, Len(s)) /\ SumTo(s, g) \in Nat
    <2>1. g - 1 \in 0 .. Len(s) /\ g \in 0 .. Len(s) /\ Len(s) \in g .. Len(s)
      BY <1>2
    <2> QED BY <1>1, <2>1, SumNat, SumGrows
  <1>7. SumTo(s, Len(s)) = QUERY_WORDS * WORD
    BY <1>1 DEF Sum
  <1> QED BY <1>1, <1>2, <1>3, <1>5, <1>6, <1>7 DEF s, g

\* The units of a query.
LEMMA UnitsOf ==
  ASSUME NEW q \in Nat, NEW a \in Nat, NEW b \in Nat, QUERY_WORDS * WORD \in Nat,
         b <= QUERY_WORDS * WORD, a <= b
  PROVE  /\ SubSeq(QueryUnits(q), a + 1, b) \in Seq(Unit)
         /\ Len(SubSeq(QueryUnits(q), a + 1, b)) = b - a
         /\ \A j \in 1 .. b - a : SubSeq(QueryUnits(q), a + 1, b)[j] = <<q, a + j>>
  <1>1. \A i \in a + 1 .. b : QueryUnits(q)[i] = <<q, i>> /\ <<q, i>> \in Unit
    BY DEF QueryUnits, Unit
  <1> DEFINE m == a + 1
             s == QueryUnits(q)
  <1>2. m \in Int /\ b \in Int /\ \A i \in m .. b : s[i] \in Unit
    <2>1. ASSUME NEW i \in m .. b PROVE s[i] \in Unit
      <3>1. s[i] = <<q, i>> /\ <<q, i>> \in Unit
        BY <1>1
      <3> HIDE DEF s
      <3> QED BY <3>1
    <2> QED BY <2>1
  <1> HIDE DEF s
  <1>3. /\ SubSeq(s, m, b) \in Seq(Unit)
        /\ Len(SubSeq(s, m, b)) = IF m <= b THEN b - m + 1 ELSE 0
        /\ \A i \in 1 .. b - m + 1 : SubSeq(s, m, b)[i] = s[m + i - 1]
    <2> HIDE DEF m
    <2> QED BY <1>2, SubSeqProperties
  <1>4. Len(SubSeq(s, m, b)) = b - a
    BY <1>3
  <1>5. ASSUME NEW j \in 1 .. b - a PROVE SubSeq(s, m, b)[j] = <<q, a + j>>
    <2>1. j \in 1 .. b - m + 1 /\ m + j - 1 = a + j /\ a + j \in a + 1 .. b
      OBVIOUS
    <2>2. SubSeq(s, m, b)[j] = s[a + j]
      BY <1>3, <2>1
    <2> QED BY <1>1, <2>1, <2>2 DEF s
  <1> QED BY <1>3, <1>4, <1>5 DEF s


\* What is left alone keeps its part of the invariant.
LEMMA ReceiveKept == BytesAsked /\ HostState /\ ReceiveSame => BytesAsked' /\ HostState'
BY DEF BytesAsked, HostState, ReceiveSame

LEMMA OutputKept == OutputState /\ AnswerSame => OutputState'
BY DEF OutputState, AnswerSame

LEMMA SendKept == SendState /\ SendSame => SendState'
  <1> SUFFICES ASSUME SendState, SendSame PROVE SendState'
    OBVIOUS
  <1>1. at'[send] = at[send] /\ request' = request
        /\ fifo'[m_axis_tcp_tx_meta] = fifo[m_axis_tcp_tx_meta]
        /\ fifo'[s_axis_tcp_tx_status] = fifo[s_axis_tcp_tx_status]
    BY DEF SendSame
  <1>2. expectedTxByteCnt' = expectedTxByteCnt
    BY <1>1 DEF expectedTxByteCnt, pkgLength
  <1> QED BY <1>1, <1>2 DEF SendState

\* A step of one process.
LEMMA TypeMove ==
  ASSUME TypeOK, UNCHANGED request, left' \in [Process -> Nat], NEW C,
         Streams(C), \A c \in C : fifo'[c] \in Seq(Values(c)),
         NEW p \in Process, NEW x \in LocalType(p), Moves(p, x)
  PROVE  TypeOK'
  <1>1. DOMAIN at' = Process /\ \A q \in Process \ {p} : at'[q] = at[q]
    BY DEF Moves
  <1>2. \A q \in {p} : at'[q] \in LocalType(q)
    BY DEF Moves
  <1> DEFINE P == {p}
  <1>3. (\A q \in Process \ P : at'[q] = at[q]) /\ \A q \in P : at'[q] \in LocalType(q)
    BY <1>1, <1>2
  <1> HIDE DEF P
  <1> QED BY <1>1, <1>3, TypeStep

LEMMA LeftSame == TypeOK /\ UNCHANGED left => left' \in [Process -> Nat]
BY DEF TypeOK

\* Each step keeps the types and the part of the invariant it touches.
LEMMA HandshakeType ==
  ASSUME TypeInv, recvData_handshake PROVE TypeOK' /\ BytesAsked' /\ HostState'
  <1> DEFINE note == s_axis_tcp_notification
             ready == s_consumeDataReady
             pkg == m_axis_tcp_read_pkg
             next == nextRxPacketLength
             length == Head(fifo[note])
             x == [at[handshake] EXCEPT !.rxByteCnt = @ + length]
             C == {note, ready, pkg, next}
  <1>0. TypeOK /\ Shape /\ BytesAsked /\ HostState
    BY TypedShape DEF TypeInv
  <1>1. /\ Takes(note) /\ Streams(C)
        /\ Takes(ready) \/ fifo'[ready] = fifo[ready]
        /\ IF length = 0 THEN UNCHANGED <<fifo[pkg], fifo[next]>>
           ELSE Writes(pkg, length) /\ Writes(next, length)
        /\ Moves(handshake, x) /\ UNCHANGED <<left, request>>
    BY <1>0, HandshakeEffect
  <1>2. note \in Stream /\ ready \in Stream /\ pkg \in Stream /\ next \in Stream
    BY AllStreams
  <1>3. length \in Nat /\ fifo'[note] \in Seq(Values(note)) /\ fifo[note] \in Seq(Nat)
    BY <1>0, <1>1, <1>2, TypedTake, ValuesOf
  <1> HIDE DEF length
  <1>4. /\ fifo'[ready] \in Seq(Values(ready)) /\ fifo'[pkg] \in Seq(Values(pkg))
        /\ fifo'[next] \in Seq(Values(next))
    <2>1. fifo'[ready] \in Seq(Values(ready))
      BY <1>0, <1>1, <1>2, TypedTake, TypedSame
    <2>2. CASE length = 0
      BY <1>0, <1>1, <1>2, <2>1, <2>2, TypedSame
    <2>3. CASE length # 0
      <3>1. length \in Values(pkg) /\ length \in Values(next)
        BY <1>3, <2>3, ValuesOf
      <3> QED BY <1>0, <1>1, <1>2, <2>1, <2>3, <3>1, TypedWrite
    <2> QED BY <2>2, <2>3
  <1>5. x \in LocalType(handshake)
    <2>1. at[handshake] \in [rxByteCnt : Nat]
      BY <1>0, TypedLocals
    <2>2. x \in [rxByteCnt : Nat]
      BY <1>3, <2>1
    <2> HIDE DEF x
    <2> QED BY <2>2, LocalTypes, Zenon
  <1> HIDE DEF x
  <1>6. TypeOK'
    <2>1. \A c \in C : fifo'[c] \in Seq(Values(c))
      BY <1>3, <1>4
    <2>2. left' \in [Process -> Nat] /\ handshake \in Process
      BY <1>0, <1>1, LeftSame, AllProcesses
    <2> HIDE DEF C
    <2> QED BY <1>0, <1>1, <1>5, <2>1, <2>2, TypeMove
  <1>7. at'[stack] = at[stack] /\ at'[host] = at[host]
    BY <1>1, AllProcesses, ProcessNames DEF Moves
  <1>8. BytesAsked'
    <2>1. /\ Sum(fifo'[note]) = Sum(fifo[note]) - length /\ Sum(fifo[note]) \in Nat
      BY <1>1, <1>3, SumTail DEF Takes, length
    <2>2. fifo[pkg] \in Seq(Nat)
      <3>1. fifo[pkg] \in Seq(Nat \ {0})
        BY <1>0, <1>2, ValuesOf DEF TypeOK
      <3> QED BY <3>1
    <2>3. Sum(fifo'[pkg]) = Sum(fifo[pkg]) + length /\ Sum(fifo[pkg]) \in Nat
      <3>1. Sum(Append(fifo[pkg], length)) = Sum(fifo[pkg]) + length /\ Sum(fifo[pkg]) \in Nat
        BY <1>3, <2>2, SumAppend
      <3>2. CASE length = 0
        BY <1>1, <3>1, <3>2
      <3>3. CASE length # 0
        BY <1>1, <3>1, <3>3 DEF Writes
      <3> QED BY <3>2, <3>3
    <2>4. Len(at[stack].buffer) = Sum(fifo[note]) + Sum(fifo[pkg])
      BY <1>0 DEF BytesAsked
    <2> DEFINE a == Sum(fifo[note])
               b == Sum(fifo[pkg])
               a2 == Sum(fifo'[note])
               b2 == Sum(fifo'[pkg])
    <2>5. a2 + b2 = a + b
      <3>1. a \in Nat /\ b \in Nat /\ a2 = a - length /\ b2 = b + length
        BY <2>1, <2>3
      <3> HIDE DEF a, b, a2, b2
      <3> QED BY <1>3, <3>1
    <2> QED BY <1>7, <2>4, <2>5 DEF BytesAsked
  <1>9. HostState'
    BY <1>0, <1>1, <1>7 DEF HostState
  <1> QED BY <1>6, <1>8, <1>9

LEMMA ConsumeType ==
  ASSUME TypeInv, recvData_consumeData PROVE TypeOK'
  <1>0. TypeOK /\ Shape
    BY TypedShape DEF TypeInv
  <1>t. at[consume] \in [started : BOOLEAN, rxByteCnt : Nat, length : Nat]
    BY <1>0, TypedLocals
  <1>m. ASSUME NEW C, Streams(C), \A c \in C : fifo'[c] \in Seq(Values(c)), NEW x,
               x \in [started : BOOLEAN, rxByteCnt : Nat, length : Nat],
               Moves(consume, x), UNCHANGED <<left, request>>
        PROVE  TypeOK'
    <2>1. x \in LocalType(consume)
      BY <1>m, LocalTypes, Zenon
    <2>2. left' \in [Process -> Nat] /\ consume \in Process
      BY <1>0, <1>m, LeftSame, AllProcesses
    <2> QED BY <1>0, <1>m, <2>1, <2>2, TypeMove
  <1>1. CASE consume_start
    <2> DEFINE x == [at[consume] EXCEPT !.started = TRUE]
    <2>1. /\ Writes(s_consumeDataReady, 1) /\ Streams({s_consumeDataReady})
          /\ Moves(consume, x) /\ UNCHANGED <<left, request>>
      BY <1>0, <1>1, ConsumeStartEffect
    <2>2. x \in [started : BOOLEAN, rxByteCnt : Nat, length : Nat]
      BY <1>t
    <2>3. fifo'[s_consumeDataReady] \in Seq(Values(s_consumeDataReady))
      <3>1. 1 \in Values(s_consumeDataReady)
        BY ValuesOf
      <3> QED BY <1>0, <2>1, <3>1, AllStreams, TypedWrite
    <2> HIDE DEF x
    <2> QED BY <1>m, <2>1, <2>2, <2>3
  <1>2. CASE consume_meta
    <2> DEFINE next == nextRxPacketLength
               x == [at[consume] EXCEPT !.length = Head(fifo[next])]
    <2>1. /\ Takes(s_axis_tcp_rx_meta) /\ Takes(next) /\ Streams({s_axis_tcp_rx_meta, next})
          /\ Moves(consume, x) /\ UNCHANGED <<left, request>>
      BY <1>0, <1>2, ConsumeMetaEffect
    <2>2. /\ Head(fifo[next]) \in Values(next) /\ fifo'[next] \in Seq(Values(next))
          /\ fifo'[s_axis_tcp_rx_meta] \in Seq(Values(s_axis_tcp_rx_meta))
      BY <1>0, <2>1, AllStreams, TypedTake
    <2>3. x \in [started : BOOLEAN, rxByteCnt : Nat, length : Nat]
      <3>1. Head(fifo[next]) \in Nat
        BY <2>2, ValuesOf
      <3> QED BY <1>t, <3>1
    <2> HIDE DEF x
    <2>4. \A c \in {s_axis_tcp_rx_meta, next} : fifo'[c] \in Seq(Values(c))
      BY <2>2
    <2> QED BY <1>m, <2>1, <2>3, <2>4
  <1>3. CASE consume_word
    <2> DEFINE l == at[consume]
               data == s_axis_tcp_rx_data
               in == s_kernel_network_in
               ready == s_consumeDataReady
               word == Head(fifo[data])
               x == IF word.last
                    THEN [l EXCEPT !.rxByteCnt = l.rxByteCnt + l.length, !.length = 0] ELSE l
    <2>1. /\ Takes(data) /\ Writes(in, word.data) /\ Streams({data, in, ready})
          /\ Writes(ready, 1) \/ fifo'[ready] = fifo[ready]
          /\ Moves(consume, x) /\ UNCHANGED <<left, request>>
      BY <1>0, <1>3, ConsumeWordEffect
    <2>2. data \in Stream /\ in \in Stream /\ ready \in Stream
      BY AllStreams
    <2>3. word \in [data : Word, last : BOOLEAN] /\ fifo'[data] \in Seq(Values(data))
      BY <1>0, <2>1, <2>2, TypedTake, ValuesOf
    <2> HIDE DEF word
    <2>4. word.data \in Values(in) /\ 1 \in Values(ready)
      BY <2>3, ValuesOf
    <2>5. fifo'[in] \in Seq(Values(in)) /\ fifo'[ready] \in Seq(Values(ready))
      BY <1>0, <2>1, <2>2, <2>4, TypedWrite, TypedSame
    <2>6. x \in [started : BOOLEAN, rxByteCnt : Nat, length : Nat]
      <3>1. CASE word.last
        <4>1. l.rxByteCnt + l.length \in Nat
          BY <1>t
        <4>2. x = [l EXCEPT !.rxByteCnt = l.rxByteCnt + l.length, !.length = 0]
          BY <3>1
        <4> HIDE DEF x
        <4> QED BY <1>t, <4>1, <4>2
      <3>2. CASE ~ word.last
        BY <1>t, <3>2
      <3> QED BY <3>1, <3>2
    <2> HIDE DEF x
    <2>7. \A c \in {data, in, ready} : fifo'[c] \in Seq(Values(c))
      BY <2>3, <2>5
    <2> QED BY <1>m, <2>1, <2>6, <2>7
  <1> QED BY <1>1, <1>2, <1>3 DEF recvData_consumeData

LEMMA SearchType ==
  ASSUME TypeInv, search_word \/ search_result PROVE TypeOK'
  <1>0. TypeOK /\ Shape /\ TOPK \in Nat \ {0}
    BY TypedShape, Numbers DEF TypeInv
  <1> DEFINE l == at[search]
             T == [words : Seq(Word), query : Nat, left : 0 .. TOPK]
  <1>t. l \in T
    BY <1>0, TypedLocals
  <1>m. ASSUME NEW C, Streams(C), \A c \in C : fifo'[c] \in Seq(Values(c)), NEW x \in T,
               Moves(search, x), UNCHANGED <<left, request>>
        PROVE  TypeOK'
    <2>1. x \in LocalType(search)
      BY <1>m, LocalTypes, Zenon
    <2>2. left' \in [Process -> Nat] /\ search \in Process
      BY <1>0, <1>m, LeftSame, AllProcesses
    <2> QED BY <1>0, <1>m, <2>1, <2>2, TypeMove
  <1>1. CASE search_word
    <2> DEFINE in == s_kernel_network_in
               header == s_batch_header(output)
               words == Append(l.words, Head(fifo[in]))
               full == Len(words) = QUERY_WORDS
               x == IF full THEN [words |-> <<>>, query |-> l.query + 1, left |-> TOPK]
                    ELSE [l EXCEPT !.words = words]
    <2>1. /\ Takes(in) /\ Streams({in, header})
          /\ IF full THEN Writes(header, Header(1, 1)) ELSE fifo'[header] = fifo[header]
          /\ Moves(search, x) /\ UNCHANGED <<left, request>>
      BY <1>0, <1>1, SearchWordEffect
    <2>2. in \in Stream /\ header \in Stream
      BY AllStreams
    <2>3. Head(fifo[in]) \in Word /\ fifo'[in] \in Seq(Values(in))
      BY <1>0, <2>1, <2>2, TypedTake, ValuesOf
    <2>4. words \in Seq(Word)
      BY <1>t, <2>3
    <2> HIDE DEF words, full
    <2>5. fifo'[header] \in Seq(Values(header))
      <3>1. Header(1, 1) \in Values(header)
        BY ValuesOf
      <3> QED BY <1>0, <2>1, <2>2, <3>1, TypedWrite, TypedSame
    <2>6. x \in T
      <3>1. <<>> \in Seq(Word) /\ TOPK \in 0 .. TOPK
        BY <1>0
      <3> QED BY <1>t, <2>4, <3>1
    <2> HIDE DEF x, T
    <2>7. \A c \in {in, header} : fifo'[c] \in Seq(Values(c))
      BY <2>3, <2>5
    <2> QED BY <1>m, <2>1, <2>6, <2>7
  <1>2. CASE search_result
    <2> DEFINE v == Result(l.query, TOPK + 1 - l.left)
               x == [l EXCEPT !.left = @ - 1]
    <2>1. /\ l.left > 0 /\ Streams({s_output}) /\ Writes(s_output, v)
          /\ Moves(search, x) /\ UNCHANGED <<left, request>>
      BY <1>0, <1>2, SearchResultEffect
    <2>2. v \in Values(s_output)
      <3>1. v \in Nat \X Nat
        BY <1>0, <1>t DEF Result
      <3> HIDE DEF v
      <3> QED BY <3>1, ValuesOf
    <2>3. x \in T
      BY <1>0, <1>t, <2>1
    <2> HIDE DEF v, x, T
    <2>4. \A c \in {s_output} : fifo'[c] \in Seq(Values(c))
      BY <1>0, <2>1, <2>2, AllStreams, TypedWrite
    <2> QED BY <1>m, <2>1, <2>3, <2>4
  <1> QED BY <1>1, <1>2

LEMMA OutputType ==
  ASSUME TypeInv, network_output_processing PROVE TypeOK' /\ OutputState'
  <1>0. TypeOK /\ Shape /\ OutputState /\ TOPK \in Nat \ {0}
    BY TypedShape, Numbers DEF TypeInv
  <1> DEFINE l == at[output]
             T == [phase : {"idle", "results", "words"},
                   results : Seq(Nat \X Nat), word : 1 .. ANSWER_WORDS]
  <1>t. l \in T /\ left \in [Process -> Nat] /\ output \in Process
    BY <1>0, TypedLocals, AllProcesses DEF TypeOK
  <1>m. ASSUME NEW C, Streams(C), \A c \in C : fifo'[c] \in Seq(Values(c)), NEW x \in T,
               Moves(output, x), left' \in [Process -> Nat], UNCHANGED request
        PROVE  TypeOK' /\ at'[output] = x
    <2>1. x \in LocalType(output)
      BY <1>m, LocalTypes, Zenon
    <2>2. TypeOK'
      BY <1>0, <1>m, <1>t, <2>1, TypeMove
    <2> QED BY <1>m, <2>2 DEF Moves
  <1>1. CASE read_header(output) /\ UNCHANGED <<at, request>>
    <2> DEFINE header == s_batch_header(output)
               h == Head(fifo[header])
    <2>1. /\ Takes(header) /\ Streams({header})
          /\ IF h.terminate THEN UNCHANGED left
             ELSE left' = [left EXCEPT ![output] = h.batch_size]
      BY <1>0, <1>1, HeaderEffect
    <2>2. header \in Stream
      BY AllStreams
    <2>3. h = Header(1, 1) /\ fifo'[header] \in Seq(Values(header))
      BY <1>0, <2>1, <2>2, TypedTake, ValuesOf
    <2>4. h.batch_size = 1
      BY <2>3 DEF Header
    <2> HIDE DEF h
    <2>5. left' \in [Process -> Nat]
      BY <1>t, <2>1, <2>4
    <2>6. Moves(output, at[output])
      BY <1>0, <1>1 DEF Moves, TypeOK
    <2>7. \A c \in {header} : fifo'[c] \in Seq(Values(c))
      BY <2>3
    <2> HIDE DEF T
    <2>8. TypeOK' /\ at'[output] = at[output]
      BY <1>m, <1>t, <1>1, <2>1, <2>5, <2>6, <2>7
    <2> QED BY <1>0, <2>8 DEF OutputState
  <1>2. CASE output_result
    <2> DEFINE results == Append(l.results, Head(fifo[s_output]))
               x == [l EXCEPT !.results = results,
                              !.phase = IF Len(results) = TOPK THEN "words" ELSE "results"]
    <2>1. /\ l.phase = "results" /\ Takes(s_output) /\ Streams({s_output})
          /\ Moves(output, x) /\ UNCHANGED <<left, request>>
      BY <1>0, <1>2, OutputResultEffect
    <2>2. Head(fifo[s_output]) \in Nat \X Nat /\ fifo'[s_output] \in Seq(Values(s_output))
      BY <1>0, <2>1, AllStreams, TypedTake, ValuesOf
    <2>3. /\ results \in Seq(Nat \X Nat) /\ Len(results) = Len(l.results) + 1
          /\ Len(l.results) \in Nat
      BY <1>t, <2>2
    <2> HIDE DEF results
    <2>4. x \in T
      BY <1>t, <2>3
    <2>5. TypeOK' /\ at'[output] = x
      <3>1. \A c \in {s_output} : fifo'[c] \in Seq(Values(c))
        BY <2>2
      <3> HIDE DEF x, T
      <3> QED BY <1>m, <1>t, <2>1, <2>4, <3>1
    <2>6. l.word = 2 /\ Len(l.results) < TOPK
      BY <1>0, <2>1 DEF OutputState
    <2>7. x.word = 2 /\ x.results = results
          /\ x.phase = (IF Len(results) = TOPK THEN "words" ELSE "results")
      BY <1>t, <2>6
    <2> HIDE DEF x
    <2> QED BY <1>0, <2>3, <2>5, <2>6, <2>7 DEF OutputState
  <1>3. CASE output_word
    <2> DEFINE out == s_kernel_network_out
               last == l.word = ANSWER_WORDS
               v == AnswerWord(l.results, l.word)
               y == [l EXCEPT !.word = @ + 1,
                              !.phase = IF l.word = 1 THEN "results" ELSE "words"]
               x == IF last THEN Local(output) ELSE y
    <2>1. /\ left[output] > 0 /\ l.phase = (IF l.word = 1 THEN "idle" ELSE "words")
          /\ Writes(out, v) /\ Streams({out}) /\ Moves(output, x)
          /\ left' = (IF last THEN [left EXCEPT ![output] = @ - 1] ELSE left)
          /\ UNCHANGED request
      BY <1>0, <1>3, OutputWordEffect
    <2>2. v \in Values(out)
      <3>1. l.results \in Seq(Nat \X Nat) /\ l.word \in 1 .. ANSWER_WORDS
        BY <1>t
      <3>2. l.word > 1 => Len(l.results) = TOPK
        BY <1>0, <2>1, <3>1 DEF OutputState
      <3>3. v \in OutWord
        BY <3>1, <3>2, AnswerWordType
      <3> HIDE DEF v
      <3> QED BY <3>3, ValuesOf
    <2>3. Local(output) = [phase |-> "idle", results |-> <<>>, word |-> 1]
      BY ProcessNames DEF Local
    <2>4. ANSWER_WORDS \in Nat /\ ANSWER_WORDS >= 3
      BY AnswerWords
    <2>5. x \in T
      <3>1. CASE last
        BY <2>3, <2>4, <3>1
      <3>2. CASE ~ last
        <4>1. l.word + 1 \in 1 .. ANSWER_WORDS
          BY <1>t, <2>4, <3>2
        <4> DEFINE phase == IF l.word = 1 THEN "results" ELSE "words"
        <4>2. phase \in {"idle", "results", "words"} /\ x = [l EXCEPT !.word = @ + 1, !.phase = phase]
          BY <3>2
        <4> HIDE DEF phase, x
        <4> QED BY <1>t, <4>1, <4>2
      <3> QED BY <3>1, <3>2
    <2>6. left' \in [Process -> Nat]
      BY <1>t, <2>1
    <2>7. \A c \in {out} : fifo'[c] \in Seq(Values(c))
      <3> HIDE DEF v
      <3> QED BY <1>0, <2>1, <2>2, AllStreams, TypedWrite
    <2>8. TypeOK' /\ at'[output] = x
      <3> HIDE DEF x, T
      <3> QED BY <1>m, <2>1, <2>5, <2>6, <2>7
    <2>9. OutputState'
      <3>1. CASE last
        <4>1. at'[output] = [phase |-> "idle", results |-> <<>>, word |-> 1]
          BY <2>3, <2>8, <3>1
        <4> QED BY <4>1 DEF OutputState
      <3>2. CASE ~ last /\ l.word = 1
        <4>1. l.results = <<>>
          BY <1>0, <2>1, <3>2 DEF OutputState
        <4>2. y.phase = "results" /\ y.word = 2 /\ y.results = <<>>
          BY <1>t, <3>2, <4>1
        <4>3. at'[output] = y
          BY <2>8, <3>2
        <4> HIDE DEF y
        <4>4. Len(<<>>) = 0
          OBVIOUS
        <4> QED BY <1>0, <4>2, <4>3, <4>4 DEF OutputState
      <3>3. CASE ~ last /\ l.word # 1
        <4>1. Len(l.results) = TOPK
          BY <1>0, <2>1, <3>3 DEF OutputState
        <4>2. y.phase = "words" /\ y.word = l.word + 1 /\ y.results = l.results
              /\ l.word \in Nat
          BY <1>t, <3>3
        <4>3. at'[output] = y
          BY <2>8, <3>3
        <4>4. y.word # 1
          BY <1>t, <4>2
        <4> HIDE DEF y
        <4> QED BY <1>0, <4>1, <4>2, <4>3, <4>4 DEF OutputState
      <3> QED BY <3>1, <3>2, <3>3
    <2> QED BY <2>8, <2>9
  <1> QED BY <1>1, <1>2, <1>3 DEF network_output_processing


\* Announcements and the answers to them are typed as soon as they are whole.
LEMMA Negotiated ==
  ASSUME TypeOK
  PROVE  /\ [sessionID : SessionID, length : Lengths] \subseteq Values(m_axis_tcp_tx_meta)
         /\ [sessionID : SessionID, length : Lengths, error : 0 .. 2]
              \subseteq Values(s_axis_tcp_tx_status)
  <1>1. Lengths \subseteq Nat
    BY WholeWords
  <1>2. /\ [sessionID : SessionID, length : Lengths] \subseteq [sessionID : SessionID, length : Nat]
        /\ [sessionID : SessionID, length : Lengths, error : 0 .. 2]
             \subseteq [sessionID : SessionID, length : Nat, error : 0 .. 2]
    BY <1>1
  <1> QED BY <1>2, ValuesOf

LEMMA SendType ==
  ASSUME TypeInv, sendDataProtected PROVE TypeOK' /\ SendState'
  <1>0. TypeOK /\ Shape /\ SendState
    BY TypedShape DEF TypeInv
  <1> DEFINE l == at[send]
             meta == m_axis_tcp_tx_meta
             status == s_axis_tcp_tx_status
             out == s_kernel_network_out
             data == m_axis_tcp_tx_data
             L == Lengths \cup {0}
             T == [phase : {"first", "status", "data", "next", "done"},
                   sentByteCnt : Nat, length : Nat, todo : Nat]
             M == [sessionID : SessionID, length : Lengths]
             R == [sessionID : SessionID, length : Lengths, error : 0 .. 2]
  <1>t. l \in T /\ send \in Process
    BY <1>0, TypedLocals, AllProcesses
  <1>s. /\ l.phase = "data" <=> l.todo > 0
        /\ l.phase = "next" => l.sentByteCnt < expectedTxByteCnt
        /\ l.sentByteCnt \in L /\ l.length \in L
        /\ fifo[meta] \in Seq(M) /\ fifo[status] \in Seq(R)
    BY <1>0 DEF SendState
  <1>c. /\ meta \in Stream /\ status \in Stream /\ out \in Stream /\ data \in Stream
        /\ meta # status /\ meta # out /\ meta # data /\ status # out /\ status # data
        /\ out # data
    BY AllStreams, Names
  <1>m. ASSUME NEW C, Streams(C), \A c \in C : fifo'[c] \in Seq(Values(c)), NEW x \in T,
               Moves(send, x), UNCHANGED <<left, request>>
        PROVE  TypeOK' /\ at'[send] = x
    <2>1. x \in LocalType(send)
      BY <1>m, LocalTypes, Zenon
    <2>2. left' \in [Process -> Nat]
      BY <1>0, <1>m, LeftSame
    <2>3. TypeOK'
      BY <1>0, <1>m, <1>t, <2>1, <2>2, TypeMove
    <2> QED BY <1>m, <2>3 DEF Moves
  <1>w. ASSUME NEW S, NEW V, S \subseteq V, NEW s \in Seq(S) PROVE s \in Seq(V)
    BY <1>w
  <1>e. UNCHANGED request => expectedTxByteCnt' = expectedTxByteCnt
    BY DEF expectedTxByteCnt, pkgLength
  <1>1. CASE send_first \/ send_next
    <2> DEFINE x == [l EXCEPT !.phase = "status"]
    <2>1. PICK length :
            /\ \/ l.phase = "first" /\ length = pkgLength
               \/ l.phase = "next" /\ length = NextLength(l.sentByteCnt)
            /\ Writes(meta, Announce(length)) /\ Streams({meta}) /\ Moves(send, x)
            /\ UNCHANGED <<left, request>>
      BY <1>0, <1>1, AnnounceEffect
    <2>2. length \in Lengths
      <3>1. CASE l.phase = "first"
        BY <1>0, <2>1, <3>1, WholeWords
      <3>2. CASE l.phase = "next"
        <4>1. l.sentByteCnt < expectedTxByteCnt /\ l.sentByteCnt \in L
          BY <1>s, <3>2
        <4>2. expectedTxByteCnt - l.sentByteCnt \in Lengths /\ pkgLength \in Lengths
          BY <1>0, <4>1, WholeWords
        <4> QED BY <2>1, <3>2, <4>2 DEF NextLength
      <3> QED BY <2>1, <3>1, <3>2
    <2>3. Announce(length) \in M
      <3>1. at[open] \in [asked : BOOLEAN, answered : BOOLEAN, sessionID : SessionID]
        BY <1>0, TypedLocals
      <3> QED BY <2>2, <3>1 DEF Announce
    <2>4. fifo'[meta] \in Seq(M) /\ fifo'[status] = fifo[status]
      <3>1. fifo'[status] = fifo[status]
        BY <1>c, <2>1 DEF Streams
      <3> DEFINE v == Announce(length)
      <3>2. Writes(meta, v) /\ v \in M
        BY <2>1, <2>3
      <3> HIDE DEF v, M, R
      <3> QED BY <1>s, <3>1, <3>2, QueueWrite
    <2>5. \A c \in {meta} : fifo'[c] \in Seq(Values(c))
      BY <1>0, <1>w, <2>4, Negotiated
    <2>6. x \in T /\ l.todo = 0
      BY <1>s, <1>t, <2>1
    <2>7. TypeOK' /\ at'[send] = x
      <3> HIDE DEF x, T
      <3> QED BY <1>m, <2>1, <2>5, <2>6
    <2>8. x.phase = "status" /\ x.todo = 0 /\ x.sentByteCnt = l.sentByteCnt /\ x.length = l.length
      BY <1>t, <2>6
    <2> HIDE DEF x
    <2> QED BY <1>s, <2>4, <2>7, <2>8 DEF SendState
  <1>2. CASE send_status
    <2> DEFINE resp == Head(fifo[status])
               x == IF resp.error = 0
                    THEN [l EXCEPT !.phase = "data", !.length = resp.length,
                                   !.todo = resp.length \div WORD]
                    ELSE l
               again == [sessionID |-> resp.sessionID, length |-> resp.length]
    <2>1. /\ l.phase = "status" /\ Takes(status) /\ Streams({status, meta})
          /\ IF resp.error \in {0, 1} THEN fifo'[meta] = fifo[meta] ELSE Writes(meta, again)
          /\ Moves(send, x) /\ UNCHANGED <<left, request>>
      BY <1>0, <1>2, StatusEffect
    <2>2. resp \in R /\ fifo'[status] \in Seq(R)
      <3> HIDE DEF R
      <3> QED BY <1>s, <2>1, QueueTake
    <2> HIDE DEF resp
    <2>3. again \in M
      BY <2>2
    <2>4. fifo'[meta] \in Seq(M)
      <3> HIDE DEF again, M
      <3> QED BY <1>s, <2>1, <2>3, QueueWrite
    <2>5. \A c \in {status, meta} : fifo'[c] \in Seq(Values(c))
      <3>1. M \subseteq Values(meta) /\ R \subseteq Values(status)
        BY <1>0, Negotiated
      <3> HIDE DEF M, R
      <3>2. fifo'[meta] \in Seq(Values(meta)) /\ fifo'[status] \in Seq(Values(status))
        BY <1>w, <2>2, <2>4, <3>1
      <3> QED BY <3>2
    <2>6. resp.length \in Lengths /\ resp.length \in Nat /\ resp.length \div WORD \in Nat \ {0}
      BY <1>0, <2>2, WholeWords
    <2>7. /\ x \in T /\ (x.phase = "data" <=> x.todo > 0)
          /\ x.phase \in {"data", "status"} /\ x.sentByteCnt = l.sentByteCnt /\ x.length \in L
      <3>1. CASE resp.error = 0
        <4> DEFINE n == resp.length
                   d == n \div WORD
        <4>1. x = [l EXCEPT !.phase = "data", !.length = n, !.todo = d]
          BY <3>1
        <4>2. n \in Nat /\ n \in L /\ d \in Nat \ {0}
          BY <2>6
        <4>3. l.sentByteCnt \in Nat
          BY <1>t
        <4> HIDE DEF n, d, L
        <4>4. x \in T
          BY <1>t, <4>1, <4>2
        <4>5. x.phase = "data" /\ x.todo = d /\ x.sentByteCnt = l.sentByteCnt /\ x.length = n
          BY <1>t, <4>1
        <4> HIDE DEF x, T
        <4> QED BY <4>2, <4>4, <4>5
      <3>2. CASE resp.error # 0
        BY <1>s, <1>t, <2>1, <3>2
      <3> QED BY <3>1, <3>2
    <2> HIDE DEF x
    <2>8. TypeOK' /\ at'[send] = x
      <3> HIDE DEF T
      <3> QED BY <1>m, <2>1, <2>5, <2>7
    <2> QED BY <1>s, <2>2, <2>4, <2>7, <2>8 DEF SendState
  <1>3. CASE send_word
    <2> DEFINE sent == l.sentByteCnt + l.length
               full == l.todo = 1
               word == [data |-> Head(fifo[out]), last |-> is_last(l.todo)]
               phase == IF sent < expectedTxByteCnt THEN "next" ELSE "done"
               x == IF full THEN [l EXCEPT !.phase = phase, !.sentByteCnt = sent, !.todo = 0]
                    ELSE [l EXCEPT !.todo = @ - 1]
    <2>1. /\ l.phase = "data" /\ Takes(out) /\ Writes(data, word) /\ Streams({out, data})
          /\ Moves(send, x) /\ UNCHANGED <<left, request>>
      BY <1>0, <1>3, SendWordEffect
    <2>2. Head(fifo[out]) \in OutWord /\ fifo'[out] \in Seq(Values(out))
      BY <1>0, <1>c, <2>1, TypedTake, ValuesOf
    <2>3. word \in Values(data)
      BY <2>2, ValuesOf DEF is_last
    <2>4. \A c \in {out, data} : fifo'[c] \in Seq(Values(c))
      <3> HIDE DEF word
      <3> QED BY <1>0, <1>c, <2>1, <2>2, <2>3, TypedWrite
    <2>5. fifo'[meta] = fifo[meta] /\ fifo'[status] = fifo[status]
      BY <1>c, <2>1 DEF Streams
    <2>6. sent \in L /\ sent \in Nat
      <3>1. l.sentByteCnt + l.length \in Lengths \cup {0}
        BY <1>0, <1>s, WholeWords
      <3> QED BY <1>t, <3>1
    <2>7. l.todo \in Nat /\ l.todo > 0
      BY <1>s, <1>t, <2>1
    <2>8. /\ x \in T /\ (x.phase = "data" <=> x.todo > 0)
          /\ x.phase = "next" => x.sentByteCnt < expectedTxByteCnt
          /\ x.sentByteCnt \in L /\ x.length = l.length
      <3>1. CASE full
        <4>1. x = [l EXCEPT !.phase = phase, !.sentByteCnt = sent, !.todo = 0]
              /\ phase \in {"next", "done"} /\ (phase = "next" => sent < expectedTxByteCnt)
          BY <3>1
        <4> HIDE DEF x, sent, phase, L
        <4>2. x \in T
          <5>1. phase \in {"first", "status", "data", "next", "done"} /\ sent \in Nat
            BY <2>6, <4>1
          <5>2. x = [l EXCEPT !.phase = phase, !.sentByteCnt = sent, !.todo = 0]
            BY <4>1
          <5> QED BY <1>t, <5>1, <5>2
        <4>3. x.phase = phase /\ x.todo = 0 /\ x.sentByteCnt = sent /\ x.length = l.length
          BY <1>t, <4>1
        <4>4. x.phase # "data" /\ ~ (x.todo > 0)
          BY <4>1, <4>3
        <4> HIDE DEF T
        <4> QED BY <2>6, <4>1, <4>2, <4>3, <4>4
      <3>2. CASE ~ full
        <4>1. x = [l EXCEPT !.todo = l.todo - 1] /\ l.todo - 1 \in Nat /\ l.todo - 1 > 0
          BY <2>7, <3>2
        <4> HIDE DEF x, sent, L
        <4> QED BY <1>s, <1>t, <2>1, <4>1
      <3> QED BY <3>1, <3>2
    <2> HIDE DEF x
    <2>9. TypeOK' /\ at'[send] = x
      <3> HIDE DEF T
      <3> QED BY <1>m, <2>1, <2>4, <2>8
    <2> QED BY <1>e, <1>s, <2>1, <2>5, <2>8, <2>9 DEF SendState
  <1> QED BY <1>1, <1>2, <1>3 DEF sendDataProtected

LEMMA StackStatusType ==
  ASSUME TypeInv, stack_status PROVE TypeOK' /\ SendState'
  <1>0. TypeOK /\ Shape /\ SendState
    BY TypedShape DEF TypeInv
  <1> DEFINE l == at[stack]
             meta == m_axis_tcp_tx_meta
             status == s_axis_tcp_tx_status
             M == [sessionID : SessionID, length : Lengths]
             R == [sessionID : SessionID, length : Lengths, error : 0 .. 2]
             T == [buffer : Seq(Unit), packet : Seq(Word), accepted : Seq(Nat),
                   zeros : Nat, retries : Nat]
             m == Head(fifo[meta])
             Reply(error) == [sessionID |-> m.sessionID, length |-> m.length, error |-> error]
             x == [l EXCEPT !.accepted = Append(@, m.length)]
             y == [l EXCEPT !.retries = @ + 1]
  <1>t. l \in T /\ stack \in Process
    BY <1>0, TypedLocals, AllProcesses
  <1>s. /\ fifo[meta] \in Seq(M) /\ fifo[status] \in Seq(R)
        /\ meta \in Stream /\ status \in Stream
    BY <1>0, AllStreams DEF SendState
  <1>1. /\ Takes(meta) /\ Streams({meta, status})
        /\ \/ Writes(status, Reply(0)) /\ Moves(stack, x)
           \/ Writes(status, Reply(1)) /\ UNCHANGED at
           \/ Writes(status, Reply(2)) /\ Moves(stack, y)
        /\ UNCHANGED <<left, request>>
    BY <1>0, StackStatusEffect
  <1>2. m \in M /\ fifo'[meta] \in Seq(M)
    <2> HIDE DEF M
    <2> QED BY <1>1, <1>s, QueueTake
  <1>3. m.length \in Nat
    BY <1>0, <1>2, WholeWords
  <1>4. \A e \in 0 .. 2 : Reply(e) \in R
    <2> HIDE DEF m
    <2> QED BY <1>2
  <1>5. fifo'[status] \in Seq(R)
    <2>1. 0 \in 0 .. 2 /\ 1 \in 0 .. 2 /\ 2 \in 0 .. 2
      OBVIOUS
    <2>2. Reply(0) \in R /\ Reply(1) \in R /\ Reply(2) \in R
      <3> HIDE DEF Reply, R
      <3> QED BY <1>4, <2>1
    <2> HIDE DEF Reply, R
    <2> QED BY <1>1, <1>s, <2>2, QueueWrite
  <1>w. ASSUME NEW S, NEW V, S \subseteq V, NEW s \in Seq(S) PROVE s \in Seq(V)
    BY <1>w
  <1>6. \A c \in {meta, status} : fifo'[c] \in Seq(Values(c))
    <2>1. M \subseteq Values(meta) /\ R \subseteq Values(status)
      BY <1>0, Negotiated
    <2> HIDE DEF M, R
    <2>2. fifo'[meta] \in Seq(Values(meta)) /\ fifo'[status] \in Seq(Values(status))
      BY <1>w, <1>2, <1>5, <2>1
    <2> QED BY <2>2
  <1>7. x \in T /\ y \in T
    <2> DEFINE n == m.length
               a == Append(l.accepted, n)
               r == l.retries + 1
    <2>1. n \in Nat
      BY <1>3
    <2> HIDE DEF n
    <2>2. a \in Seq(Nat) /\ r \in Nat
      BY <1>t, <2>1
    <2>3. x = [l EXCEPT !.accepted = a] /\ y = [l EXCEPT !.retries = r]
      BY <1>t DEF n
    <2> HIDE DEF a, r
    <2> QED BY <1>t, <2>2, <2>3
  <1> HIDE DEF x, y, T, Reply
  <1>m. ASSUME NEW z \in T, Moves(stack, z)
        PROVE  TypeOK'
    <2>1. z \in LocalType(stack)
      BY <1>m, LocalTypes, Zenon DEF T
    <2>2. left' \in [Process -> Nat]
      BY <1>0, <1>1, LeftSame
    <2> QED BY <1>0, <1>1, <1>6, <1>m, <1>t, <2>1, <2>2, TypeMove
  <1>8. TypeOK'
    <2>1. CASE Moves(stack, x) \/ Moves(stack, y)
      BY <1>m, <1>7, <2>1
    <2>2. CASE UNCHANGED at
      <3>1. Moves(stack, l)
        BY <1>0, <2>2 DEF Moves, TypeOK
      <3> QED BY <1>m, <1>t, <3>1
    <2> QED BY <1>1, <2>1, <2>2
  <1>9. at'[send] = at[send]
    BY <1>0, <1>1, AllProcesses, ProcessNames DEF Moves
  <1>10. expectedTxByteCnt' = expectedTxByteCnt
    BY <1>1 DEF expectedTxByteCnt, pkgLength
  <1> QED BY <1>0, <1>2, <1>5, <1>8, <1>9, <1>10 DEF SendState


LEMMA SumIsNat == \A s \in Seq(Nat) : Sum(s) \in Nat
  <1> SUFFICES ASSUME NEW s \in Seq(Nat) PROVE Sum(s) \in Nat
    OBVIOUS
  <1>1. Len(s) \in 0 .. Len(s)
    OBVIOUS
  <1> QED BY <1>1, SumNat DEF Sum

\* The bytes the stack hands over are those at the head of its buffer.
LEMMA ReadEffect ==
  ASSUME TypeOK, BytesAsked, stack_read
  PROVE  LET l == at[stack]
             pkg == m_axis_tcp_read_pkg
             n == Head(fifo[pkg])
             m == Len(l.buffer)
         IN  /\ n \in Nat \ {0} /\ m \in Nat /\ n <= m /\ fifo[pkg] \in Seq(Nat)
             /\ fifo'[pkg] = Tail(fifo[pkg]) /\ fifo[pkg] # <<>>
             /\ UNCHANGED fifo[s_axis_tcp_notification]
             /\ SubSeq(l.buffer, 1, n) \in Seq(Unit) /\ Len(SubSeq(l.buffer, 1, n)) = n
             /\ \A i \in 1 .. n : SubSeq(l.buffer, 1, n)[i] = l.buffer[i]
             /\ at'[stack].buffer \in Seq(Unit) /\ Len(at'[stack].buffer) = m - n
             /\ \A i \in 1 .. m - n : at'[stack].buffer[i] = l.buffer[n + i]
             /\ at'[stack].packet = Chunks(SubSeq(l.buffer, 1, n), WORD)
             /\ at'[stack].packet \in Seq(Word)
             /\ at'[stack] = [l EXCEPT !.packet = at'[stack].packet, !.buffer = at'[stack].buffer]
  <1> DEFINE l == at[stack]
             pkg == m_axis_tcp_read_pkg
             note == s_axis_tcp_notification
             n == Head(fifo[pkg])
             m == Len(l.buffer)
             b == l.buffer
             front == SubSeq(b, 1, n)
             rest == SubSeq(b, n + 1, Len(b))
             c == Chunks(front, WORD)
             x == [l EXCEPT !.packet = c, !.buffer = rest]
  <1>1. /\ Takes(pkg) /\ Streams({pkg, s_axis_tcp_rx_meta})
        /\ Moves(stack, [l EXCEPT !.packet = Chunks(SubSeq(l.buffer, 1, n), WORD),
                                  !.buffer = SubSeq(@, n + 1, Len(@))])
    BY TypedShape, StackReadEffect
  <1>2. l \in [buffer : Seq(Unit), packet : Seq(Word), accepted : Seq(Nat),
               zeros : Nat, retries : Nat]
    BY TypedLocals
  <1>3. Moves(stack, x)
    BY <1>1, <1>2
  <1>4. fifo[pkg] \in Seq(Nat \ {0}) /\ fifo[note] \in Seq(Nat)
    BY AllStreams, ValuesOf DEF TypeOK
  <1>5. /\ n \in Nat \ {0} /\ fifo[pkg] \in Seq(Nat) /\ fifo[pkg] # <<>>
        /\ fifo'[pkg] = Tail(fifo[pkg])
    BY <1>1, <1>4 DEF Takes
  <1>6. b \in Seq(Unit) /\ m \in Nat
    BY <1>2
  <1>7. n <= m
    <2> DEFINE p == Sum(fifo[pkg])
               q == Sum(Tail(fifo[pkg]))
               r == Sum(fifo[note])
    <2>1. p \in Nat /\ q = p - n /\ q \in Nat
      BY <1>5, SumTail
    <2>2. r \in Nat
      <3>1. Len(fifo[note]) \in 0 .. Len(fifo[note])
        BY <1>4
      <3> QED BY <1>4, <3>1, SumNat DEF Sum
    <2>3. m = r + p
      BY DEF BytesAsked
    <2> HIDE DEF p, q, r, m, n
    <2> QED BY <1>5, <2>1, <2>2, <2>3
  <1>8. UNCHANGED fifo[note]
    BY <1>1, Names, AllStreams DEF Streams
  <1>9. front \in Seq(Unit) /\ Len(front) = n /\ \A i \in 1 .. n : front[i] = b[i]
    <2>1. 1 \in Int /\ n \in Int /\ \A i \in 1 .. n : b[i] \in Unit
      BY <1>5, <1>6, <1>7
    <2> HIDE DEF b, n
    <2>2. /\ SubSeq(b, 1, n) \in Seq(Unit)
          /\ Len(SubSeq(b, 1, n)) = IF 1 <= n THEN n - 1 + 1 ELSE 0
          /\ \A i \in 1 .. n - 1 + 1 : SubSeq(b, 1, n)[i] = b[1 + i - 1]
      BY <2>1, SubSeqProperties
    <2>3. ASSUME NEW i \in 1 .. n PROVE SubSeq(b, 1, n)[i] = b[i]
      <3>1. i \in 1 .. n - 1 + 1 /\ 1 + i - 1 = i
        BY <1>5
      <3> QED BY <2>2, <3>1
    <2>4. Len(SubSeq(b, 1, n)) = n
      BY <1>5, <2>2
    <2> QED BY <2>2, <2>3, <2>4
  <1>10. rest \in Seq(Unit) /\ Len(rest) = m - n /\ \A i \in 1 .. m - n : rest[i] = b[n + i]
    <2> DEFINE a == n + 1
    <2>1. a \in Int /\ m \in Int /\ \A i \in a .. m : b[i] \in Unit
      BY <1>5, <1>6, <1>7
    <2>2. /\ SubSeq(b, a, m) \in Seq(Unit)
          /\ Len(SubSeq(b, a, m)) = IF a <= m THEN m - a + 1 ELSE 0
          /\ \A i \in 1 .. m - a + 1 : SubSeq(b, a, m)[i] = b[a + i - 1]
      <3> HIDE DEF a, m, b
      <3> QED BY <2>1, SubSeqProperties
    <2>5. rest = SubSeq(b, a, m)
      OBVIOUS
    <2> HIDE DEF m, n, b, a, rest
    <2>3. ASSUME NEW i \in 1 .. m - n PROVE SubSeq(b, a, m)[i] = b[n + i]
      <3>1. i \in 1 .. m - a + 1 /\ a + i - 1 = n + i
        BY <1>5, <1>6 DEF a, m
      <3> QED BY <2>2, <3>1
    <2>4. Len(SubSeq(b, a, m)) = m - n
      BY <1>5, <1>6, <1>7, <2>2 DEF a
    <2> QED BY <2>2, <2>3, <2>4, <2>5
  <1>11. c \in Seq(Word)
    <2>1. WORD \in Nat \ {0}
      BY Numbers
    <2> HIDE DEF front
    <2> QED BY <1>9, <2>1, Pieces DEF Word
  <1>12. at'[stack] = x
    BY <1>3 DEF Moves
  <1>13. x.buffer = rest /\ x.packet = c
    BY <1>2
  <1> HIDE DEF x, c, rest, front, n, b
  <1>14. /\ at'[stack].buffer = rest /\ at'[stack].packet = c
         /\ at'[stack] = [l EXCEPT !.packet = at'[stack].packet, !.buffer = at'[stack].buffer]
    BY <1>12, <1>13 DEF x
  <1> QED BY <1>5, <1>6, <1>7, <1>8, <1>9, <1>10, <1>11, <1>14 DEF c, rest, front, n, b

LEMMA StackType ==
  ASSUME TypeInv, stack_zero \/ stack_read \/ stack_word
  PROVE  TypeOK' /\ BytesAsked' /\ HostState'
  <1>0. TypeOK /\ Shape /\ BytesAsked /\ HostState
    BY TypedShape DEF TypeInv
  <1> DEFINE l == at[stack]
             pkg == m_axis_tcp_read_pkg
             note == s_axis_tcp_notification
             meta == s_axis_tcp_rx_meta
             data == s_axis_tcp_rx_data
             T == [buffer : Seq(Unit), packet : Seq(Word), accepted : Seq(Nat),
                   zeros : Nat, retries : Nat]
  <1>t. l \in T
    BY <1>0, TypedLocals
  <1>c. /\ pkg \in Stream /\ note \in Stream /\ meta \in Stream /\ data \in Stream
        /\ pkg # note /\ pkg # meta /\ pkg # data /\ note # meta /\ note # data
    BY AllStreams, Names
  <1>m. ASSUME NEW C, Streams(C), \A c \in C : fifo'[c] \in Seq(Values(c)), NEW x \in T,
               Moves(stack, x), UNCHANGED <<left, request>>
        PROVE  TypeOK' /\ at'[stack] = x /\ at'[host] = at[host] /\ HostState'
    <2>1. x \in LocalType(stack)
      BY <1>m, LocalTypes, Zenon
    <2>2. left' \in [Process -> Nat] /\ stack \in Process /\ host \in Process /\ stack # host
      BY <1>0, <1>m, LeftSame, AllProcesses, ProcessNames
    <2>3. at'[stack] = x /\ at'[host] = at[host]
      BY <1>m, <2>2 DEF Moves
    <2>4. TypeOK'
      BY <1>0, <1>m, <2>1, <2>2, TypeMove
    <2>5. HostState'
      BY <1>0, <1>m, <2>3 DEF HostState
    <2> QED BY <2>3, <2>4, <2>5
  <1>s. fifo[note] \in Seq(Nat) /\ Len(l.buffer) = Sum(fifo[note]) + Sum(fifo[pkg])
        /\ fifo[pkg] \in Seq(Nat) /\ Sum(fifo[note]) \in Nat /\ Sum(fifo[pkg]) \in Nat
    <2>1. fifo[note] \in Seq(Nat) /\ fifo[pkg] \in Seq(Nat \ {0})
      BY <1>0, <1>c, ValuesOf DEF TypeOK
    <2>2. fifo[pkg] \in Seq(Nat)
      BY <2>1
    <2>3. Sum(fifo[note]) \in Nat /\ Sum(fifo[pkg]) \in Nat
      BY <2>1, <2>2, SumIsNat
    <2> QED BY <1>0, <2>1, <2>2, <2>3 DEF BytesAsked
  <1>1. CASE stack_zero
    <2> DEFINE x == [l EXCEPT !.zeros = @ + 1]
    <2>1. /\ Writes(note, 0) /\ Streams({note}) /\ Moves(stack, x) /\ UNCHANGED <<left, request>>
      BY <1>0, <1>1, StackZeroEffect
    <2>2. x \in T /\ x.buffer = l.buffer
      <3> DEFINE z == l.zeros + 1
      <3>1. z \in Nat /\ x = [l EXCEPT !.zeros = z]
        BY <1>t
      <3> HIDE DEF z, x
      <3> QED BY <1>t, <3>1
    <2>3. \A c \in {note} : fifo'[c] \in Seq(Values(c))
      <3>1. 0 \in Values(note)
        BY ValuesOf
      <3> QED BY <1>0, <1>c, <2>1, <3>1, TypedWrite
    <2> HIDE DEF x, T
    <2>4. TypeOK' /\ at'[stack] = x /\ HostState'
      BY <1>m, <2>1, <2>2, <2>3
    <2>5. Sum(fifo'[note]) = Sum(fifo[note])
      <3>1. Sum(fifo'[note]) = Sum(fifo[note]) + 0
        BY <1>s, <2>1, SumAppend DEF Writes
      <3> QED BY <1>s, <3>1
    <2>6. fifo'[pkg] = fifo[pkg]
      BY <1>c, <2>1 DEF Streams
    <2>7. Len(at'[stack].buffer) = Sum(fifo'[note]) + Sum(fifo'[pkg])
      BY <1>s, <2>2, <2>4, <2>5, <2>6
    <2> QED BY <2>4, <2>7 DEF BytesAsked
  <1>2. CASE stack_read
    <2> DEFINE n == Head(fifo[pkg])
               b == at'[stack].buffer
               c == at'[stack].packet
               x == [l EXCEPT !.packet = c, !.buffer = b]
    <2>1. /\ Takes(pkg) /\ Writes(meta, 0) /\ Streams({pkg, meta})
          /\ Moves(stack, at'[stack]) /\ UNCHANGED <<left, request>>
      BY <1>0, <1>2, StackReadEffect DEF Moves
    <2>2. /\ n \in Nat \ {0} /\ n <= Len(l.buffer) /\ Len(l.buffer) \in Nat
          /\ fifo'[pkg] = Tail(fifo[pkg]) /\ fifo[pkg] # <<>> /\ UNCHANGED fifo[note]
          /\ b \in Seq(Unit) /\ Len(b) = Len(l.buffer) - n /\ c \in Seq(Word) /\ at'[stack] = x
      BY <1>0, <1>2, ReadEffect
    <2> HIDE DEF b, c, n
    <2>3. x \in T
      BY <1>t, <2>2
    <2>4. \A d \in {pkg, meta} : fifo'[d] \in Seq(Values(d))
      <3>1. 0 \in Values(meta)
        BY ValuesOf
      <3> QED BY <1>0, <1>c, <2>1, <3>1, TypedWrite, TypedTake
    <2> HIDE DEF x, T
    <2>5. TypeOK' /\ HostState'
      BY <1>m, <2>1, <2>2, <2>3, <2>4
    <2>6. Sum(fifo'[pkg]) = Sum(fifo[pkg]) - n
      BY <1>s, <2>2, SumTail DEF n
    <2> DEFINE p == Sum(fifo[pkg])
               p2 == Sum(fifo'[pkg])
               q == Sum(fifo[note])
               k == Len(l.buffer)
    <2>7. Len(b) = q + p2
      <3>1. p \in Nat /\ q \in Nat /\ k = q + p /\ p2 = p - n /\ Len(b) = k - n
        BY <1>s, <2>2, <2>6
      <3> HIDE DEF p, p2, q, k
      <3> QED BY <2>2, <3>1
    <2>8. Sum(fifo'[note]) = q
      BY <2>2
    <2> QED BY <2>5, <2>7, <2>8 DEF BytesAsked, b
  <1>3. CASE stack_word
    <2> DEFINE v == [data |-> Head(l.packet), last |-> Len(l.packet) = 1]
               x == [l EXCEPT !.packet = Tail(@)]
    <2>1. /\ l.packet # <<>> /\ Streams({data}) /\ Writes(data, v)
          /\ Moves(stack, x) /\ UNCHANGED <<left, request>>
      BY <1>0, <1>3, StackWordEffect
    <2>2. Head(l.packet) \in Word /\ Tail(l.packet) \in Seq(Word)
      BY <1>t, <2>1
    <2>3. x \in T /\ x.buffer = l.buffer
      BY <1>t, <2>2
    <2>4. v \in Values(data)
      BY <2>2, ValuesOf
    <2> HIDE DEF v
    <2>5. \A c \in {data} : fifo'[c] \in Seq(Values(c))
      BY <1>0, <1>c, <2>1, <2>4, TypedWrite
    <2> HIDE DEF x, T
    <2>6. TypeOK' /\ at'[stack] = x /\ HostState'
      BY <1>m, <2>1, <2>3, <2>5
    <2>7. fifo'[pkg] = fifo[pkg] /\ fifo'[note] = fifo[note]
      BY <1>c, <2>1 DEF Streams
    <2> QED BY <1>s, <2>3, <2>6, <2>7 DEF BytesAsked
  <1> QED BY <1>1, <1>2, <1>3

\* The units the host adds to the buffer of the stack.
LEMMA SendEffect ==
  ASSUME TypeOK, HostState, host_send
  PROVE  LET l == at[host]
             s == at[stack]
             before == SumTo(request.segments, l.segment - 1)
             n == request.segments[l.segment]
             u == SubSeq(QueryUnits(l.query), before + 1, before + n)
         IN  /\ u \in Seq(Unit) /\ Len(u) = n /\ before \in Nat /\ n \in Nat \ {0}
             /\ \A j \in 1 .. n : u[j] = <<l.query, before + j>>
             /\ at'[stack] = [s EXCEPT !.buffer = s.buffer \o u]
  <1> DEFINE l == at[host]
             s == at[stack]
             before == SumTo(request.segments, l.segment - 1)
             n == request.segments[l.segment]
             u == SubSeq(QueryUnits(l.query), before + 1, before + n)
  <1>1. at'[stack] = [s EXCEPT !.buffer = @ \o u]
    BY TypedShape, HostEffect
  <1>2. l \in [query : Nat \ {0}, segment : Nat \ {0}]
        /\ s \in [buffer : Seq(Unit), packet : Seq(Word), accepted : Seq(Nat),
                  zeros : Nat, retries : Nat]
    BY TypedLocals
  <1>3. /\ before \in Nat /\ n \in Nat \ {0}
        /\ before + n <= QUERY_WORDS * WORD /\ QUERY_WORDS * WORD \in Nat
    BY Segments
  <1> DEFINE a == before
             b == before + n
  <1>4. a \in Nat /\ b \in Nat /\ a <= b /\ b <= QUERY_WORDS * WORD /\ l.query \in Nat
        /\ b - a = n
    <2> HIDE DEF before, n
    <2> QED BY <1>2, <1>3
  <1>5. /\ SubSeq(QueryUnits(l.query), a + 1, b) \in Seq(Unit)
        /\ Len(SubSeq(QueryUnits(l.query), a + 1, b)) = b - a
        /\ \A j \in 1 .. b - a : SubSeq(QueryUnits(l.query), a + 1, b)[j] = <<l.query, a + j>>
    <2> DEFINE k == l.query
    <2>1. /\ k \in Nat /\ a \in Nat /\ b \in Nat /\ QUERY_WORDS * WORD \in Nat
          /\ b <= QUERY_WORDS * WORD /\ a <= b
      BY <1>3, <1>4
    <2> HIDE DEF a, b, k
    <2>2. /\ SubSeq(QueryUnits(k), a + 1, b) \in Seq(Unit)
          /\ Len(SubSeq(QueryUnits(k), a + 1, b)) = b - a
          /\ \A j \in 1 .. b - a : SubSeq(QueryUnits(k), a + 1, b)[j] = <<k, a + j>>
      BY <2>1, UnitsOf
    <2> QED BY <2>2 DEF k
  <1>6. u \in Seq(Unit) /\ Len(u) = n /\ \A j \in 1 .. n : u[j] = <<l.query, before + j>>
    BY <1>4, <1>5
  <1>7. at'[stack] = [s EXCEPT !.buffer = s.buffer \o u]
    <2> HIDE DEF u
    <2> QED BY <1>1, <1>2
  <1> QED BY <1>3, <1>6, <1>7

LEMMA HostType ==
  ASSUME TypeInv, host_send
  PROVE  TypeOK' /\ BytesAsked' /\ HostState'
  <1>0. TypeOK /\ Shape /\ BytesAsked /\ HostState
    BY TypedShape DEF TypeInv
  <1> DEFINE l == at[host]
             s == at[stack]
             pkg == m_axis_tcp_read_pkg
             note == s_axis_tcp_notification
             segs == request.segments
             before == SumTo(segs, l.segment - 1)
             n == segs[l.segment]
             u == SubSeq(QueryUnits(l.query), before + 1, before + n)
             last == l.segment = Len(segs)
             x == [s EXCEPT !.buffer = s.buffer \o u]
             y == IF last THEN [query |-> l.query + 1, segment |-> 1]
                  ELSE [l EXCEPT !.segment = @ + 1]
  <1>1. /\ l.query <= request.queries /\ Writes(note, n) /\ Streams({note})
        /\ DOMAIN at' = Process /\ at'[host] = y
        /\ \A q \in Process \ {stack, host} : at'[q] = at[q] /\ UNCHANGED <<left, request>>
    BY <1>0, HostEffect, AllProcesses
  <1>u. UNCHANGED <<left, request>>
    BY <1>0, HostEffect
  <1>2. u \in Seq(Unit) /\ Len(u) = n /\ n \in Nat \ {0} /\ at'[stack] = x
    BY <1>0, SendEffect
  <1>3. l \in [query : Nat \ {0}, segment : Nat \ {0}]
        /\ s \in [buffer : Seq(Unit), packet : Seq(Word), accepted : Seq(Nat),
                  zeros : Nat, retries : Nat]
    BY <1>0, TypedLocals
  <1>4. l.segment \in 1 .. Len(segs) /\ Len(segs) \in Nat /\ request.queries \in Nat
    BY <1>0, Segments, Numbers
  <1>5. y \in [query : Nat \ {0}, segment : Nat \ {0}]
    <2> HIDE DEF segs
    <2> QED BY <1>3
  <1>6. /\ y.query <= request.queries + 1 /\ y.segment <= Len(segs)
        /\ y.query = request.queries + 1 => y.segment = 1
    <2>1. CASE last
      <3>1. y.query = l.query + 1 /\ y.segment = 1
        BY <2>1
      <3> HIDE DEF y, segs
      <3> QED BY <1>1, <1>3, <1>4, <3>1
    <2>2. CASE ~ last
      <3>1. y.query = l.query /\ y.segment = l.segment + 1
        BY <1>3, <2>2
      <3> HIDE DEF y, segs
      <3> QED BY <1>1, <1>3, <1>4, <2>2, <3>1
    <2> QED BY <2>1, <2>2
  <1> HIDE DEF u, y
  <1>7. x \in [buffer : Seq(Unit), packet : Seq(Word), accepted : Seq(Nat),
               zeros : Nat, retries : Nat]
        /\ x.buffer = s.buffer \o u /\ Len(x.buffer) = Len(s.buffer) + n
        /\ Len(s.buffer) \in Nat
    <2>1. s.buffer \o u \in Seq(Unit) /\ Len(s.buffer \o u) = Len(s.buffer) + n
          /\ Len(s.buffer) \in Nat
      <3> DEFINE v == s.buffer
      <3>1. v \in Seq(Unit) /\ u \in Seq(Unit) /\ Len(u) = n
        BY <1>2, <1>3
      <3> HIDE DEF v, n
      <3>2. v \o u \in Seq(Unit) /\ Len(v \o u) = Len(v) + n /\ Len(v) \in Nat
        BY <3>1
      <3> QED BY <3>2 DEF v
    <2> HIDE DEF n
    <2> QED BY <1>3, <2>1
  <1> HIDE DEF x, n
  <1>8. fifo'[note] \in Seq(Values(note))
    <2>1. n \in Values(note)
      BY <1>2, ValuesOf
    <2> QED BY <1>0, <1>1, <2>1, AllStreams, TypedWrite
  <1>9. TypeOK'
    <2>1. at'[stack] \in LocalType(stack) /\ at'[host] \in LocalType(host)
      <3>1. x \in LocalType(stack) /\ y \in LocalType(host)
        BY <1>5, <1>7, LocalTypes, Zenon
      <3> QED BY <1>1, <1>2, <3>1
    <2>2. left' \in [Process -> Nat]
      BY <1>0, <1>u, LeftSame
    <2> DEFINE P == {stack, host}
               C == {note}
    <2>3. /\ \A p \in P : at'[p] \in LocalType(p) /\ \A q \in Process \ P : at'[q] = at[q]
          /\ \A c \in C : fifo'[c] \in Seq(Values(c)) /\ Streams(C)
      BY <1>1, <1>8, <2>1
    <2>4. /\ \A p \in P : at'[p] \in LocalType(p)
          /\ \A q \in Process \ P : at'[q] = at[q]
          /\ \A c \in C : fifo'[c] \in Seq(Values(c))
          /\ Streams(C)
      BY <1>1, <1>8, <2>1
    <2> HIDE DEF P, C
    <2> QED BY <1>0, <1>1, <1>u, <2>2, <2>4, TypeStep
  <1>10. BytesAsked'
    <2>1. fifo[note] \in Seq(Nat)
      BY <1>0, AllStreams, ValuesOf DEF TypeOK
    <2>2. Sum(fifo'[note]) = Sum(fifo[note]) + n /\ Sum(fifo[note]) \in Nat
      BY <1>1, <1>2, <2>1, SumAppend DEF Writes
    <2>3. fifo'[pkg] = fifo[pkg]
      BY <1>1, Names, AllStreams DEF Streams
    <2> DEFINE p == Sum(fifo[pkg])
               q == Sum(fifo[note])
               k == Len(s.buffer)
    <2>4. p \in Nat
      <3>1. fifo[pkg] \in Seq(Nat \ {0})
        BY <1>0, AllStreams, ValuesOf DEF TypeOK
      <3>2. fifo[pkg] \in Seq(Nat)
        BY <3>1
      <3> QED BY <3>2, SumIsNat
    <2>5. k = q + p
      BY <1>0 DEF BytesAsked
    <2>6. k + n = (q + n) + p
      <3>1. p \in Nat /\ q \in Nat /\ k = q + p
        BY <2>2, <2>4, <2>5
      <3> HIDE DEF p, q, k
      <3> QED BY <1>2, <3>1
    <2>7. Len(at'[stack].buffer) = k + n
      BY <1>2, <1>7
    <2> QED BY <2>2, <2>3, <2>6, <2>7 DEF BytesAsked
  <1>11. HostState'
    BY <1>1, <1>6, <1>u DEF HostState
  <1> QED BY <1>9, <1>10, <1>11


LEMMA TypeInit == Init => TypeInv
  <1> SUFFICES ASSUME Init PROVE TypeInv
    OBVIOUS
  <1>1. /\ request \in Requests /\ fifo = [c \in Stream |-> <<>>]
        /\ left = [p \in Process |-> 0] /\ at = [p \in Process |-> Local(p)]
    BY DEF Init, FlowInit
  <1>2. IsInput(request)
    BY <1>1, GlueAssumption
  <1>3. TOPK \in Nat \ {0}
    BY GlueAssumption
  <1>4. /\ at[listen] = [asked |-> FALSE, answered |-> FALSE, sessionID |-> Undefined]
        /\ at[open] = [asked |-> FALSE, answered |-> FALSE, sessionID |-> Undefined]
    BY <1>1, AllProcesses, ProcessNames DEF Local
  <1>5. at[handshake] = [rxByteCnt |-> 0]
    BY <1>1, AllProcesses, ProcessNames DEF Local
  <1>6. at[consume] = [started |-> FALSE, rxByteCnt |-> 0, length |-> 0]
    BY <1>1, AllProcesses, ProcessNames DEF Local
  <1>7. at[search] = [words |-> <<>>, query |-> 0, left |-> 0]
    BY <1>1, AllProcesses, ProcessNames DEF Local
  <1>8. at[output] = [phase |-> "idle", results |-> <<>>, word |-> 1]
    BY <1>1, AllProcesses, ProcessNames DEF Local
  <1>9. at[send] = [phase |-> "first", sentByteCnt |-> 0, length |-> 0, todo |-> 0]
    BY <1>1, AllProcesses, ProcessNames DEF Local
  <1>10. at[stack] = [buffer |-> <<>>, packet |-> <<>>, accepted |-> <<>>,
                      zeros |-> 0, retries |-> 0]
    BY <1>1, AllProcesses, ProcessNames DEF Local
  <1>11. at[host] = [query |-> 1, segment |-> 1]
    BY <1>1, AllProcesses, ProcessNames DEF Local
  <1>12. ASSUME NEW p \in Process PROVE at[p] \in LocalType(p)
    <2>1. at[listen] \in LocalType(listen) /\ at[open] \in LocalType(open)
      <3>1. [asked |-> FALSE, answered |-> FALSE, sessionID |-> Undefined]
              \in [asked : BOOLEAN, answered : BOOLEAN, sessionID : SessionID]
        BY DEF SessionID
      <3> QED BY <1>4, <3>1, LocalTypes, Zenon
    <2>2. at[handshake] \in LocalType(handshake)
      <3>1. [rxByteCnt |-> 0] \in [rxByteCnt : Nat]
        OBVIOUS
      <3> QED BY <1>5, <3>1, LocalTypes, Zenon
    <2>3. at[consume] \in LocalType(consume)
      <3>1. [started |-> FALSE, rxByteCnt |-> 0, length |-> 0]
              \in [started : BOOLEAN, rxByteCnt : Nat, length : Nat]
        OBVIOUS
      <3> QED BY <1>6, <3>1, LocalTypes, Zenon
    <2>4. at[search] \in LocalType(search)
      <3>1. [words |-> <<>>, query |-> 0, left |-> 0]
              \in [words : Seq(Word), query : Nat, left : 0 .. TOPK]
        BY <1>3
      <3> QED BY <1>7, <3>1, LocalTypes, Zenon
    <2>5. at[output] \in LocalType(output)
      <3>1. [phase |-> "idle", results |-> <<>>, word |-> 1]
              \in [phase : {"idle", "results", "words"},
                   results : Seq(Nat \X Nat), word : 1 .. ANSWER_WORDS]
        BY AnswerWords
      <3> QED BY <1>8, <3>1, LocalTypes, Zenon
    <2>6. at[send] \in LocalType(send)
      <3>1. [phase |-> "first", sentByteCnt |-> 0, length |-> 0, todo |-> 0]
              \in [phase : {"first", "status", "data", "next", "done"},
                   sentByteCnt : Nat, length : Nat, todo : Nat]
        OBVIOUS
      <3> QED BY <1>9, <3>1, LocalTypes, Zenon
    <2>7. at[stack] \in LocalType(stack)
      <3>1. [buffer |-> <<>>, packet |-> <<>>, accepted |-> <<>>, zeros |-> 0, retries |-> 0]
              \in [buffer : Seq(Unit), packet : Seq(Word), accepted : Seq(Nat),
                   zeros : Nat, retries : Nat]
        OBVIOUS
      <3> QED BY <1>10, <3>1, LocalTypes, Zenon
    <2>8. at[host] \in LocalType(host)
      <3>1. [query |-> 1, segment |-> 1] \in [query : Nat \ {0}, segment : Nat \ {0}]
        OBVIOUS
      <3> QED BY <1>11, <3>1, LocalTypes, Zenon
    <2> QED BY <2>1, <2>2, <2>3, <2>4, <2>5, <2>6, <2>7, <2>8 DEF Process
  <1>13. TypeOK
    <2>1. \A c \in Stream : fifo[c] \in Seq(Values(c))
      BY <1>1
    <2>2. left \in [Process -> Nat]
      BY <1>1
    <2> QED BY <1>1, <1>12, <2>1, <2>2 DEF TypeOK
  <1>14. BytesAsked
    <2>1. fifo[s_axis_tcp_notification] = <<>> /\ fifo[m_axis_tcp_read_pkg] = <<>>
      BY <1>1, AllStreams
    <2>2. Sum(<<>>) = 0
      BY SumStep DEF Sum
    <2> QED BY <1>10, <2>1, <2>2 DEF BytesAsked
  <1>15. SendState
    <2>1. fifo[m_axis_tcp_tx_meta] = <<>> /\ fifo[s_axis_tcp_tx_status] = <<>>
      BY <1>1, AllStreams
    <2> QED BY <1>9, <2>1 DEF SendState
  <1>16. OutputState
    BY <1>8 DEF OutputState
  <1>17. HostState
    <2>1. Sum(request.segments) = QUERY_WORDS * WORD /\ request.segments \in Seq(Nat \ {0})
          /\ request.queries \in Nat /\ QUERY_WORDS * WORD \in Nat \ {0}
      <3>1. QUERY_WORDS \in Nat \ {0} /\ WORD \in Nat \ {0}
        BY GlueAssumption
      <3>2. QUERY_WORDS * WORD \in Nat \ {0}
        BY <3>1
      <3> QED BY <1>2, <3>2 DEF IsInput
    <2>2. Len(request.segments) # 0
      <3> SUFFICES ASSUME Len(request.segments) = 0 PROVE FALSE
        OBVIOUS
      <3>1. Sum(request.segments) = 0
        BY SumStep DEF Sum
      <3> QED BY <2>1, <3>1
    <2>3. Len(request.segments) \in Nat
      BY <2>1
    <2>4. 1 <= Len(request.segments)
      BY <2>2, <2>3
    <2> QED BY <1>11, <2>1, <2>4 DEF HostState
  <1> QED BY <1>13, <1>14, <1>15, <1>16, <1>17 DEF TypeInv

\* The type invariant is inductive.
LEMMA TypeInvStep == TypeInv /\ [Next]_vars => TypeInv'
  <1> SUFFICES ASSUME TypeInv, [Next]_vars PROVE TypeInv'
    OBVIOUS
  <1>0. TypeOK /\ BytesAsked /\ SendState /\ OutputState /\ HostState
    BY DEF TypeInv
  <1>c. Connections => TypeInv'
    <2> SUFFICES ASSUME Connections PROVE TypeInv'
      OBVIOUS
    <2>1. /\ Streams(ConnectionStreams)
          /\ \A c \in ConnectionStreams : fifo'[c] \in Seq(Values(c))
          /\ DOMAIN at' = Process /\ \A q \in Process \ {listen, open} : at'[q] = at[q]
          /\ at'[listen] \in LocalType(listen) /\ at'[open] \in LocalType(open)
          /\ UNCHANGED <<left, request>>
      BY <1>0, ConnectionEffect
    <2> DEFINE P == {listen, open}
    <2>2. \A p \in P : at'[p] \in LocalType(p)
      BY <2>1
    <2>3. \A q \in Process \ P : at'[q] = at[q]
      BY <2>1
    <2>4. left' \in [Process -> Nat]
      BY <1>0, <2>1, LeftSame
    <2> HIDE DEF P
    <2>5. TypeOK'
      BY <1>0, <2>1, <2>2, <2>3, <2>4, TypeStep
    <2>6. ReceiveSame /\ AnswerSame /\ SendSame
      BY <1>0, ConnectionFrame
    <2> QED BY <1>0, <2>5, <2>6, ReceiveKept, OutputKept, SendKept DEF TypeInv
  <1>1. CASE listen_port_handler \/ port_status_handler \/ openConnections
    BY <1>c, <1>1 DEF Connections
  <1>2. CASE stack_listen \/ stack_open
    BY <1>c, <1>2 DEF Connections
  <1>3. CASE recvData_handshake
    BY <1>0, <1>3, HandshakeType, ReceiveFrame, OutputKept, SendKept DEF TypeInv
  <1>4. CASE recvData_consumeData
    <2>1. TypeOK' /\ AnswerSame /\ SendSame
      BY <1>0, <1>4, ConsumeType, ReceiveFrame
    <2>2. BytesAsked' /\ HostState'
      <3>1. /\ fifo'[s_axis_tcp_notification] = fifo[s_axis_tcp_notification]
            /\ fifo'[m_axis_tcp_read_pkg] = fifo[m_axis_tcp_read_pkg]
            /\ at'[stack] = at[stack] /\ at'[host] = at[host] /\ request' = request
        <4>1. CASE consume_start \/ consume_meta
          <5>1. ReceiveSame
            BY <1>0, <4>1, ConsumeFrame
          <5>2. \E x : Moves(consume, x)
            BY <1>0, <4>1, TypedShape, ConsumeStartEffect, ConsumeMetaEffect
          <5> QED BY <5>1, <5>2, AllProcesses, ProcessNames DEF ReceiveSame, Moves
        <4>2. CASE consume_word
          <5>1. /\ Streams({s_axis_tcp_rx_data, s_kernel_network_in, s_consumeDataReady})
                /\ \E x : Moves(consume, x) /\ UNCHANGED request
            BY <1>0, <4>2, TypedShape, ConsumeWordEffect
          <5>2. \E x : Moves(consume, x)
            BY <5>1
          <5> QED BY <5>1, <5>2, AllProcesses, ProcessNames, AllStreams, Names
                  DEF Moves, Streams
        <4> QED BY <1>4, <4>1, <4>2 DEF recvData_consumeData
      <3> QED BY <1>0, <3>1 DEF BytesAsked, HostState
    <2> QED BY <1>0, <2>1, <2>2, OutputKept, SendKept DEF TypeInv
  <1>5. CASE search_word \/ search_result
    <2>1. TypeOK' /\ SendSame
      BY <1>0, <1>5, SearchType, AnswerFrame
    <2>2. \E x : Moves(search, x) /\ UNCHANGED request
      BY <1>0, <1>5, TypedShape, SearchWordEffect, SearchResultEffect
    <2>3. at'[stack] = at[stack] /\ at'[host] = at[host] /\ at'[output] = at[output]
          /\ UNCHANGED request
      BY <2>2, AllProcesses, ProcessNames DEF Moves
    <2>4. /\ fifo'[s_axis_tcp_notification] = fifo[s_axis_tcp_notification]
          /\ fifo'[m_axis_tcp_read_pkg] = fifo[m_axis_tcp_read_pkg]
      <3>1. CASE search_word
        <4>1. Streams({s_kernel_network_in, s_batch_header(output)})
          BY <1>0, <3>1, TypedShape, SearchWordEffect
        <4> QED BY <4>1, AllStreams, Names DEF Streams
      <3>2. CASE search_result
        <4>1. Streams({s_output})
          BY <1>0, <3>2, TypedShape, SearchResultEffect
        <4> QED BY <4>1, AllStreams, Names DEF Streams
      <3> QED BY <1>5, <3>1, <3>2
    <2>5. BytesAsked' /\ HostState' /\ OutputState'
      BY <1>0, <2>3, <2>4 DEF BytesAsked, HostState, OutputState
    <2> QED BY <1>0, <2>1, <2>5, SendKept DEF TypeInv
  <1>6. CASE network_output_processing
    <2>1. TypeOK' /\ OutputState'
      BY <1>6, OutputType
    <2>2. SendSame
      BY <1>0, <1>6, AnswerFrame
    <2>3. ReceiveSame
      BY <1>0, <1>6, AnswerFrame
    <2> QED BY <1>0, <2>1, <2>2, <2>3, ReceiveKept, SendKept DEF TypeInv
  <1>7. CASE sendDataProtected
    <2>1. TypeOK' /\ SendState'
      BY <1>7, SendType
    <2>2. ReceiveSame
      BY <1>0, <1>7, SendFrame
    <2>3. at'[output] = at[output]
      <3>1. \E x : Moves(send, x)
        BY <1>0, <1>7, TypedShape, AnnounceEffect, StatusEffect, SendWordEffect
           DEF sendDataProtected
      <3> QED BY <3>1, AllProcesses, ProcessNames DEF Moves
    <2> QED BY <1>0, <2>1, <2>2, <2>3, ReceiveKept DEF TypeInv, OutputState
  <1>8. CASE stack_status
    <2>1. TypeOK' /\ SendState'
      BY <1>8, StackStatusType
    <2>2. ReceiveSame
      BY <1>0, <1>8, SendFrame
    <2>3. at'[output] = at[output]
      <3>1. (\E x : Moves(stack, x)) \/ UNCHANGED at
        BY <1>0, <1>8, TypedShape, StackStatusEffect
      <3> QED BY <3>1, AllProcesses, ProcessNames DEF Moves
    <2> QED BY <1>0, <2>1, <2>2, <2>3, ReceiveKept DEF TypeInv, OutputState
  <1>9. CASE stack_zero \/ stack_read \/ stack_word
    BY <1>0, <1>9, StackType, ReceiveFrame, OutputKept, SendKept DEF TypeInv
  <1>10. CASE host_send
    BY <1>0, <1>10, HostType, ReceiveFrame, OutputKept, SendKept DEF TypeInv
  <1>11. CASE UNCHANGED vars
    <2>1. UNCHANGED <<fifo, left, at, request>>
      BY <1>11 DEF vars, flowVars
    <2>2. TypeOK'
      BY <1>0, <2>1 DEF TypeOK
    <2>3. ReceiveSame /\ AnswerSame /\ SendSame
      BY <2>1 DEF ReceiveSame, AnswerSame, SendSame
    <2> QED BY <1>0, <2>2, <2>3, ReceiveKept, OutputKept, SendKept DEF TypeInv
  <1> QED BY <1>1, <1>2, <1>3, <1>4, <1>5, <1>6, <1>7, <1>8, <1>9, <1>10, <1>11, Zenon
          DEF Next, Kernel, Stack

LEMMA TypeInvariant == Spec => []TypeInv
  <1>1. Init => TypeInv
    BY TypeInit
  <1>2. TypeInv /\ [Next]_vars => TypeInv'
    BY TypeInvStep
  <1> QED BY <1>1, <1>2, PTL DEF Spec

\* Every stream carries values of its kind, and every process counts within its
\* range: no answer has more than its words, and no query more than TOPK results.
THEOREM Types == Spec => []TypeOK
  <1>1. TypeInv => TypeOK
    BY DEF TypeInv
  <1> QED BY <1>1, TypeInvariant, PTL


-----------------------------------------------------------------------------
(* The words on their way to the search.                                   *)

QUERY_UNITS == QUERY_WORDS * WORD

\* What the host sends, unit by unit, and word by word.
unitAt == [a \in Nat \ {0} |-> <<((a - 1) \div QUERY_UNITS) + 1, ((a - 1) % QUERY_UNITS) + 1>>]
wordAt == [w \in Nat \ {0} |-> [j \in 1 .. WORD |-> unitAt[(w - 1) * WORD + j]]]

\* A queue of records that carry a part of a stream.
Carries(F, s, a) == \A j \in 1 .. Len(s) : s[j].data = F[a + j]

\* The search has taken `query` queries and the first words of the next; then
\* come the words in the streams and in the stack, then the units the stack
\* keeps, of the units sent so far.
InTransit(query, words, in, data, packet, buffer, sent) ==
  LET p0 == query * QUERY_WORDS
      p1 == p0 + Len(words)
      p2 == p1 + Len(in)
      p3 == p2 + Len(data)
      p4 == p3 + Len(packet)
  IN  /\ Len(words) < QUERY_WORDS
      /\ InOrder(wordAt, words, p0) /\ InOrder(wordAt, in, p1)
      /\ Carries(wordAt, data, p2) /\ InOrder(wordAt, packet, p3)
      /\ InOrder(unitAt, buffer, p4 * WORD)
      /\ p4 * WORD + Len(buffer) = sent

LEMMA Sizes ==
  /\ WORD \in Nat \ {0} /\ QUERY_WORDS \in Nat \ {0} /\ QUERY_UNITS \in Nat \ {0}
  <1>1. WORD \in Nat \ {0} /\ QUERY_WORDS \in Nat \ {0}
    BY GlueAssumption
  <1> QED BY <1>1 DEF QUERY_UNITS

\* Unit u of query q + 1.
LEMMA UnitAt ==
  ASSUME NEW q \in Nat, NEW u \in 1 .. QUERY_UNITS
  PROVE  q * QUERY_UNITS + u \in Nat \ {0} /\ unitAt[q * QUERY_UNITS + u] = <<q + 1, u>>
  <1>1. QUERY_UNITS \in Nat \ {0} /\ u - 1 \in 0 .. QUERY_UNITS - 1 /\ u \in Nat \ {0}
    BY Sizes
  <1> HIDE DEF QUERY_UNITS
  <1>2. (q * QUERY_UNITS + (u - 1)) \div QUERY_UNITS = q
        /\ (q * QUERY_UNITS + (u - 1)) % QUERY_UNITS = u - 1
    BY <1>1, Division
  <1> DEFINE m == q * QUERY_UNITS
  <1>3. m \in Nat
    BY <1>1
  <1> HIDE DEF m
  <1>4. m + u \in Nat \ {0} /\ m + u - 1 = m + (u - 1)
    BY <1>1, <1>3
  <1>5. PICK v \in Nat \ {0} : v = m + u
    BY <1>4
  <1>6. (v - 1) \div QUERY_UNITS = q /\ (v - 1) % QUERY_UNITS = u - 1
    <2>1. v - 1 = q * QUERY_UNITS + (u - 1)
      <3>1. v - 1 = m + (u - 1)
        BY <1>1, <1>3, <1>5
      <3> QED BY <3>1 DEF m
    <2> QED BY <1>2, <2>1
  <1>7. unitAt[v] = <<((v - 1) \div QUERY_UNITS) + 1, ((v - 1) % QUERY_UNITS) + 1>>
    BY DEF unitAt
  <1>8. unitAt[v] = <<q + 1, u>>
    <2>1. (u - 1) + 1 = u
      BY <1>1
    <2> QED BY <1>6, <1>7, <2>1
  <1> QED BY <1>4, <1>5, <1>8 DEF m

\* Word r + 1 of query q + 1.
LEMMA WordAt ==
  ASSUME NEW q \in Nat, NEW r \in 0 .. QUERY_WORDS - 1
  PROVE  /\ QueryWord(q + 1, r + 1) \in Word
         /\ q * QUERY_WORDS + r + 1 \in Nat \ {0}
         /\ wordAt[q * QUERY_WORDS + r + 1] = QueryWord(q + 1, r + 1)
  <1>1. WORD \in Nat \ {0} /\ QUERY_WORDS \in Nat \ {0} /\ QUERY_UNITS \in Nat \ {0}
    BY Sizes
  <1> DEFINE a == r * WORD
             b == (r + 1) * WORD
             w == q * QUERY_WORDS + r + 1
             s == SubSeq(QueryUnits(q + 1), a + 1, b)
  <1>2. a \in Nat /\ b = a + WORD /\ b \in Nat /\ b <= QUERY_UNITS /\ a <= b
    <2>1. a \in Nat /\ b = a + WORD
      BY <1>1
    <2>2. b <= QUERY_UNITS
      <3>1. r + 1 <= QUERY_WORDS /\ r + 1 \in Nat
        BY <1>1
      <3>2. (r + 1) * WORD <= QUERY_WORDS * WORD
        BY <1>1, <3>1
      <3> QED BY <3>2 DEF QUERY_UNITS
    <2> QED BY <1>1, <2>1, <2>2
  <1>3. QueryWord(q + 1, r + 1) = s
    <2>1. (r + 1) - 1 = r
      OBVIOUS
    <2> QED BY <2>1 DEF QueryWord
  <1>4. s \in Seq(Unit) /\ Len(s) = b - a /\ \A j \in 1 .. b - a : s[j] = <<q + 1, a + j>>
    <2>1. q + 1 \in Nat /\ QUERY_WORDS * WORD \in Nat /\ b <= QUERY_WORDS * WORD
      BY <1>1, <1>2 DEF QUERY_UNITS
    <2> DEFINE k == q + 1
    <2>2. /\ k \in Nat /\ a \in Nat /\ b \in Nat /\ QUERY_WORDS * WORD \in Nat
          /\ b <= QUERY_WORDS * WORD /\ a <= b
      BY <1>2, <2>1
    <2> HIDE DEF a, b, k
    <2>3. /\ SubSeq(QueryUnits(k), a + 1, b) \in Seq(Unit)
          /\ Len(SubSeq(QueryUnits(k), a + 1, b)) = b - a
          /\ \A j \in 1 .. b - a : SubSeq(QueryUnits(k), a + 1, b)[j] = <<k, a + j>>
      BY <2>2, UnitsOf
    <2> QED BY <2>3 DEF k
  <1>5. s = [j \in 1 .. WORD |-> <<q + 1, a + j>>]
    <2>1. b - a = WORD
      <3> HIDE DEF a, b
      <3> QED BY <1>1, <1>2
    <2>2. s \in Seq(Unit) /\ Len(s) = WORD /\ \A j \in 1 .. WORD : s[j] = <<q + 1, a + j>>
      <3> HIDE DEF s, a, b
      <3> QED BY <1>4, <2>1
    <2> HIDE DEF s, a, b
    <2>3. DOMAIN s = 1 .. WORD /\ s = [j \in DOMAIN s |-> s[j]]
      BY <2>2
    <2> DEFINE t == [j \in 1 .. WORD |-> <<q + 1, a + j>>]
    <2>4. DOMAIN t = 1 .. WORD /\ \A j \in 1 .. WORD : t[j] = s[j]
      BY <2>2
    <2>5. t = [j \in DOMAIN t |-> t[j]]
      OBVIOUS
    <2> HIDE DEF t
    <2>6. s = t
      BY <2>3, <2>4, <2>5
    <2> QED BY <2>6 DEF t
  <1>6. w \in Nat \ {0} /\ w - 1 = q * QUERY_WORDS + r
    BY <1>1
  <1>7. ASSUME NEW j \in 1 .. WORD PROVE unitAt[(w - 1) * WORD + j] = <<q + 1, a + j>>
    <2>1. (w - 1) * WORD + j = q * QUERY_UNITS + (a + j)
      <3>1. (w - 1) * WORD = (q * QUERY_WORDS + r) * WORD
        BY <1>6
      <3>2. (q * QUERY_WORDS + r) * WORD = q * (QUERY_WORDS * WORD) + r * WORD
        <4> DEFINE z == q * QUERY_WORDS
        <4>1. z \in Nat /\ z * WORD = q * (QUERY_WORDS * WORD)
          BY <1>1
        <4>2. (z + r) * WORD = z * WORD + r * WORD
          <5> HIDE DEF z
          <5> QED BY <1>1, <4>1
        <4> QED BY <4>1, <4>2
      <3> DEFINE x == q * (QUERY_WORDS * WORD)
                 y == (w - 1) * WORD
      <3>3. x \in Nat /\ y = x + a
        BY <1>1, <3>1, <3>2
      <3>4. y + j = x + (a + j)
        <4> HIDE DEF x, y, a
        <4> QED BY <1>2, <3>3
      <3> QED BY <3>4 DEF QUERY_UNITS
    <2>2. a + j \in 1 .. QUERY_UNITS
      <3> HIDE DEF a, b
      <3> QED BY <1>1, <1>2
    <2> HIDE DEF a
    <2> QED BY <2>1, <2>2, UnitAt
  <1>8. wordAt[w] = [j \in 1 .. WORD |-> unitAt[(w - 1) * WORD + j]]
    <2> HIDE DEF w
    <2> QED BY <1>6 DEF wordAt
  <1> HIDE DEF s, a, w
  <1> QED BY <1>3, <1>4, <1>5, <1>6, <1>7, <1>8 DEF Word, w

\* What a word is passed on in.
LEMMA TailCarries ==
  ASSUME NEW F, NEW a \in Nat, NEW s, IsSequence(s), s # <<>>, Carries(F, s, a)
  PROVE  Head(s).data = F[a + 1] /\ Carries(F, Tail(s), a + 1)
  <1>1. /\ Len(s) \in Nat /\ Len(s) # 0 /\ Head(s) = s[1] /\ Len(Tail(s)) = Len(s) - 1
        /\ \A j \in 1 .. Len(s) - 1 : Tail(s)[j] = s[j + 1]
    BY Sequences
  <1>2. s[1].data = F[a + 1]
    BY <1>1 DEF Carries
  <1>3. ASSUME NEW j \in 1 .. Len(s) - 1 PROVE Tail(s)[j].data = F[a + 1 + j]
    <2>1. j + 1 \in 1 .. Len(s) /\ a + (j + 1) = a + 1 + j
      BY <1>1
    <2> QED BY <1>1, <2>1 DEF Carries
  <1> QED BY <1>1, <1>2, <1>3 DEF Carries

LEMMA AppendCarries ==
  ASSUME NEW F, NEW a \in Nat, NEW s, IsSequence(s), Carries(F, s, a),
         NEW v, v.data = F[a + Len(s) + 1]
  PROVE  Carries(F, Append(s, v), a)
  <1>1. /\ Len(s) \in Nat /\ Len(Append(s, v)) = Len(s) + 1
        /\ \A j \in 1 .. Len(s) : Append(s, v)[j] = s[j]
        /\ Append(s, v)[Len(s) + 1] = v
    BY Sequences
  <1> SUFFICES ASSUME NEW j \in 1 .. Len(s) + 1 PROVE Append(s, v)[j].data = F[a + j]
    BY <1>1 DEF Carries
  <1>2. CASE j = Len(s) + 1
    BY <1>1, <1>2
  <1>3. CASE j # Len(s) + 1
    BY <1>1, <1>3 DEF Carries
  <1> QED BY <1>2, <1>3

\* The types of what is on its way.
Typed(query, words, in, data, packet, buffer) ==
  /\ query \in Nat /\ words \in Seq(Word) /\ in \in Seq(Word)
  /\ data \in Seq([data : Word, last : BOOLEAN])
  /\ packet \in Seq(Word) /\ buffer \in Seq(Unit)

LEMMA Lens ==
  ASSUME NEW q, NEW w, NEW in, NEW d, NEW p, NEW b, Typed(q, w, in, d, p, b)
  PROVE  /\ q \in Nat /\ q * QUERY_WORDS \in Nat /\ Len(w) \in Nat /\ Len(in) \in Nat
         /\ Len(d) \in Nat /\ Len(p) \in Nat /\ Len(b) \in Nat
         /\ IsSequence(w) /\ IsSequence(in) /\ IsSequence(d) /\ IsSequence(p) /\ IsSequence(b)
  <1>1. QUERY_WORDS \in Nat
    BY Sizes
  <1> QED BY <1>1 DEF Typed, IsSequence

\* A word from the connection to the kernel (consume_word).
LEMMA PassOn ==
  ASSUME NEW q, NEW w, NEW in, NEW d, NEW p, NEW b, NEW n, Typed(q, w, in, d, p, b),
         InTransit(q, w, in, d, p, b, n), d # <<>>
  PROVE  InTransit(q, w, Append(in, Head(d).data), Tail(d), p, b, n)
  <1> DEFINE p1 == q * QUERY_WORDS + Len(w)
             p2 == p1 + Len(in)
  <1>1. p1 \in Nat /\ p2 \in Nat /\ Len(in) \in Nat /\ Len(d) \in Nat
        /\ IsSequence(in) /\ IsSequence(d)
    BY Lens
  <1>2. InOrder(wordAt, in, p1) /\ Carries(wordAt, d, p2)
    BY DEF InTransit
  <1>3. Head(d).data = wordAt[p2 + 1] /\ Carries(wordAt, Tail(d), p2 + 1)
    <2> HIDE DEF p2
    <2> QED BY <1>1, <1>2, TailCarries
  <1>4. InOrder(wordAt, Append(in, Head(d).data), p1)
    <2> HIDE DEF p1
    <2> QED BY <1>1, <1>2, <1>3, AppendInOrder
  <1>5. Len(Append(in, Head(d).data)) = Len(in) + 1 /\ Len(Tail(d)) = Len(d) - 1
    BY <1>1, Sequences
  <1>6. /\ p1 + Len(Append(in, Head(d).data)) = p2 + 1
        /\ p2 + 1 + Len(Tail(d)) = p2 + Len(d)
    <2> HIDE DEF p1
    <2> QED BY <1>1, <1>5
  <1> QED BY <1>3, <1>4, <1>6 DEF InTransit

\* A word from the stack to the connection (stack_word).
LEMMA Deliver ==
  ASSUME NEW q, NEW w, NEW in, NEW d, NEW p, NEW b, NEW n, Typed(q, w, in, d, p, b),
         InTransit(q, w, in, d, p, b, n), p # <<>>, NEW v, v.data = Head(p)
  PROVE  InTransit(q, w, in, Append(d, v), Tail(p), b, n)
  <1> DEFINE p2 == q * QUERY_WORDS + Len(w) + Len(in)
             p3 == p2 + Len(d)
  <1>1. p2 \in Nat /\ p3 \in Nat /\ Len(d) \in Nat /\ Len(p) \in Nat
        /\ IsSequence(d) /\ IsSequence(p)
    BY Lens
  <1>2. Carries(wordAt, d, p2) /\ InOrder(wordAt, p, p3)
    BY DEF InTransit
  <1>3. Head(p) = wordAt[p3 + 1] /\ InOrder(wordAt, Tail(p), p3 + 1)
    <2> HIDE DEF p3
    <2> QED BY <1>1, <1>2, TailInOrder
  <1>4. Carries(wordAt, Append(d, v), p2)
    <2> HIDE DEF p2
    <2> QED BY <1>1, <1>2, <1>3, AppendCarries
  <1>5. Len(Append(d, v)) = Len(d) + 1 /\ Len(Tail(p)) = Len(p) - 1
    BY <1>1, Sequences
  <1>6. /\ p2 + Len(Append(d, v)) = p3 + 1
        /\ p3 + 1 + Len(Tail(p)) = p3 + Len(p)
    <2> HIDE DEF p2
    <2> QED BY <1>1, <1>5
  <1> QED BY <1>3, <1>4, <1>6 DEF InTransit

\* A word to the search; the last one of a query starts the next (search_word).
LEMMA Collect ==
  ASSUME NEW q, NEW w, NEW in, NEW d, NEW p, NEW b, NEW n, Typed(q, w, in, d, p, b),
         InTransit(q, w, in, d, p, b, n), in # <<>>
  PROVE  LET all == Append(w, Head(in))
         IN  IF Len(all) = QUERY_WORDS THEN InTransit(q + 1, <<>>, Tail(in), d, p, b, n)
             ELSE InTransit(q, all, Tail(in), d, p, b, n)
  <1> DEFINE all == Append(w, Head(in))
             p0 == q * QUERY_WORDS
             p1 == p0 + Len(w)
  <1>1. q \in Nat /\ p0 \in Nat /\ p1 \in Nat /\ Len(w) \in Nat /\ Len(in) \in Nat
        /\ IsSequence(w) /\ IsSequence(in) /\ QUERY_WORDS \in Nat \ {0}
    BY Lens, Sizes
  <1>2. InOrder(wordAt, w, p0) /\ InOrder(wordAt, in, p1) /\ Len(w) < QUERY_WORDS
    BY DEF InTransit
  <1>3. Head(in) = wordAt[p1 + 1] /\ InOrder(wordAt, Tail(in), p1 + 1)
    <2> HIDE DEF p1
    <2> QED BY <1>1, <1>2, TailInOrder
  <1>4. InOrder(wordAt, all, p0)
    <2> HIDE DEF p0
    <2> QED BY <1>1, <1>2, <1>3, AppendInOrder
  <1>5. Len(all) = Len(w) + 1 /\ Len(Tail(in)) = Len(in) - 1
    BY <1>1, Sequences
  <1>6. p1 + 1 + Len(Tail(in)) = p1 + Len(in) /\ p0 + Len(all) = p1 + 1
    <2> HIDE DEF p0
    <2> QED BY <1>1, <1>5
  <1>7. CASE Len(all) = QUERY_WORDS
    <2>1. (q + 1) * QUERY_WORDS = p0 + QUERY_WORDS
      BY <1>1
    <2>2. (q + 1) * QUERY_WORDS + Len(<<>>) = p1 + 1 /\ (q + 1) * QUERY_WORDS = p1 + 1
      <3> DEFINE z == (q + 1) * QUERY_WORDS
      <3>1. z = p0 + QUERY_WORDS /\ Len(<<>>) = 0
        BY <2>1
      <3>2. z + Len(<<>>) = p1 + 1 /\ z = p1 + 1
        <4> HIDE DEF z, p0, all
        <4> QED BY <1>1, <1>6, <1>7, <3>1
      <3> QED BY <3>2
    <2>3. Len(<<>>) < QUERY_WORDS /\ InOrder(wordAt, <<>>, (q + 1) * QUERY_WORDS)
      BY <1>1, NoneInOrder
    <2>4. InTransit(q + 1, <<>>, Tail(in), d, p, b, n)
      <3> DEFINE z == (q + 1) * QUERY_WORDS
      <3>1. z + Len(<<>>) = p1 + 1 /\ z = p1 + 1 /\ InOrder(wordAt, <<>>, z)
        BY <2>2, <2>3
      <3> HIDE DEF p1
      <3>2. /\ Carries(wordAt, d, p1 + Len(in)) /\ InOrder(wordAt, p, p1 + Len(in) + Len(d))
            /\ InOrder(unitAt, b, (p1 + Len(in) + Len(d) + Len(p)) * WORD)
            /\ (p1 + Len(in) + Len(d) + Len(p)) * WORD + Len(b) = n
        BY DEF InTransit, p1
      <3> QED BY <1>3, <1>6, <2>3, <3>1, <3>2 DEF InTransit
    <2> QED BY <1>7, <2>4
  <1>8. CASE Len(all) # QUERY_WORDS
    <2>1. Len(all) < QUERY_WORDS
      BY <1>1, <1>2, <1>5, <1>8
    <2>2. InTransit(q, all, Tail(in), d, p, b, n)
      <3> HIDE DEF all
      <3> QED BY <1>3, <1>4, <1>6, <2>1 DEF InTransit
    <2> QED BY <1>8, <2>2
  <1> QED BY <1>7, <1>8


\* The words of a packet are cut from the head of the buffer (stack_read).
LEMMA Cut ==
  ASSUME NEW q, NEW w, NEW in, NEW d, NEW b, NEW n, Typed(q, w, in, d, <<>>, b),
         InTransit(q, w, in, d, <<>>, b, n), NEW k \in Nat,
         NEW f \in Seq(Unit), Len(f) = k * WORD, \A i \in 1 .. k * WORD : f[i] = b[i],
         NEW r \in Seq(Unit), Len(r) = Len(b) - k * WORD,
         \A i \in 1 .. Len(b) - k * WORD : r[i] = b[k * WORD + i],
         k * WORD <= Len(b)
  PROVE  InTransit(q, w, in, d, Chunks(f, WORD), r, n)
  <1> DEFINE p == q * QUERY_WORDS + Len(w) + Len(in) + Len(d)
             m == k * WORD
             c == Chunks(f, WORD)
             z == p * WORD
  <1>1. p \in Nat /\ Len(b) \in Nat /\ Len(<<>>) = 0 /\ p + 0 = p /\ WORD \in Nat \ {0}
        /\ m \in Nat /\ z \in Nat
    <2>1. p \in Nat /\ Len(b) \in Nat /\ WORD \in Nat \ {0}
      <3>1. /\ q * QUERY_WORDS \in Nat /\ Len(w) \in Nat /\ Len(in) \in Nat /\ Len(d) \in Nat
            /\ Len(b) \in Nat
        BY Lens
      <3> DEFINE y == q * QUERY_WORDS
      <3> HIDE DEF y
      <3>2. y + Len(w) + Len(in) + Len(d) \in Nat
        BY <3>1 DEF y
      <3> QED BY <3>1, <3>2, Sizes DEF y
    <2>2. m \in Nat /\ z \in Nat
      <3> HIDE DEF p
      <3> QED BY <2>1
    <2> HIDE DEF p
    <2> QED BY <2>1, <2>2
  <1>2. /\ InOrder(unitAt, b, z) /\ z + Len(b) = n
    <2>1. /\ InOrder(unitAt, b, (p + Len(<<>>)) * WORD)
          /\ (p + Len(<<>>)) * WORD + Len(b) = n
      BY DEF InTransit
    <2>2. p + Len(<<>>) = p
      BY <1>1
    <2> QED BY <2>1, <2>2
  <1>3. /\ Len(c) = k /\ c \in Seq(Word)
        /\ \A i \in 1 .. k : /\ Len(c[i]) = WORD
                            /\ \A j \in 1 .. WORD : c[i][j] = f[(i - 1) * WORD + j]
    <2>1. WORD \in Nat \ {0}
      BY <1>1
    <2>2. c \in Seq(Word) /\ Pieced(f, WORD, c, k)
      BY <2>1, Pieces DEF Word
    <2> HIDE DEF c
    <2> QED BY <2>2 DEF Pieced
  <1>4. InOrder(wordAt, c, p)
    <2> SUFFICES ASSUME NEW i \in 1 .. k PROVE c[i] = wordAt[p + i]
      BY <1>3 DEF InOrder
    <2> DEFINE a == (i - 1) * WORD
    <2>1. a \in Nat /\ a + WORD <= m
      <3>1. i * WORD <= k * WORD /\ i * WORD = a + WORD /\ a \in Nat
        BY <1>1
      <3> QED BY <3>1
    <2>2. ASSUME NEW j \in 1 .. WORD PROVE f[a + j] = unitAt[(p + i - 1) * WORD + j]
      <3>1. a + j \in 1 .. m /\ a + j \in 1 .. Len(b)
        <4>1. m <= Len(b) /\ m \in Nat /\ WORD \in Nat /\ Len(b) \in Nat
          BY <1>1 DEF m
        <4> DEFINE lb == Len(b)
        <4> HIDE DEF a, m, lb
        <4>2. j \in 1 .. WORD
          OBVIOUS
        <4>3. m <= lb /\ m \in Nat /\ lb \in Nat
          BY <4>1 DEF lb
        <4>4. a + j \in 1 .. m /\ a + j \in 1 .. lb
          BY ONLY <2>1, <4>1, <4>2, <4>3
        <4> QED BY <4>4 DEF lb
      <3>2. f[a + j] = b[a + j]
        <4> HIDE DEF a
        <4> QED BY <3>1
      <3>3. b[a + j] = unitAt[z + (a + j)]
        <4> HIDE DEF a, z
        <4> QED BY <1>2, <3>1 DEF InOrder
      <3>4. (p + i - 1) * WORD + j = z + (a + j)
        <4> DEFINE y == (p + i - 1) * WORD
        <4>1. y = z + a
          <5> HIDE DEF p
          <5>1. p + i - 1 = p + (i - 1) /\ i - 1 \in Nat
            BY <1>1
          <5> DEFINE e == i - 1
          <5>2. (p + e) * WORD = p * WORD + e * WORD
            <6> HIDE DEF e
            <6> QED BY <1>1, <5>1 DEF e
          <5> QED BY <5>1, <5>2
        <4>2. y + j = z + (a + j)
          <5> HIDE DEF y, z, a
          <5> QED BY <1>1, <2>1, <4>1
        <4> QED BY <4>2
      <3> QED BY <3>2, <3>3, <3>4
    <2>3. p + i \in Nat \ {0}
      <3> HIDE DEF p
      <3> QED BY <1>1
    <2> DEFINE e == p + i
    <2>4. wordAt[e] = [j \in 1 .. WORD |-> unitAt[(e - 1) * WORD + j]]
      <3> HIDE DEF e
      <3> QED BY <2>3 DEF wordAt, e
    <2>5. ASSUME NEW j \in 1 .. WORD PROVE c[i][j] = unitAt[(e - 1) * WORD + j]
      <3>1. c[i][j] = f[(i - 1) * WORD + j]
        <4> HIDE DEF c
        <4> QED BY <1>3
      <3>2. f[(i - 1) * WORD + j] = unitAt[(p + i - 1) * WORD + j]
        BY <2>2
      <3>3. (e - 1) * WORD = (p + i - 1) * WORD
        <4>1. e - 1 = p + i - 1
          <5> HIDE DEF p
          <5> QED BY <1>1
        <4> HIDE DEF p, e
        <4> QED BY <4>1
      <3> HIDE DEF p, c, e
      <3> QED BY <3>1, <3>2, <3>3
    <2>6. DOMAIN c[i] = 1 .. WORD /\ c[i] = [j \in DOMAIN c[i] |-> c[i][j]]
      <3>1. c[i] \in Seq(Unit) /\ Len(c[i]) = WORD
        <4>1. c[i] \in Word /\ Len(c[i]) = WORD
          BY <1>3
        <4> HIDE DEF c
        <4> QED BY <4>1 DEF Word
      <3> HIDE DEF c
      <3> QED BY <3>1
    <2> DEFINE g == [j \in 1 .. WORD |-> unitAt[(e - 1) * WORD + j]]
    <2>7. DOMAIN g = 1 .. WORD /\ g = [j \in DOMAIN g |-> g[j]]
          /\ \A j \in 1 .. WORD : c[i][j] = g[j]
      BY <2>5
    <2> HIDE DEF g, c, e
    <2>8. c[i] = g
      BY <2>6, <2>7
    <2> QED BY <2>4, <2>8 DEF e, g
  <1>5. (p + Len(c)) * WORD = z + m
    <2> HIDE DEF p, c
    <2>1. (p + k) * WORD = p * WORD + k * WORD
      BY <1>1
    <2> QED BY <1>3, <2>1
  <1>6. InOrder(unitAt, r, z + m)
    <2> SUFFICES ASSUME NEW i \in 1 .. Len(r) PROVE r[i] = unitAt[z + m + i]
      BY DEF InOrder
    <2> HIDE DEF z
    <2>1. m + i \in 1 .. Len(b) /\ z + (m + i) = z + m + i /\ i \in 1 .. Len(b) - m
      <3>1. i \in 1 .. Len(b) - m
        OBVIOUS
      <3> HIDE DEF m
      <3> QED BY <1>1, <3>1
    <2>2. r[i] = b[m + i]
      BY <2>1
    <2> HIDE DEF m
    <2> QED BY <1>2, <2>1, <2>2 DEF InOrder
  <1>7. z + m + Len(r) = n
    <2>1. Len(r) = Len(b) - m
      OBVIOUS
    <2> HIDE DEF z, m
    <2> QED BY <1>1, <1>2, <2>1
  <1> HIDE DEF c, z, m
  <1> QED BY <1>4, <1>5, <1>6, <1>7 DEF InTransit, c

\* The host sends the next units (host_send).
LEMMA Extend ==
  ASSUME NEW q, NEW w, NEW in, NEW d, NEW p, NEW b, NEW h \in Nat, NEW before \in Nat,
         Typed(q, w, in, d, p, b),
         InTransit(q, w, in, d, p, b, h * QUERY_UNITS + before),
         NEW u \in Seq(Unit), before + Len(u) <= QUERY_UNITS,
         \A j \in 1 .. Len(u) : u[j] = <<h + 1, before + j>>
  PROVE  InTransit(q, w, in, d, p, b \o u, h * QUERY_UNITS + (before + Len(u)))
  <1> DEFINE z == (q * QUERY_WORDS + Len(w) + Len(in) + Len(d) + Len(p)) * WORD
             y == h * QUERY_UNITS
  <1>1. z \in Nat /\ y \in Nat /\ Len(b) \in Nat /\ Len(u) \in Nat /\ b \in Seq(Unit)
        /\ QUERY_UNITS \in Nat
    <2> DEFINE p4 == q * QUERY_WORDS + Len(w) + Len(in) + Len(d) + Len(p)
    <2>1. p4 \in Nat /\ WORD \in Nat /\ QUERY_UNITS \in Nat /\ Len(b) \in Nat
      <3>1. /\ q * QUERY_WORDS \in Nat /\ Len(w) \in Nat /\ Len(in) \in Nat /\ Len(d) \in Nat
            /\ Len(p) \in Nat /\ Len(b) \in Nat
        BY Lens
      <3> DEFINE x == q * QUERY_WORDS
      <3>2. x \in Nat
        BY <3>1
      <3> HIDE DEF x
      <3>3. x + Len(w) + Len(in) + Len(d) + Len(p) \in Nat
        BY <3>1, <3>2
      <3> QED BY <3>1, <3>3, Sizes DEF x
    <2>2. p4 * WORD \in Nat
      <3> HIDE DEF p4
      <3> QED BY <2>1
    <2> QED BY <2>1, <2>2 DEF Typed
  <1>2. InOrder(unitAt, b, z) /\ z + Len(b) = y + before
    BY DEF InTransit
  <1>3. InOrder(unitAt, u, z + Len(b))
    <2> SUFFICES ASSUME NEW j \in 1 .. Len(u) PROVE u[j] = unitAt[z + Len(b) + j]
      BY DEF InOrder
    <2>1. z + Len(b) + j = y + (before + j) /\ before + j \in 1 .. QUERY_UNITS
      <3> DEFINE lu == Len(u)
                 lb == Len(b)
      <3>1. lu \in Nat /\ lb \in Nat /\ z + lb = y + before /\ before + lu <= QUERY_UNITS
            /\ j \in 1 .. lu
        BY <1>1, <1>2
      <3>2. z + lb + j = y + (before + j) /\ before + j \in 1 .. QUERY_UNITS
        <4> HIDE DEF z, y, lu, lb
        <4> QED BY <1>1, <3>1
      <3> QED BY <3>2
    <2>2. unitAt[y + (before + j)] = <<h + 1, before + j>>
      BY <2>1, UnitAt
    <2> HIDE DEF z, y
    <2> QED BY <2>1, <2>2
  <1>4. InOrder(unitAt, b \o u, z)
    <2> HIDE DEF z
    <2> QED BY <1>1, <1>2, <1>3, ConcatInOrder
  <1>5. Len(b \o u) = Len(b) + Len(u)
    BY <1>1
  <1>6. z + Len(b \o u) = y + (before + Len(u))
    <2> DEFINE lu == Len(u)
               lb == Len(b)
               all == Len(b \o u)
    <2>1. lu \in Nat /\ lb \in Nat /\ z + lb = y + before /\ all = lb + lu
      BY <1>1, <1>2, <1>5
    <2>2. z \in Nat /\ y \in Nat /\ before \in Nat
      BY <1>1
    <2>3. z + all = y + (before + lu)
      <3> HIDE DEF z, y, lu, lb, all
      <3> QED BY ONLY <2>1, <2>2
    <2> QED BY <2>3
  <1> QED BY <1>4, <1>6 DEF InTransit

\* A sequence that starts like another.
LEMMA Prefix ==
  ASSUME NEW V, NEW s \in Seq(V), NEW t \in Seq(V), Len(s) <= Len(t),
         \A k \in 1 .. Len(s) : s[k] = t[k]
  PROVE  IsPrefix(s, t)
  <1>1. Len(s) \in Nat
    OBVIOUS
  <1>2. SubSeq(s, 1, Len(s)) = SubSeq(t, 1, Len(s))
    <2>1. /\ SubSeq(s, 1, Len(s)) = [k \in 1 .. Len(s) |-> s[k]]
          /\ SubSeq(t, 1, Len(s)) = [k \in 1 .. Len(s) |-> t[k]]
      BY <1>1
    <2> QED BY <2>1
  <1> QED BY <1>2 DEF IsPrefix

\* What has arrived is the head of what is still to come from the host.
LEMMA Arrived ==
  ASSUME NEW q, NEW w, NEW in, NEW d, NEW p, NEW b, NEW n \in Nat, NEW N \in Nat,
         Typed(q, w, in, d, p, b), InTransit(q, w, in, d, p, b, n), n <= N * QUERY_UNITS
  PROVE  IsPrefix(w \o in, FlattenSeq([k \in 1 .. N - q |->
                                         [v \in 1 .. QUERY_WORDS |-> QueryWord(q + k, v)]]))
  <1> DEFINE p0 == q * QUERY_WORDS
             p2 == p0 + Len(w) + Len(in)
             p4 == p2 + Len(d) + Len(p)
             seqs == [k \in 1 .. N - q |-> [v \in 1 .. QUERY_WORDS |-> QueryWord(q + k, v)]]
             s == w \o in
  <1>1. /\ q \in Nat /\ p0 \in Nat /\ p2 \in Nat /\ p4 \in Nat /\ Len(b) \in Nat
        /\ WORD \in Nat \ {0} /\ QUERY_WORDS \in Nat \ {0} /\ p0 <= p2 /\ p2 <= p4
        /\ Len(w) \in Nat /\ Len(in) \in Nat
    <2>1. /\ q \in Nat /\ p0 \in Nat /\ Len(w) \in Nat /\ Len(in) \in Nat /\ Len(d) \in Nat
          /\ Len(p) \in Nat /\ Len(b) \in Nat
      BY Lens
    <2>2. p2 = p0 + Len(w) + Len(in) /\ p4 = p2 + Len(d) + Len(p)
      OBVIOUS
    <2> HIDE DEF p0, p2, p4
    <2>3. p2 \in Nat /\ p0 <= p2
      BY <2>1, <2>2
    <2>4. p4 \in Nat /\ p2 <= p4
      BY <2>1, <2>2, <2>3
    <2> QED BY <2>1, <2>3, <2>4, Sizes
  <1>2. s \in Seq(Word) /\ Len(s) = Len(w) + Len(in) /\ w \in Seq(Word) /\ in \in Seq(Word)
    BY DEF Typed
  <1>3. InOrder(wordAt, s, p0)
    <2>1. InOrder(wordAt, w, p0) /\ InOrder(wordAt, in, p0 + Len(w))
      BY DEF InTransit
    <2> HIDE DEF p0
    <2> QED BY <1>1, <1>2, <2>1, ConcatInOrder
  <1>4. p2 <= N * QUERY_WORDS
    <2>1. p4 * WORD + Len(b) = n
      BY DEF InTransit
    <2> DEFINE e == N * QUERY_WORDS
               x == p4 * WORD
               y == e * WORD
    <2>2. N * QUERY_UNITS = y /\ e \in Nat
      BY <1>1 DEF QUERY_UNITS
    <2>3. x <= y
      <3>1. x \in Nat /\ y \in Nat
        <4> HIDE DEF p4, e
        <4> QED BY <1>1, <2>2
      <3>2. x + Len(b) = n /\ n <= y
        BY <2>1, <2>2
      <3> HIDE DEF x, y
      <3> QED BY <1>1, <3>1, <3>2
    <2>4. p4 <= e
      <3> SUFFICES ASSUME e < p4 PROVE FALSE
        <4> HIDE DEF p4, e
        <4> QED BY <1>1, <2>2
      <3> HIDE DEF p4, e
      <3>1. e + 1 <= p4
        BY <1>1, <2>2
      <3>2. (e + 1) * WORD <= p4 * WORD
        BY <1>1, <2>2, <3>1
      <3>3. (e + 1) * WORD = e * WORD + WORD
        BY <1>1, <2>2
      <3>4. e * WORD \in Nat /\ p4 * WORD \in Nat
        BY <1>1, <2>2
      <3> QED BY <1>1, <2>3, <3>2, <3>3, <3>4
    <2> HIDE DEF p2, p4, e
    <2>5. p2 <= e
      BY <1>1, <2>2, <2>4
    <2> QED BY <2>5 DEF e
  <1>5. q <= N
    <2> SUFFICES ASSUME N < q PROVE FALSE
      BY <1>1
    <2> DEFINE e == N * QUERY_WORDS
    <2>1. (N + 1) * QUERY_WORDS <= q * QUERY_WORDS /\ (N + 1) * QUERY_WORDS = e + QUERY_WORDS
          /\ e \in Nat
      BY <1>1
    <2>2. p0 <= e
      <3>1. p2 <= e /\ e \in Nat
        BY <1>4, <2>1
      <3> HIDE DEF p0, p2, e
      <3> QED BY <1>1, <3>1
    <2>3. e + QUERY_WORDS <= p0
      BY <2>1
    <2> HIDE DEF e, p0
    <2> QED BY <1>1, <2>1, <2>2, <2>3
  <1>6. N - q \in Nat /\ (N - q) * QUERY_WORDS = N * QUERY_WORDS - p0
    BY <1>1, <1>5
  <1>w. ASSUME NEW x \in Nat, NEW v \in 1 .. QUERY_WORDS
        PROVE  /\ QueryWord(x + 1, v) \in Word /\ x * QUERY_WORDS + v \in Nat \ {0}
               /\ wordAt[x * QUERY_WORDS + v] = QueryWord(x + 1, v)
    <2> DEFINE r == v - 1
    <2>1. r \in 0 .. QUERY_WORDS - 1 /\ r + 1 = v
      BY <1>1
    <2> DEFINE y == x * QUERY_WORDS
    <2>2. y \in Nat
      BY <1>1
    <2>3. y + r + 1 = y + v
      <3> HIDE DEF y
      <3> QED BY <1>1, <2>2
    <2> HIDE DEF r
    <2>4. /\ QueryWord(x + 1, r + 1) \in Word /\ y + r + 1 \in Nat \ {0}
          /\ wordAt[y + r + 1] = QueryWord(x + 1, r + 1)
      BY <2>1, WordAt
    <2> QED BY <2>1, <2>3, <2>4
  <1>7. seqs \in [1 .. N - q -> Seq(Word)] /\ \A k \in 1 .. N - q : Len(seqs[k]) = QUERY_WORDS
    <2>1. ASSUME NEW k \in 1 .. N - q
          PROVE  [v \in 1 .. QUERY_WORDS |-> QueryWord(q + k, v)] \in Seq(Word)
                 /\ Len([v \in 1 .. QUERY_WORDS |-> QueryWord(q + k, v)]) = QUERY_WORDS
      <3>1. \A v \in 1 .. QUERY_WORDS : QueryWord(q + k, v) \in Word
        <4>1. q + k - 1 \in Nat /\ q + k - 1 + 1 = q + k
          BY <1>1, <1>6
        <4> QED BY <1>w, <4>1
      <3> QED BY <1>1, <3>1
    <2> QED BY <2>1
  <1>8. /\ FlattenSeq(seqs) \in Seq(Word) /\ Len(FlattenSeq(seqs)) = (N - q) * QUERY_WORDS
        /\ \A k \in 1 .. (N - q) * QUERY_WORDS :
             FlattenSeq(seqs)[k] = seqs[(k - 1) \div QUERY_WORDS + 1][((k - 1) % QUERY_WORDS) + 1]
    <2> DEFINE M == N - q
    <2>1. M \in Nat /\ seqs \in [1 .. M -> Seq(Word)] /\ QUERY_WORDS \in Nat \ {0}
          /\ \A k \in 1 .. M : Len(seqs[k]) = QUERY_WORDS
      BY <1>1, <1>6, <1>7
    <2> HIDE DEF seqs, M
    <2>2. /\ FlattenSeq(seqs) \in Seq(Word) /\ Len(FlattenSeq(seqs)) = M * QUERY_WORDS
          /\ \A k \in 1 .. M * QUERY_WORDS :
               FlattenSeq(seqs)[k]
                 = seqs[(k - 1) \div QUERY_WORDS + 1][((k - 1) % QUERY_WORDS) + 1]
      BY <2>1, FlattenUniform, ZenonT(60)
    <2> QED BY <2>2 DEF M
  <1>9. Len(s) <= (N - q) * QUERY_WORDS
    <2> DEFINE e == N * QUERY_WORDS
               f == (N - q) * QUERY_WORDS
    <2>1. f = e - p0 /\ p2 <= e /\ e \in Nat
      BY <1>1, <1>4, <1>6
    <2>2. p2 = p0 + Len(s)
      <3> HIDE DEF p0, s
      <3> QED BY <1>1, <1>2
    <2> HIDE DEF e, f, p0, p2, s
    <2>3. Len(s) <= f
      BY <1>1, <1>2, <2>1, <2>2
    <2> QED BY <2>3 DEF f
  <1>10. ASSUME NEW k \in 1 .. Len(s) PROVE s[k] = FlattenSeq(seqs)[k]
    <2> DEFINE e == (k - 1) \div QUERY_WORDS
               r == (k - 1) % QUERY_WORDS
               f == (N - q) * QUERY_WORDS
    <2>1. k - 1 \in Nat /\ k \in 1 .. f /\ f \in Nat
      <3>1. f \in Nat /\ Len(s) <= f /\ Len(s) \in Nat
        BY <1>1, <1>2, <1>6, <1>9
      <3> HIDE DEF f, s
      <3> QED BY <3>1
    <2>2. e \in Nat /\ r \in 0 .. QUERY_WORDS - 1 /\ k - 1 = e * QUERY_WORDS + r /\ e < N - q
      <3>1. k - 1 < (N - q) * QUERY_WORDS
        <4> HIDE DEF f
        <4>1. k - 1 < f
          BY <2>1
        <4> QED BY <4>1 DEF f
      <3> QED BY <1>1, <1>6, <2>1, <3>1, Quotient
    <2>3. s[k] = wordAt[p0 + k]
      <3> HIDE DEF s, p0
      <3> QED BY <1>3 DEF InOrder
    <2> DEFINE x == q + e
    <2>4. p0 + k = x * QUERY_WORDS + (r + 1)
      <3> DEFINE y == x * QUERY_WORDS
                 g == e * QUERY_WORDS
      <3>1. y = p0 + g
        <4> HIDE DEF e
        <4> QED BY <1>1, <2>2
      <3>2. k - 1 = g + r /\ g \in Nat
        <4>1. k - 1 = g + r
          BY <2>2
        <4>2. g \in Nat
          <5> HIDE DEF e
          <5> QED BY <1>1, <2>2
        <4> QED BY <4>1, <4>2
      <3> HIDE DEF p0, y, g, r
      <3>3. p0 + k = y + (r + 1)
        BY <1>1, <2>2, <3>1, <3>2
      <3> QED BY <3>3 DEF y
    <2>5. x \in Nat /\ r + 1 \in 1 .. QUERY_WORDS /\ e + 1 \in 1 .. N - q /\ x + 1 = q + (e + 1)
      <3> HIDE DEF e, r
      <3> QED BY <1>1, <1>6, <2>2
    <2>6. wordAt[x * QUERY_WORDS + (r + 1)] = QueryWord(x + 1, r + 1)
      <3> HIDE DEF x, r
      <3> QED BY <1>w, <2>5
    <2>7. FlattenSeq(seqs)[k] = seqs[e + 1][r + 1]
      <3>1. k \in 1 .. (N - q) * QUERY_WORDS
        BY <2>1
      <3> HIDE DEF seqs
      <3> QED BY <1>8, <3>1
    <2>8. seqs[e + 1][r + 1] = QueryWord(q + (e + 1), r + 1)
      <3> HIDE DEF e, r
      <3> QED BY <2>5
    <2> HIDE DEF s, seqs, e, r, x, p0
    <2> QED BY <2>3, <2>4, <2>5, <2>6, <2>7, <2>8
  <1> HIDE DEF s, seqs
  <1>11. IsPrefix(s, FlattenSeq(seqs))
    BY <1>2, <1>8, <1>9, <1>10, Prefix
  <1> QED BY <1>11 DEF s, seqs


-----------------------------------------------------------------------------
(* The words on their way, in every state.                                 *)

Wholes == {k * WORD : k \in Nat}

\* The units the host has sent.
Sent == (at[host].query - 1) * QUERY_UNITS + SumTo(request.segments, at[host].segment - 1)

OnTheWay == InTransit(at[search].query, at[search].words, fifo[s_kernel_network_in],
                      fifo[s_axis_tcp_rx_data], at[stack].packet, at[stack].buffer, Sent)

WholeLengths == /\ fifo[s_axis_tcp_notification] \in Seq(Wholes)
                /\ fifo[m_axis_tcp_read_pkg] \in Seq(Wholes)

WordsInv == Aligned => OnTheWay /\ WholeLengths

\* What an action must show: the same, and the request as it was.
WordsKept == OnTheWay' /\ WholeLengths' /\ UNCHANGED request

\* Everything the words pass through is typed.
LEMMA TransitTyped ==
  ASSUME TypeOK
  PROVE  Typed(at[search].query, at[search].words, fifo[s_kernel_network_in],
               fifo[s_axis_tcp_rx_data], at[stack].packet, at[stack].buffer)
  <1>1. /\ at[search] \in [words : Seq(Word), query : Nat, left : 0 .. TOPK]
        /\ at[stack] \in [buffer : Seq(Unit), packet : Seq(Word), accepted : Seq(Nat),
                          zeros : Nat, retries : Nat]
    BY TypedLocals
  <1>2. /\ fifo[s_kernel_network_in] \in Seq(Word)
        /\ fifo[s_axis_tcp_rx_data] \in Seq([data : Word, last : BOOLEAN])
    BY AllStreams, ValuesOf DEF TypeOK
  <1> QED BY <1>1, <1>2 DEF Typed

\* The handshake passes a length on.
LEMMA HandshakeWords ==
  ASSUME TypeOK, OnTheWay, WholeLengths, recvData_handshake
  PROVE  WordsKept
  <1> DEFINE note == s_axis_tcp_notification
             pkg == m_axis_tcp_read_pkg
             C == {note, s_consumeDataReady, pkg, nextRxPacketLength}
  <1>1. /\ Takes(note) /\ Streams(C)
        /\ IF Head(fifo[note]) = 0
           THEN UNCHANGED <<fifo[pkg], fifo[nextRxPacketLength]>>
           ELSE Writes(pkg, Head(fifo[note])) /\ Writes(nextRxPacketLength, Head(fifo[note]))
        /\ Moves(handshake, [at[handshake] EXCEPT !.rxByteCnt = @ + Head(fifo[note])])
        /\ UNCHANGED <<left, request>>
    BY TypedShape, HandshakeEffect
  <1>2. /\ s_kernel_network_in \notin C /\ s_axis_tcp_rx_data \notin C
        /\ s_kernel_network_in \in Stream /\ s_axis_tcp_rx_data \in Stream
    BY Names, AllStreams
  <1>3. /\ fifo'[s_kernel_network_in] = fifo[s_kernel_network_in]
        /\ fifo'[s_axis_tcp_rx_data] = fifo[s_axis_tcp_rx_data]
    BY <1>1, <1>2 DEF Streams
  <1>4. at'[search] = at[search] /\ at'[stack] = at[stack] /\ at'[host] = at[host]
    BY <1>1, AllProcesses, ProcessNames DEF Moves
  <1>5. OnTheWay'
    BY <1>1, <1>3, <1>4 DEF OnTheWay, Sent
  <1>6. WholeLengths'
    <2>1. fifo[note] \in Seq(Wholes) /\ fifo[pkg] \in Seq(Wholes)
      BY DEF WholeLengths
    <2>2. Head(fifo[note]) \in Wholes /\ fifo'[note] \in Seq(Wholes)
      BY <1>1, <2>1, QueueTake
    <2>3. fifo'[pkg] \in Seq(Wholes)
      BY <1>1, <2>1, <2>2, QueueWrite
    <2> QED BY <2>2, <2>3 DEF WholeLengths
  <1> QED BY <1>1, <1>5, <1>6 DEF WordsKept

\* Each step that moves words keeps them in order.
LEMMA ConsumeWords ==
  ASSUME TypeOK, OnTheWay, WholeLengths, consume_word
  PROVE  WordsKept
  <1> DEFINE in == s_kernel_network_in
             data == s_axis_tcp_rx_data
             C == {data, in, s_consumeDataReady}
  <1>1. /\ Takes(data) /\ Writes(in, Head(fifo[data]).data) /\ Streams(C)
        /\ UNCHANGED <<left, request>>
    BY TypedShape, ConsumeWordEffect
  <1>2. \E x : Moves(consume, x)
    BY TypedShape, ConsumeWordEffect
  <1>3. at'[search] = at[search] /\ at'[stack] = at[stack] /\ at'[host] = at[host]
    BY <1>2, AllProcesses, ProcessNames DEF Moves
  <1>4. /\ fifo'[s_axis_tcp_notification] = fifo[s_axis_tcp_notification]
        /\ fifo'[m_axis_tcp_read_pkg] = fifo[m_axis_tcp_read_pkg]
    BY <1>1, Names, AllStreams DEF Streams
  <1>5. InTransit(at[search].query, at[search].words, Append(fifo[in], Head(fifo[data]).data),
                  Tail(fifo[data]), at[stack].packet, at[stack].buffer, Sent)
    BY <1>1, TransitTyped, PassOn DEF OnTheWay, Takes
  <1>6. Sent' = Sent
    BY <1>1, <1>3 DEF Sent
  <1>7. OnTheWay'
    BY <1>1, <1>3, <1>5, <1>6 DEF OnTheWay, Takes, Writes
  <1> QED BY <1>1, <1>4, <1>7 DEF WordsKept, WholeLengths

LEMMA SearchWords ==
  ASSUME TypeOK, OnTheWay, WholeLengths, search_word
  PROVE  WordsKept
  <1> DEFINE in == s_kernel_network_in
             l == at[search]
             all == Append(l.words, Head(fifo[in]))
             full == Len(all) = QUERY_WORDS
             C == {in, s_batch_header(output)}
             x == IF full THEN [words |-> <<>>, query |-> l.query + 1, left |-> TOPK]
                  ELSE [l EXCEPT !.words = all]
  <1>1. Takes(in) /\ Streams(C) /\ Moves(search, x) /\ UNCHANGED <<left, request>>
    BY TypedShape, SearchWordEffect
  <1>2. /\ fifo'[s_axis_tcp_notification] = fifo[s_axis_tcp_notification]
        /\ fifo'[m_axis_tcp_read_pkg] = fifo[m_axis_tcp_read_pkg]
        /\ fifo'[s_axis_tcp_rx_data] = fifo[s_axis_tcp_rx_data]
    BY <1>1, Names, AllStreams DEF Streams
  <1>3. at'[search] = x /\ at'[stack] = at[stack] /\ at'[host] = at[host]
    BY <1>1, AllProcesses, ProcessNames DEF Moves
  <1>4. IF full
        THEN InTransit(l.query + 1, <<>>, Tail(fifo[in]), fifo[s_axis_tcp_rx_data],
                       at[stack].packet, at[stack].buffer, Sent)
        ELSE InTransit(l.query, all, Tail(fifo[in]), fifo[s_axis_tcp_rx_data],
                       at[stack].packet, at[stack].buffer, Sent)
    BY <1>1, TransitTyped, Collect DEF OnTheWay, Takes
  <1>5. Sent' = Sent
    BY <1>1, <1>3 DEF Sent
  <1>6. l \in [words : Seq(Word), query : Nat, left : 0 .. TOPK]
    BY TypedLocals
  <1>7. IF full THEN x.words = <<>> /\ x.query = l.query + 1
        ELSE x.words = all /\ x.query = l.query
    BY <1>6
  <1> HIDE DEF x, full, all
  <1>8. OnTheWay'
    BY <1>1, <1>2, <1>3, <1>4, <1>5, <1>7 DEF OnTheWay, Takes
  <1> QED BY <1>1, <1>2, <1>8 DEF WordsKept, WholeLengths

LEMMA ZeroWords ==
  ASSUME TypeOK, OnTheWay, WholeLengths, stack_zero
  PROVE  WordsKept
  <1> DEFINE note == s_axis_tcp_notification
             x == [at[stack] EXCEPT !.zeros = @ + 1]
  <1>1. Writes(note, 0) /\ Streams({note}) /\ Moves(stack, x) /\ UNCHANGED <<left, request>>
    BY TypedShape, StackZeroEffect
  <1>2. /\ fifo'[s_kernel_network_in] = fifo[s_kernel_network_in]
        /\ fifo'[m_axis_tcp_read_pkg] = fifo[m_axis_tcp_read_pkg]
        /\ fifo'[s_axis_tcp_rx_data] = fifo[s_axis_tcp_rx_data]
    BY <1>1, Names, AllStreams DEF Streams
  <1>3. at'[stack] = x /\ at'[search] = at[search] /\ at'[host] = at[host]
    BY <1>1, AllProcesses, ProcessNames DEF Moves
  <1>4. x.buffer = at[stack].buffer /\ x.packet = at[stack].packet
    BY TypedLocals
  <1>5. Sent' = Sent
    BY <1>1, <1>3 DEF Sent
  <1> HIDE DEF x
  <1>6. OnTheWay'
    BY <1>2, <1>3, <1>4, <1>5 DEF OnTheWay
  <1>7. 0 \in Wholes
    <2>1. 0 = 0 * WORD
      BY Sizes
    <2> QED BY <2>1 DEF Wholes
  <1>8. fifo'[note] \in Seq(Wholes)
    BY <1>1, <1>7, QueueWrite DEF WholeLengths
  <1> QED BY <1>1, <1>2, <1>6, <1>8 DEF WordsKept, WholeLengths

LEMMA ReadWords ==
  ASSUME TypeOK, BytesAsked, OnTheWay, WholeLengths, stack_read
  PROVE  WordsKept
  <1> DEFINE pkg == m_axis_tcp_read_pkg
             l == at[stack]
             n == Head(fifo[pkg])
             f == SubSeq(l.buffer, 1, n)
             r == at'[stack].buffer
             c == at'[stack].packet
  <1>1. /\ Takes(pkg) /\ Streams({pkg, s_axis_tcp_rx_meta}) /\ UNCHANGED <<left, request>>
        /\ l.packet = <<>>
    BY TypedShape, StackReadEffect
  <1>2. \E x : Moves(stack, x)
    BY TypedShape, StackReadEffect
  <1>3. at'[search] = at[search] /\ at'[host] = at[host]
    BY <1>2, AllProcesses, ProcessNames DEF Moves
  <1>4. /\ fifo'[s_kernel_network_in] = fifo[s_kernel_network_in]
        /\ fifo'[s_axis_tcp_notification] = fifo[s_axis_tcp_notification]
        /\ fifo'[s_axis_tcp_rx_data] = fifo[s_axis_tcp_rx_data]
    BY <1>1, Names, AllStreams DEF Streams
  <1>5. n \in Wholes /\ fifo'[pkg] \in Seq(Wholes)
    BY <1>1, QueueTake DEF WholeLengths
  <1>6. PICK k \in Nat : n = k * WORD
    BY <1>5 DEF Wholes
  <1>7. /\ n \in Nat \ {0} /\ Len(l.buffer) \in Nat /\ n <= Len(l.buffer)
        /\ f \in Seq(Unit) /\ Len(f) = n /\ \A i \in 1 .. n : f[i] = l.buffer[i]
        /\ r \in Seq(Unit) /\ Len(r) = Len(l.buffer) - n
        /\ \A i \in 1 .. Len(l.buffer) - n : r[i] = l.buffer[n + i]
        /\ c = Chunks(f, WORD)
    BY ReadEffect
  <1>8. InTransit(at[search].query, at[search].words, fifo[s_kernel_network_in],
                  fifo[s_axis_tcp_rx_data], c, r, Sent)
    <2>1. /\ Typed(at[search].query, at[search].words, fifo[s_kernel_network_in],
                   fifo[s_axis_tcp_rx_data], <<>>, l.buffer)
          /\ InTransit(at[search].query, at[search].words, fifo[s_kernel_network_in],
                       fifo[s_axis_tcp_rx_data], <<>>, l.buffer, Sent)
      BY <1>1, TransitTyped DEF OnTheWay
    <2>2. /\ Len(f) = k * WORD /\ \A i \in 1 .. k * WORD : f[i] = l.buffer[i]
          /\ Len(r) = Len(l.buffer) - k * WORD
          /\ \A i \in 1 .. Len(l.buffer) - k * WORD : r[i] = l.buffer[k * WORD + i]
          /\ k * WORD <= Len(l.buffer)
      <3> HIDE DEF f, r, n
      <3> QED BY <1>6, <1>7
    <2> HIDE DEF f, r, c
    <2>3. InTransit(at[search].query, at[search].words, fifo[s_kernel_network_in],
                    fifo[s_axis_tcp_rx_data], Chunks(f, WORD), r, Sent)
      BY <1>7, <2>1, <2>2, Cut
    <2> QED BY <1>7, <2>3
  <1>9. Sent' = Sent
    BY <1>1, <1>3 DEF Sent
  <1>10. OnTheWay'
    BY <1>3, <1>4, <1>8, <1>9 DEF OnTheWay
  <1> QED BY <1>1, <1>4, <1>5, <1>10 DEF WordsKept, WholeLengths

LEMMA DeliverWords ==
  ASSUME TypeOK, OnTheWay, WholeLengths, stack_word
  PROVE  WordsKept
  <1> DEFINE data == s_axis_tcp_rx_data
             l == at[stack]
             v == [data |-> Head(l.packet), last |-> Len(l.packet) = 1]
             x == [l EXCEPT !.packet = Tail(@)]
  <1>1. /\ l.packet # <<>> /\ Streams({data}) /\ Writes(data, v) /\ Moves(stack, x)
        /\ UNCHANGED <<left, request>>
    BY TypedShape, StackWordEffect
  <1>2. /\ fifo'[s_kernel_network_in] = fifo[s_kernel_network_in]
        /\ fifo'[s_axis_tcp_notification] = fifo[s_axis_tcp_notification]
        /\ fifo'[m_axis_tcp_read_pkg] = fifo[m_axis_tcp_read_pkg]
    BY <1>1, Names, AllStreams DEF Streams
  <1>3. at'[stack] = x /\ at'[search] = at[search] /\ at'[host] = at[host]
    BY <1>1, AllProcesses, ProcessNames DEF Moves
  <1>4. x.buffer = l.buffer /\ x.packet = Tail(l.packet)
    BY TypedLocals
  <1>5. v.data = Head(l.packet)
    OBVIOUS
  <1> HIDE DEF v
  <1>6. InTransit(at[search].query, at[search].words, fifo[s_kernel_network_in],
                  Append(fifo[data], v), Tail(l.packet), l.buffer, Sent)
    BY <1>1, <1>5, TransitTyped, Deliver DEF OnTheWay
  <1>7. Sent' = Sent
    BY <1>1, <1>3 DEF Sent
  <1> HIDE DEF x
  <1>8. OnTheWay'
    BY <1>1, <1>2, <1>3, <1>4, <1>6, <1>7 DEF OnTheWay, Writes
  <1> QED BY <1>1, <1>2, <1>8 DEF WordsKept, WholeLengths

LEMMA HostWords ==
  ASSUME TypeOK, HostState, Aligned, OnTheWay, WholeLengths, host_send
  PROVE  WordsKept
  <1> DEFINE note == s_axis_tcp_notification
             l == at[host]
             s == at[stack]
             segs == request.segments
             before == SumTo(segs, l.segment - 1)
             n == segs[l.segment]
             u == SubSeq(QueryUnits(l.query), before + 1, before + n)
             last == l.segment = Len(segs)
             h == l.query - 1
  <1>1. /\ Writes(note, n) /\ Streams({note}) /\ UNCHANGED <<left, request>>
        /\ at'[host] = IF last THEN [query |-> l.query + 1, segment |-> 1]
                       ELSE [l EXCEPT !.segment = @ + 1]
        /\ \A q \in Process \ {stack, host} : at'[q] = at[q]
    BY TypedShape, HostEffect
  <1>2. /\ fifo'[s_kernel_network_in] = fifo[s_kernel_network_in]
        /\ fifo'[m_axis_tcp_read_pkg] = fifo[m_axis_tcp_read_pkg]
        /\ fifo'[s_axis_tcp_rx_data] = fifo[s_axis_tcp_rx_data]
    BY <1>1, Names, AllStreams DEF Streams
  <1>3. at'[search] = at[search]
    BY <1>1, AllProcesses, ProcessNames
  <1>4. /\ u \in Seq(Unit) /\ Len(u) = n /\ before \in Nat /\ n \in Nat \ {0}
        /\ \A j \in 1 .. n : u[j] = <<l.query, before + j>>
        /\ at'[stack] = [s EXCEPT !.buffer = s.buffer \o u]
    BY SendEffect
  <1>5. /\ l.segment \in 1 .. Len(segs) /\ Len(segs) \in Nat
        /\ SumTo(segs, l.segment) = before + n /\ before + n <= QUERY_UNITS
        /\ last => before + n = QUERY_UNITS
    BY Segments DEF QUERY_UNITS
  <1>6. l \in [query : Nat \ {0}, segment : Nat \ {0}] /\ QUERY_UNITS \in Nat
    BY TypedLocals, Sizes
  <1>7. h \in Nat /\ h + 1 = l.query
    BY <1>6
  <1>8. at'[stack].buffer = s.buffer \o u /\ at'[stack].packet = s.packet
    <2>1. s \in [buffer : Seq(Unit), packet : Seq(Word), accepted : Seq(Nat),
                 zeros : Nat, retries : Nat]
      BY TypedLocals
    <2> HIDE DEF u
    <2> QED BY <1>4, <2>1
  <1>9. InTransit(at[search].query, at[search].words, fifo[s_kernel_network_in],
                  fifo[s_axis_tcp_rx_data], s.packet, s.buffer \o u,
                  h * QUERY_UNITS + (before + n))
    <2>1. InTransit(at[search].query, at[search].words, fifo[s_kernel_network_in],
                    fifo[s_axis_tcp_rx_data], s.packet, s.buffer, h * QUERY_UNITS + before)
      BY DEF OnTheWay, Sent
    <2>2. /\ before + Len(u) <= QUERY_UNITS
          /\ \A j \in 1 .. Len(u) : u[j] = <<h + 1, before + j>>
          /\ before + Len(u) = before + n
      <3> HIDE DEF u, before, n, h
      <3> QED BY <1>4, <1>5, <1>7
    <2>3. Typed(at[search].query, at[search].words, fifo[s_kernel_network_in],
                fifo[s_axis_tcp_rx_data], s.packet, s.buffer)
      BY TransitTyped
    <2> HIDE DEF u, before, n, h
    <2>4. InTransit(at[search].query, at[search].words, fifo[s_kernel_network_in],
                    fifo[s_axis_tcp_rx_data], s.packet, s.buffer \o u,
                    h * QUERY_UNITS + (before + Len(u)))
      BY <1>4, <1>7, <2>1, <2>2, <2>3, Extend
    <2> QED BY <2>2, <2>4
  <1>10. Sent' = h * QUERY_UNITS + (before + n)
    <2>1. request' = request
      BY <1>1
    <2>2. Sent' = (at'[host].query - 1) * QUERY_UNITS
                    + SumTo(segs, at'[host].segment - 1)
      BY <2>1 DEF Sent
    <2>3. CASE last
      <3>1. at'[host].query = l.query + 1 /\ at'[host].segment = 1
        BY <1>1, <2>3
      <3>2. SumTo(segs, at'[host].segment - 1) = 0
        <4>1. SumTo(segs, 0) = 0 /\ at'[host].segment - 1 = 0
          BY <3>1, SumStep
        <4> QED BY <4>1
      <3>3. at'[host].query - 1 = h + 1
        BY <1>6, <3>1
      <3>4. (h + 1) * QUERY_UNITS + 0 = h * QUERY_UNITS + QUERY_UNITS
        <4> HIDE DEF h
        <4> QED BY <1>6, <1>7
      <3> HIDE DEF h, segs
      <3> QED BY <1>5, <2>2, <2>3, <3>2, <3>3, <3>4
    <2>4. CASE ~ last
      <3>1. at'[host].query = l.query /\ at'[host].segment = l.segment + 1
        BY <1>1, <1>6, <2>4
      <3>2. at'[host].segment - 1 = l.segment /\ at'[host].query - 1 = h
        BY <1>6, <3>1
      <3> HIDE DEF h, segs
      <3> QED BY <1>5, <2>2, <3>2
    <2> QED BY <2>3, <2>4
  <1>11. OnTheWay'
    <2> DEFINE t == h * QUERY_UNITS + (before + n)
               b == s.buffer \o u
    <2>1. /\ InTransit(at[search].query, at[search].words, fifo[s_kernel_network_in],
                       fifo[s_axis_tcp_rx_data], s.packet, b, t)
          /\ Sent' = t /\ at'[stack].buffer = b
      BY <1>8, <1>9, <1>10
    <2> HIDE DEF t, b
    <2> QED BY <1>2, <1>3, <1>8, <2>1 DEF OnTheWay
  <1>12. n \in Wholes
    <2>1. n % WORD = 0
      <3> DEFINE g == l.segment
      <3>0. segs \in Seq(Nat)
        BY Numbers
      <3>1. g \in DOMAIN segs
        <4>1. g \in 1 .. Len(segs)
          BY <1>5
        <4> HIDE DEF g, segs
        <4> QED BY <3>0, <4>1
      <3>2. \A k \in DOMAIN segs : segs[k] % WORD = 0
        BY DEF Aligned
      <3> HIDE DEF g, segs
      <3>3. segs[g] % WORD = 0
        BY <3>1, <3>2
      <3> QED BY <3>3 DEF g
    <2> HIDE DEF n
    <2>2. n \div WORD \in Nat /\ n = (n \div WORD) * WORD + (n % WORD)
      BY <1>4, Sizes, Quotient
    <2> DEFINE k == n \div WORD
    <2>3. k \in Nat /\ n = k * WORD + 0
      BY <2>1, <2>2
    <2> HIDE DEF k
    <2>4. n = k * WORD
      BY <2>3, Sizes
    <2> QED BY <2>3, <2>4, Zenon DEF Wholes
  <1>13. fifo'[note] \in Seq(Wholes)
    BY <1>1, <1>12, QueueWrite DEF WholeLengths
  <1> QED BY <1>1, <1>2, <1>11, <1>13 DEF WordsKept, WholeLengths


LEMMA WordsInit == Init => WordsInv
  <1> SUFFICES ASSUME Init PROVE OnTheWay /\ WholeLengths
    BY DEF WordsInv
  <1>1. /\ at[search] = [words |-> <<>>, query |-> 0, left |-> 0]
        /\ at[stack] = [buffer |-> <<>>, packet |-> <<>>, accepted |-> <<>>,
                        zeros |-> 0, retries |-> 0]
        /\ at[host] = [query |-> 1, segment |-> 1]
    <2>1. at = [p \in Process |-> Local(p)]
      BY DEF Init
    <2>2. /\ search \notin {listen, open} /\ search # handshake /\ search # consume
          /\ search # output /\ search # send /\ search # stack /\ search # host
          /\ stack \notin {listen, open} /\ stack # handshake /\ stack # consume
          /\ stack # search /\ stack # output /\ stack # send
          /\ host \notin {listen, open} /\ host # handshake /\ host # consume
          /\ host # search /\ host # output /\ host # send /\ host # stack
      BY ProcessNames
    <2>3. Local(search) = [words |-> <<>>, query |-> 0, left |-> 0]
      BY <2>2, Zenon DEF Local
    <2>4. Local(stack) = [buffer |-> <<>>, packet |-> <<>>, accepted |-> <<>>,
                          zeros |-> 0, retries |-> 0]
      BY <2>2, Zenon DEF Local
    <2>5. Local(host) = [query |-> 1, segment |-> 1]
      BY <2>2, Zenon DEF Local
    <2> QED BY <2>1, <2>3, <2>4, <2>5, AllProcesses, Zenon
  <1>2. \A c \in Stream : fifo[c] = <<>>
    BY DEF Init, FlowInit
  <1>3. /\ fifo[s_kernel_network_in] = <<>> /\ fifo[s_axis_tcp_rx_data] = <<>>
        /\ fifo[s_axis_tcp_notification] = <<>> /\ fifo[m_axis_tcp_read_pkg] = <<>>
    BY <1>2, AllStreams
  <1>4. /\ at[search].words = <<>> /\ at[search].query = 0 /\ at[stack].packet = <<>>
        /\ at[stack].buffer = <<>> /\ at[host].query = 1 /\ at[host].segment = 1
    BY <1>1
  <1>5. /\ WORD \in Nat \ {0} /\ QUERY_WORDS \in Nat \ {0} /\ QUERY_UNITS \in Nat \ {0}
    BY Sizes
  <1>6. Sent = 0
    <2>1. SumTo(request.segments, 0) = 0 /\ at[host].segment - 1 = 0 /\ at[host].query - 1 = 0
      BY <1>4, SumStep
    <2>2. 0 * QUERY_UNITS + 0 = 0
      BY <1>5
    <2> QED BY <2>1, <2>2 DEF Sent
  <1>7. InTransit(0, <<>>, <<>>, <<>>, <<>>, <<>>, 0)
    <2>1. Len(<<>>) = 0 /\ 0 * QUERY_WORDS = 0 /\ 0 * WORD = 0
      BY <1>5
    <2>2. Len(<<>>) < QUERY_WORDS
      BY <1>5, <2>1
    <2>3. \A a : Carries(wordAt, <<>>, a)
      BY <2>1 DEF Carries
    <2> DEFINE z == 0 * QUERY_WORDS
               e == Len(<<>>)
    <2>4. z = 0 /\ e = 0
      BY <2>1
    <2>5. (z + e + e + e + e) * WORD + e = 0
      <3> HIDE DEF z, e
      <3>1. z + e + e + e + e = 0
        BY <2>4
      <3> QED BY <2>1, <2>4, <3>1
    <2>6. e < QUERY_WORDS
      BY <2>2
    <2> QED BY <2>3, <2>5, <2>6, NoneInOrder, Zenon DEF InTransit
  <1>8. OnTheWay
    BY <1>3, <1>4, <1>6, <1>7 DEF OnTheWay
  <1>9. WholeLengths
    BY <1>3 DEF WholeLengths
  <1> QED BY <1>8, <1>9

\* The order of the words is inductive.
LEMMA WordsStep == TypeInv /\ WordsInv /\ [Next]_vars => WordsInv'
  <1> SUFFICES ASSUME TypeInv, WordsInv, [Next]_vars, Aligned' PROVE OnTheWay' /\ WholeLengths'
    BY DEF WordsInv
  <1>0. TypeOK /\ BytesAsked /\ HostState
    BY DEF TypeInv
  <1>a. ASSUME UNCHANGED request PROVE Aligned /\ OnTheWay /\ WholeLengths
    <2>1. Aligned
      BY <1>a DEF Aligned
    <2> QED BY <2>1 DEF WordsInv
  <1>s. ASSUME ReceiveSame PROVE OnTheWay' /\ WholeLengths'
    <2>1. OnTheWay /\ WholeLengths
      BY <1>a, <1>s DEF ReceiveSame
    <2>2. Sent' = Sent
      BY <1>s DEF ReceiveSame, Sent
    <2> QED BY <1>s, <2>1, <2>2 DEF ReceiveSame, OnTheWay, WholeLengths
  <1>c. CASE Connections
    BY <1>0, <1>c, <1>s, ConnectionFrame
  <1>1. CASE recvData_handshake
    <2>1. UNCHANGED request
      BY <1>1 DEF recvData_handshake
    <2> QED BY <1>0, <1>1, <1>a, <2>1, HandshakeWords DEF WordsKept
  <1>2. CASE consume_start \/ consume_meta
    BY <1>0, <1>2, <1>s, ConsumeFrame
  <1>3. CASE consume_word
    <2>1. UNCHANGED request
      BY <1>3 DEF consume_word
    <2> QED BY <1>0, <1>3, <1>a, <2>1, ConsumeWords DEF WordsKept
  <1>4. CASE search_word
    <2>1. UNCHANGED request
      BY <1>4 DEF search_word
    <2> QED BY <1>0, <1>4, <1>a, <2>1, SearchWords DEF WordsKept
  <1>5. CASE search_result \/ network_output_processing
    BY <1>0, <1>5, <1>s, AnswerFrame
  <1>6. CASE sendDataProtected \/ stack_status
    BY <1>0, <1>6, <1>s, SendFrame
  <1>7. CASE stack_zero
    <2>1. UNCHANGED request
      BY <1>7 DEF stack_zero
    <2> QED BY <1>0, <1>7, <1>a, <2>1, ZeroWords DEF WordsKept
  <1>8. CASE stack_read
    <2>1. UNCHANGED request
      BY <1>8 DEF stack_read
    <2> QED BY <1>0, <1>8, <1>a, <2>1, ReadWords DEF WordsKept
  <1>9. CASE stack_word
    <2>1. UNCHANGED request
      BY <1>9 DEF stack_word
    <2> QED BY <1>0, <1>9, <1>a, <2>1, DeliverWords DEF WordsKept
  <1>10. CASE host_send
    <2>1. UNCHANGED request
      BY <1>10 DEF host_send
    <2> QED BY <1>0, <1>10, <1>a, <2>1, HostWords DEF WordsKept
  <1>11. CASE UNCHANGED vars
    <2>1. UNCHANGED <<fifo, left, at, request>>
      BY <1>11 DEF vars, flowVars
    <2>2. ReceiveSame
      BY <2>1 DEF ReceiveSame
    <2> QED BY <1>s, <2>2
  <1> QED BY <1>c, <1>1, <1>2, <1>3, <1>4, <1>5, <1>6, <1>7, <1>8, <1>9, <1>10, <1>11, Zenon
          DEF Next, Kernel, Stack, Connections, recvData_consumeData

\* What arrives is then the first words of the queries.
LEMMA WordsArrive == TypeInv /\ WordsInv => WordsInOrder
  <1> SUFFICES ASSUME TypeInv, WordsInv, Aligned
      PROVE  IsPrefix(at[search].words \o fifo[s_kernel_network_in],
               FlattenSeq([q \in 1 .. request.queries - at[search].query |->
                            [w \in 1 .. QUERY_WORDS |-> QueryWord(at[search].query + q, w)]]))
    BY DEF WordsInOrder
  <1>0. TypeOK /\ HostState /\ OnTheWay
    BY DEF TypeInv, WordsInv
  <1> DEFINE N == request.queries
             l == at[host]
             before == SumTo(request.segments, l.segment - 1)
             h == l.query - 1
  <1>1. N \in Nat /\ QUERY_UNITS \in Nat /\ l \in [query : Nat \ {0}, segment : Nat \ {0}]
    BY <1>0, Numbers, Sizes, TypedLocals
  <1>2. before \in Nat /\ before <= QUERY_UNITS
    <2> DEFINE n == request.segments[l.segment]
    <2>1. before \in Nat /\ n \in Nat \ {0} /\ before + n <= QUERY_UNITS
      BY <1>0, Segments DEF QUERY_UNITS
    <2> HIDE DEF before, n
    <2> QED BY <1>1, <2>1
  <1>3. h \in Nat /\ h <= N /\ (h = N => before = 0)
    <2>1. l.query <= N + 1 /\ (l.query = N + 1 => l.segment = 1)
      BY <1>0 DEF HostState
    <2>2. h \in Nat /\ h <= N /\ (h = N => l.segment = 1)
      <3> HIDE DEF N
      <3> QED BY <1>1, <2>1
    <2>3. ASSUME l.segment = 1 PROVE before = 0
      <3>1. SumTo(request.segments, 0) = 0 /\ l.segment - 1 = 0
        BY <2>3, SumStep
      <3> QED BY <3>1
    <2> QED BY <2>2, <2>3
  <1>4. Sent \in Nat /\ Sent <= N * QUERY_UNITS
    <2>1. Sent = h * QUERY_UNITS + before
      BY DEF Sent
    <2> DEFINE x == h * QUERY_UNITS
               y == N * QUERY_UNITS
    <2> HIDE DEF h, before, N
    <2>2. x \in Nat /\ y \in Nat
      BY <1>1, <1>3
    <2>3. CASE h = N
      <3>1. x = y /\ before = 0
        BY <1>3, <2>3
      <3> HIDE DEF x, y
      <3>2. Sent = x + before
        BY <2>1 DEF x
      <3>3. Sent \in Nat /\ Sent <= y
        BY <2>2, <3>1, <3>2
      <3> QED BY <3>3 DEF y
    <2>4. CASE h # N
      <3>1. h + 1 <= N
        BY <1>1, <1>3, <2>4
      <3>2. (h + 1) * QUERY_UNITS <= y /\ (h + 1) * QUERY_UNITS = x + QUERY_UNITS
        BY <1>1, <1>3, <3>1
      <3>3. Sent = x + before
        BY <2>1 DEF x
      <3> DEFINE z == (h + 1) * QUERY_UNITS
      <3>4. z <= y /\ z = x + QUERY_UNITS
        BY <3>2
      <3> HIDE DEF x, y, z
      <3>5. Sent \in Nat /\ Sent <= y
        BY <1>1, <1>2, <2>2, <3>3, <3>4
      <3> QED BY <3>5 DEF y
    <2> QED BY <2>3, <2>4
  <1>5. InTransit(at[search].query, at[search].words, fifo[s_kernel_network_in],
                  fifo[s_axis_tcp_rx_data], at[stack].packet, at[stack].buffer, Sent)
    BY <1>0 DEF OnTheWay
  <1>6. Typed(at[search].query, at[search].words, fifo[s_kernel_network_in],
              fifo[s_axis_tcp_rx_data], at[stack].packet, at[stack].buffer)
    BY <1>0, TransitTyped
  <1> QED BY <1>1, <1>4, <1>5, <1>6, Arrived

\* Whatever the segments in which the host's bytes come, the words of a query
\* reach the search complete and in order, as recvData hands them over, for
\* every request whose segments are whole words.
THEOREM WordsOrdered == Spec => []WordsInOrder
  <1>1. Init => WordsInv
    BY WordsInit
  <1>2. TypeInv /\ WordsInv /\ [Next]_vars => WordsInv'
    BY WordsStep
  <1>3. TypeInv /\ WordsInv => WordsInOrder
    BY WordsArrive
  <1> QED BY <1>1, <1>2, <1>3, TypeInvariant, PTL DEF Spec


-----------------------------------------------------------------------------
(* The words of the answers.                                               *)

\* The results in order, and the words of their answers in order.
resultAt == [r \in Nat \ {0} |-> Result(((r - 1) \div TOPK) + 1, ((r - 1) % TOPK) + 1)]
resultsOf(q) == [k \in 1 .. TOPK |-> Result(q, k)]
outAt == [w \in Nat \ {0} |-> AnswerWord(resultsOf(((w - 1) \div ANSWER_WORDS) + 1),
                                         ((w - 1) % ANSWER_WORDS) + 1)]

\* d answers are done; of the next the kernel keeps results and has written
\* all words before `word`; then come the results in the stream.
Answering(d, results, word, queue, out, sent, produced) ==
  /\ InOrder(outAt, out, Len(sent)) /\ Carries(outAt, sent, 0)
  /\ Len(sent) + Len(out) + 1 = d * ANSWER_WORDS + word
  /\ InOrder(resultAt, results, d * TOPK)
  /\ InOrder(resultAt, queue, d * TOPK + Len(results))
  /\ d * TOPK + Len(results) + Len(queue) = produced

AnswerTyped(d, results, word, queue, out, sent) ==
  /\ d \in Nat /\ results \in Seq(Nat \X Nat) /\ word \in 1 .. ANSWER_WORDS
  /\ queue \in Seq(Nat \X Nat) /\ out \in Seq(OutWord)
  /\ sent \in Seq([data : OutWord, last : BOOLEAN])

\* Of things numbered through in groups of n, the one in place u of group q + 1.
Place(n, q, u) == q * n + u

\* Places count through the groups.
LEMMA Numbered ==
  ASSUME NEW n \in Nat \ {0}, NEW q \in Nat, NEW u \in 1 .. n
  PROVE  /\ Place(n, q, u) \in Nat \ {0}
         /\ ((Place(n, q, u) - 1) \div n) + 1 = q + 1
         /\ ((Place(n, q, u) - 1) % n) + 1 = u
  <1> DEFINE m == q * n
             v == Place(n, q, u)
  <1>1. m \in Nat /\ u - 1 \in 0 .. n - 1 /\ u \in Nat \ {0}
    OBVIOUS
  <1>2. (m + (u - 1)) \div n = q /\ (m + (u - 1)) % n = u - 1
    BY <1>1, Division
  <1> HIDE DEF m
  <1>3. m + u \in Nat \ {0} /\ m + u - 1 = m + (u - 1)
    BY <1>1
  <1>4. v = m + u
    BY DEF m, Place
  <1> HIDE DEF v
  <1>5. v \in Nat \ {0} /\ v - 1 = m + (u - 1)
    BY <1>1, <1>3, <1>4
  <1>6. (v - 1) \div n = q /\ (v - 1) % n = u - 1
    BY <1>2, <1>5
  <1>7. (u - 1) + 1 = u
    BY <1>1
  <1>8. v \in Nat \ {0} /\ ((v - 1) \div n) + 1 = q + 1 /\ ((v - 1) % n) + 1 = u
    BY <1>5, <1>6, <1>7
  <1> QED BY <1>8 DEF v

LEMMA ResultAt ==
  ASSUME NEW d \in Nat, NEW k \in 1 .. TOPK
  PROVE  d * TOPK + k \in Nat \ {0} /\ resultAt[d * TOPK + k] = Result(d + 1, k)
  <1>1. TOPK \in Nat \ {0}
    BY GlueAssumption
  <1>2. PICK v : v = Place(TOPK, d, k)
    OBVIOUS
  <1>3. v \in Nat \ {0} /\ ((v - 1) \div TOPK) + 1 = d + 1 /\ ((v - 1) % TOPK) + 1 = k
    BY <1>1, <1>2, Numbered
  <1>4. resultAt[v] = Result(d + 1, k)
    BY <1>3 DEF resultAt
  <1> QED BY <1>2, <1>3, <1>4 DEF Place

LEMMA OutAt ==
  ASSUME NEW d \in Nat, NEW w \in 1 .. ANSWER_WORDS
  PROVE  /\ d * ANSWER_WORDS + w \in Nat \ {0}
         /\ outAt[d * ANSWER_WORDS + w] = AnswerWord(resultsOf(d + 1), w)
  <1>1. ANSWER_WORDS \in Nat \ {0}
    BY AnswerWords
  <1>2. PICK v : v = Place(ANSWER_WORDS, d, w)
    OBVIOUS
  <1>3. v \in Nat \ {0} /\ ((v - 1) \div ANSWER_WORDS) + 1 = d + 1
        /\ ((v - 1) % ANSWER_WORDS) + 1 = w
    BY <1>1, <1>2, Numbered
  <1>4. outAt[v] = AnswerWord(resultsOf(d + 1), w)
    BY <1>3 DEF outAt
  <1> QED BY <1>2, <1>3, <1>4 DEF Place

\* All the results of an answer, kept in order.
LEMMA AllResults ==
  ASSUME NEW d \in Nat, NEW results \in Seq(Nat \X Nat), Len(results) = TOPK,
         InOrder(resultAt, results, d * TOPK)
  PROVE  results = resultsOf(d + 1)
  <1>1. ASSUME NEW k \in 1 .. TOPK PROVE results[k] = Result(d + 1, k)
    <2>1. results[k] = resultAt[d * TOPK + k]
      BY DEF InOrder
    <2> QED BY <2>1, ResultAt
  <1>2. DOMAIN results = 1 .. TOPK /\ results = [k \in DOMAIN results |-> results[k]]
    OBVIOUS
  <1> QED BY <1>1, <1>2 DEF resultsOf

LEMMA AnswerLens ==
  ASSUME NEW d, NEW r, NEW w, NEW q, NEW o, NEW s, AnswerTyped(d, r, w, q, o, s)
  PROVE  /\ d \in Nat /\ d * TOPK \in Nat /\ d * ANSWER_WORDS \in Nat
         /\ Len(r) \in Nat /\ Len(q) \in Nat /\ Len(o) \in Nat /\ Len(s) \in Nat
         /\ w \in 1 .. ANSWER_WORDS /\ ANSWER_WORDS \in Nat /\ ANSWER_WORDS >= 3
         /\ TOPK \in Nat \ {0}
         /\ IsSequence(r) /\ IsSequence(q) /\ IsSequence(o) /\ IsSequence(s)
  <1>1. TOPK \in Nat \ {0} /\ ANSWER_WORDS \in Nat /\ ANSWER_WORDS >= 3
    BY GlueAssumption, AnswerWords
  <1>2. d \in Nat /\ d * TOPK \in Nat /\ d * ANSWER_WORDS \in Nat
    BY <1>1 DEF AnswerTyped
  <1> QED BY <1>1, <1>2 DEF AnswerTyped, IsSequence

\* The search writes its next result (search_result).
LEMMA Produce ==
  ASSUME NEW d, NEW r, NEW w, NEW q, NEW o, NEW s, AnswerTyped(d, r, w, q, o, s),
         NEW h \in Nat, NEW l \in 1 .. TOPK,
         Answering(d, r, w, q, o, s, h * TOPK - l)
  PROVE  Answering(d, r, w, Append(q, Result(h, TOPK + 1 - l)), o, s, h * TOPK - (l - 1))
  <1> DEFINE v == Result(h, TOPK + 1 - l)
             a == d * TOPK + Len(r)
             y == h * TOPK
             z == (h - 1) * TOPK
  <1>1. /\ a \in Nat /\ Len(q) \in Nat /\ IsSequence(q) /\ TOPK \in Nat \ {0} /\ l \in Nat \ {0}
        /\ l <= TOPK /\ y \in Nat
    <2>1. /\ d * TOPK \in Nat /\ Len(r) \in Nat /\ Len(q) \in Nat /\ IsSequence(q)
          /\ TOPK \in Nat \ {0}
      BY AnswerLens
    <2>2. l \in Nat \ {0} /\ l <= TOPK
      BY <2>1
    <2>3. y \in Nat
      BY <2>1
    <2> DEFINE z0 == d * TOPK
    <2> HIDE DEF z0
    <2>4. z0 + Len(r) \in Nat
      BY <2>1 DEF z0
    <2> QED BY <2>1, <2>2, <2>3, <2>4 DEF z0
  <1>2. InOrder(resultAt, q, a) /\ a + Len(q) = y - l
    BY DEF Answering
  <1>3. h - 1 \in Nat /\ y = z + TOPK /\ z \in Nat
    <2>1. h # 0
      <3> SUFFICES ASSUME h = 0 PROVE FALSE
        OBVIOUS
      <3>1. y = 0
        BY <1>1
      <3> HIDE DEF a, y
      <3> QED BY <1>1, <1>2, <3>1
    <2> QED BY <1>1, <2>1
  <1>4. resultAt[a + Len(q) + 1] = v
    <2>1. TOPK + 1 - l \in 1 .. TOPK /\ a + Len(q) + 1 = z + (TOPK + 1 - l) /\ h - 1 + 1 = h
      <3> DEFINE n == Len(q)
      <3>1. n \in Nat /\ a + n = y - l
        BY <1>1, <1>2
      <3>2. TOPK + 1 - l \in 1 .. TOPK /\ a + n + 1 = z + (TOPK + 1 - l) /\ h - 1 + 1 = h
        <4> HIDE DEF a, y, z, n
        <4> QED BY <1>1, <1>3, <3>1
      <3> QED BY <3>2
    <2>2. resultAt[z + (TOPK + 1 - l)] = Result(h - 1 + 1, TOPK + 1 - l)
      BY <1>3, <2>1, ResultAt
    <2> HIDE DEF a, z
    <2> QED BY <2>1, <2>2
  <1>5. InOrder(resultAt, Append(q, v), a)
    <2> HIDE DEF a, v
    <2> QED BY <1>1, <1>2, <1>4, AppendInOrder
  <1>6. a + Len(Append(q, v)) = y - (l - 1)
    <2>1. Len(Append(q, v)) = Len(q) + 1
      BY <1>1, Sequences
    <2> HIDE DEF a, y, v
    <2> QED BY <1>1, <1>2, <2>1
  <1> HIDE DEF v
  <1> QED BY <1>5, <1>6 DEF Answering, v

\* The kernel keeps the next result (output_result).
LEMMA Keep ==
  ASSUME NEW d, NEW r, NEW w, NEW q, NEW o, NEW s, AnswerTyped(d, r, w, q, o, s),
         NEW n, Answering(d, r, w, q, o, s, n), q # <<>>
  PROVE  Answering(d, Append(r, Head(q)), w, Tail(q), o, s, n)
  <1> DEFINE a == d * TOPK
             b == a + Len(r)
             t == Append(r, Head(q))
  <1>1. a \in Nat /\ b \in Nat /\ Len(q) \in Nat /\ Len(r) \in Nat /\ IsSequence(q) /\ IsSequence(r)
    BY AnswerLens
  <1>2. InOrder(resultAt, r, a) /\ InOrder(resultAt, q, b) /\ b + Len(q) = n
    BY DEF Answering
  <1>3. Head(q) = resultAt[b + 1] /\ InOrder(resultAt, Tail(q), b + 1)
    <2> HIDE DEF b
    <2> QED BY <1>1, <1>2, TailInOrder
  <1>4. InOrder(resultAt, t, a)
    <2> HIDE DEF a
    <2> QED BY <1>1, <1>2, <1>3, AppendInOrder
  <1>5. Len(t) = Len(r) + 1 /\ Len(Tail(q)) = Len(q) - 1
    BY <1>1, Sequences
  <1>6. a + Len(t) = b + 1 /\ b + 1 + Len(Tail(q)) = n
    <2> HIDE DEF a, t
    <2>1. a + Len(t) = b + 1
      BY <1>1, <1>5
    <2>2. b + 1 + Len(Tail(q)) = b + Len(q)
      <3> HIDE DEF b
      <3> QED BY <1>1, <1>5
    <2> QED BY <1>2, <2>1, <2>2
  <1> HIDE DEF t
  <1> QED BY <1>3, <1>4, <1>6 DEF Answering, t

\* The next word of the answer is written (output_word).
LEMMA Emit ==
  ASSUME NEW d, NEW r, NEW w, NEW q, NEW o, NEW s, AnswerTyped(d, r, w, q, o, s),
         NEW n, Answering(d, r, w, q, o, s, n), w > 1 => Len(r) = TOPK
  PROVE  IF w = ANSWER_WORDS
         THEN Answering(d + 1, <<>>, 1, q, Append(o, AnswerWord(r, w)), s, n)
         ELSE Answering(d, r, w + 1, q, Append(o, AnswerWord(r, w)), s, n)
  <1> DEFINE v == AnswerWord(r, w)
             a == d * TOPK
             c == d * ANSWER_WORDS
             t == Append(o, v)
  <1>1. /\ d \in Nat /\ a \in Nat /\ c \in Nat /\ Len(r) \in Nat /\ Len(q) \in Nat
        /\ Len(o) \in Nat /\ Len(s) \in Nat /\ w \in 1 .. ANSWER_WORDS /\ ANSWER_WORDS \in Nat
        /\ ANSWER_WORDS >= 3 /\ TOPK \in Nat \ {0} /\ IsSequence(o)
    BY AnswerLens
  <1>2. /\ InOrder(outAt, o, Len(s)) /\ Len(s) + Len(o) + 1 = c + w
        /\ InOrder(resultAt, r, a) /\ InOrder(resultAt, q, a + Len(r))
        /\ a + Len(r) + Len(q) = n /\ Carries(outAt, s, 0)
    BY DEF Answering
  <1>3. v = AnswerWord(resultsOf(d + 1), w)
    <2>1. CASE w = 1
      BY <2>1 DEF AnswerWord
    <2>2. CASE w # 1
      <3>1. Len(r) = TOPK
        BY <1>1, <2>2
      <3>2. r = resultsOf(d + 1)
        BY <1>1, <1>2, <3>1, AllResults DEF AnswerTyped
      <3> QED BY <3>2
    <2> QED BY <2>1, <2>2
  <1>4. v = outAt[Len(s) + Len(o) + 1]
    <2>1. outAt[c + w] = AnswerWord(resultsOf(d + 1), w)
      BY <1>1, OutAt
    <2> HIDE DEF v, c
    <2> QED BY <1>2, <1>3, <2>1
  <1>5. InOrder(outAt, t, Len(s)) /\ Len(t) = Len(o) + 1
    <2> HIDE DEF v
    <2> QED BY <1>1, <1>2, <1>4, AppendInOrder, Sequences
  <1>6. Len(s) + Len(t) + 1 = c + w + 1
    <2> HIDE DEF t, c
    <2> QED BY <1>1, <1>2, <1>5
  <1>7. CASE w = ANSWER_WORDS
    <2>1. Len(r) = TOPK
      BY <1>1, <1>7
    <2> DEFINE e == (d + 1) * ANSWER_WORDS
               b == (d + 1) * TOPK
               k == Len(<<>>)
    <2>2. e = c + ANSWER_WORDS /\ b = a + TOPK /\ k = 0
      BY <1>1
    <2>3. Len(s) + Len(t) + 1 = e + 1 /\ b + k = a + Len(r) /\ b + k + Len(q) = n
      <3> HIDE DEF t, c, e, b, a, k
      <3>1. Len(s) + Len(t) + 1 = e + 1
        BY <1>1, <1>6, <1>7, <2>2
      <3>2. b + k = a + Len(r)
        BY <1>1, <2>1, <2>2
      <3> QED BY <1>2, <3>1, <3>2
    <2>4. InOrder(resultAt, <<>>, b) /\ InOrder(resultAt, q, b + k)
      <3> HIDE DEF b, a, k
      <3> QED BY <1>2, <2>3, NoneInOrder
    <2>5. Answering(d + 1, <<>>, 1, q, t, s, n)
      <3> HIDE DEF t
      <3> QED BY <1>2, <1>5, <2>3, <2>4 DEF Answering
    <2> QED BY <1>7, <2>5
  <1>8. CASE w # ANSWER_WORDS
    <2>1. Len(s) + Len(t) + 1 = c + (w + 1)
      <3>1. c + w + 1 = c + (w + 1)
        <4> HIDE DEF c
        <4> QED BY <1>1
      <3> QED BY <1>6, <3>1
    <2>2. Answering(d, r, w + 1, q, t, s, n)
      <3> HIDE DEF t
      <3> QED BY <1>2, <1>5, <2>1 DEF Answering
    <2> QED BY <1>8, <2>2
  <1> QED BY <1>7, <1>8

\* A word of an answer goes into a packet (send_word).
LEMMA Pack ==
  ASSUME NEW d, NEW r, NEW w, NEW q, NEW o, NEW s, AnswerTyped(d, r, w, q, o, s),
         NEW n, Answering(d, r, w, q, o, s, n), o # <<>>, NEW v, v.data = Head(o)
  PROVE  Answering(d, r, w, q, Tail(o), Append(s, v), n)
  <1> DEFINE c == d * ANSWER_WORDS
  <1>1. /\ c \in Nat /\ Len(o) \in Nat /\ Len(s) \in Nat /\ w \in Nat
        /\ IsSequence(o) /\ IsSequence(s)
    BY AnswerLens
  <1>2. InOrder(outAt, o, Len(s)) /\ Len(s) + Len(o) + 1 = c + w /\ Carries(outAt, s, 0)
    BY DEF Answering
  <1>3. Head(o) = outAt[Len(s) + 1] /\ InOrder(outAt, Tail(o), Len(s) + 1)
    BY <1>1, <1>2, TailInOrder
  <1>4. Carries(outAt, Append(s, v), 0)
    <2>1. 0 + Len(s) + 1 = Len(s) + 1 /\ 0 \in Nat
      BY <1>1
    <2>2. v.data = outAt[0 + Len(s) + 1]
      BY <1>3, <2>1
    <2> QED BY <1>1, <1>2, <2>1, <2>2, AppendCarries
  <1>5. Len(Append(s, v)) = Len(s) + 1 /\ Len(Tail(o)) = Len(o) - 1
    BY <1>1, Sequences
  <1>6. Len(Append(s, v)) + Len(Tail(o)) + 1 = c + w
    <2> HIDE DEF c
    <2> QED BY <1>1, <1>2, <1>5
  <1> QED BY <1>3, <1>4, <1>5, <1>6 DEF Answering


-----------------------------------------------------------------------------
(* The words of the answers, in every state.                               *)

\* Answers whose words have all been written.
Done == at[search].query - Len(fifo[s_batch_header(output)]) - left[output]

\* Results the search has written.
Produced == at[search].query * TOPK - at[search].left

BeingAnswered ==
  Answering(Done, at[output].results, at[output].word, fifo[s_output],
            fifo[s_kernel_network_out], fifo[m_axis_tcp_tx_data], Produced)

OutInv ==
  /\ Done \in Nat /\ left[output] \in {0, 1}
  /\ left[output] = 0 => at[output].phase = "idle"
  /\ BeingAnswered

\* The streams and variables it is about.
LEMMA OutTyped ==
  ASSUME TypeOK, Done \in Nat
  PROVE  /\ AnswerTyped(Done, at[output].results, at[output].word, fifo[s_output],
                        fifo[s_kernel_network_out], fifo[m_axis_tcp_tx_data])
         /\ at[search].query \in Nat /\ at[search].left \in 0 .. TOPK
         /\ Len(fifo[s_batch_header(output)]) \in Nat
         /\ fifo[s_batch_header(output)] \in Seq({Header(1, 1)})
         /\ DOMAIN left = Process /\ left[output] \in Nat
  <1>1. /\ at[search] \in [words : Seq(Word), query : Nat, left : 0 .. TOPK]
        /\ at[output] \in [phase : {"idle", "results", "words"},
                           results : Seq(Nat \X Nat), word : 1 .. ANSWER_WORDS]
    BY TypedLocals
  <1>2. /\ fifo[s_output] \in Seq(Nat \X Nat) /\ fifo[s_kernel_network_out] \in Seq(OutWord)
        /\ fifo[m_axis_tcp_tx_data] \in Seq([data : OutWord, last : BOOLEAN])
        /\ fifo[s_batch_header(output)] \in Seq({Header(1, 1)})
    BY AllStreams, ValuesOf DEF TypeOK
  <1>3. DOMAIN left = Process /\ left[output] \in Nat
    BY AllProcesses DEF TypeOK
  <1>4. Len(fifo[s_batch_header(output)]) \in Nat
    BY <1>2
  <1> QED BY <1>1, <1>2, <1>3, <1>4 DEF AnswerTyped

LEMMA OutSame == ASSUME OutInv, AnswerSame, UNCHANGED fifo[m_axis_tcp_tx_data] PROVE OutInv'
  <1>1. Done' = Done /\ Produced' = Produced
    BY DEF AnswerSame, Done, Produced
  <1> QED BY <1>1 DEF OutInv, AnswerSame, BeingAnswered

\* The last word of a query: the search has a batch of one query to answer.
LEMMA SearchWordOut ==
  ASSUME TypeOK, OutInv, search_word
  PROVE  OutInv'
  <1> DEFINE l == at[search]
             header == s_batch_header(output)
             words == Append(l.words, Head(fifo[s_kernel_network_in]))
             full == Len(words) = QUERY_WORDS
             x == IF full THEN [words |-> <<>>, query |-> l.query + 1, left |-> TOPK]
                  ELSE [l EXCEPT !.words = words]
             n == Len(fifo[header])
  <1>1. /\ l.left = 0 /\ Streams({s_kernel_network_in, header}) /\ Moves(search, x)
        /\ IF full THEN Writes(header, Header(1, 1)) ELSE fifo'[header] = fifo[header]
        /\ UNCHANGED <<left, request>>
    BY TypedShape, SearchWordEffect
  <1>2. /\ fifo'[s_output] = fifo[s_output]
        /\ fifo'[s_kernel_network_out] = fifo[s_kernel_network_out]
        /\ fifo'[m_axis_tcp_tx_data] = fifo[m_axis_tcp_tx_data]
    BY <1>1, Names, AllStreams DEF Streams
  <1>3. at'[search] = x /\ at'[output] = at[output]
    BY <1>1, AllProcesses, ProcessNames DEF Moves
  <1>4. /\ l \in [words : Seq(Word), query : Nat, left : 0 .. TOPK]
        /\ n \in Nat /\ fifo[header] \in Seq({Header(1, 1)}) /\ left[output] \in Nat
        /\ TOPK \in Nat \ {0}
    BY TypedLocals, OutTyped, Numbers DEF OutInv
  <1>5. IF full THEN x.query = l.query + 1 /\ x.left = TOPK
        ELSE x.query = l.query /\ x.left = 0
    BY <1>1, <1>4
  <1>6. IF full THEN Len(fifo'[header]) = n + 1 ELSE Len(fifo'[header]) = n
    BY <1>1, <1>4 DEF Writes
  <1> HIDE DEF full, x, n
  <1>7. Done' = Done /\ Produced' = Produced
    <2>1. /\ Done' = x.query - Len(fifo'[header]) - left[output]
          /\ Done = l.query - n - left[output]
          /\ Produced' = x.query * TOPK - x.left /\ Produced = l.query * TOPK - 0
      BY <1>1, <1>3 DEF Done, Produced, n
    <2>2. l.query \in Nat
      BY <1>4
    <2>3. CASE full
      <3> DEFINE y == l.query * TOPK
                 z == (l.query + 1) * TOPK
      <3>1. z = y + TOPK /\ y \in Nat
        BY <1>4, <2>2
      <3>2. z - TOPK = y - 0
        <4> HIDE DEF y, z
        <4> QED BY <1>4, <3>1
      <3>3. Produced' = Produced
        BY <1>5, <2>1, <2>3, <3>2
      <3>4. (l.query + 1) - (n + 1) - left[output] = l.query - n - left[output]
        <4> DEFINE c == l.query
                   f == left[output]
        <4>1. c \in Nat /\ n \in Nat /\ f \in Nat
          BY <1>4, <2>2
        <4> HIDE DEF c, f
        <4>2. (c + 1) - (n + 1) - f = c - n - f
          BY <4>1
        <4> QED BY <4>2 DEF c, f
      <3> QED BY <1>5, <1>6, <2>1, <2>3, <3>3, <3>4
    <2>4. CASE ~ full
      BY <1>5, <1>6, <2>1, <2>4
    <2> QED BY <2>3, <2>4
  <1> QED BY <1>1, <1>2, <1>3, <1>7 DEF OutInv, BeingAnswered

LEMMA SearchResultOut ==
  ASSUME TypeOK, OutInv, search_result
  PROVE  OutInv'
  <1> DEFINE l == at[search]
             header == s_batch_header(output)
             v == Result(l.query, TOPK + 1 - l.left)
             x == [l EXCEPT !.left = @ - 1]
  <1>1. /\ l.left > 0 /\ Streams({s_output}) /\ Moves(search, x) /\ Writes(s_output, v)
        /\ UNCHANGED <<left, request>>
    BY TypedShape, SearchResultEffect
  <1>2. /\ fifo'[header] = fifo[header]
        /\ fifo'[s_kernel_network_out] = fifo[s_kernel_network_out]
        /\ fifo'[m_axis_tcp_tx_data] = fifo[m_axis_tcp_tx_data]
    BY <1>1, Names, AllStreams DEF Streams
  <1>3. at'[search] = x /\ at'[output] = at[output]
    BY <1>1, AllProcesses, ProcessNames DEF Moves
  <1>4. l \in [words : Seq(Word), query : Nat, left : 0 .. TOPK] /\ TOPK \in Nat \ {0}
    BY TypedLocals, Numbers
  <1>5. x.query = l.query /\ x.left = l.left - 1 /\ l.left \in 1 .. TOPK /\ l.query \in Nat
    BY <1>1, <1>4
  <1> HIDE DEF x, v
  <1>6. Done' = Done
    BY <1>1, <1>2, <1>3, <1>5 DEF Done
  <1>7. Produced' = l.query * TOPK - (l.left - 1) /\ Produced = l.query * TOPK - l.left
    BY <1>3, <1>5 DEF Produced
  <1> DEFINE r == at[output].results
             w == at[output].word
             o == fifo[s_kernel_network_out]
             s == fifo[m_axis_tcp_tx_data]
  <1>8. AnswerTyped(Done, r, w, fifo[s_output], o, s)
    BY OutTyped DEF OutInv
  <1>9. Answering(Done, r, w, fifo[s_output], o, s, l.query * TOPK - l.left)
    BY <1>7 DEF OutInv, BeingAnswered
  <1>10. Answering(Done, r, w, Append(fifo[s_output], v), o, s, l.query * TOPK - (l.left - 1))
    BY <1>5, <1>8, <1>9, Produce DEF v
  <1>11. Answering(Done, r, w, Append(fifo[s_output], v), o, s, Produced')
    BY <1>7, <1>10
  <1>12. BeingAnswered'
    BY <1>1, <1>2, <1>3, <1>6, <1>11 DEF BeingAnswered, Writes
  <1> QED BY <1>1, <1>3, <1>6, <1>12 DEF OutInv

LEMMA HeaderOut ==
  ASSUME TypeOK, OutputState, OutInv, read_header(output), UNCHANGED <<at, request>>
  PROVE  OutInv'
  <1> DEFINE header == s_batch_header(output)
             h == Head(fifo[header])
             n == Len(fifo[header])
             l == at[search]
  <1>1. /\ left[output] = 0 /\ Takes(header) /\ Streams({header})
        /\ IF h.terminate THEN UNCHANGED left
           ELSE left' = [left EXCEPT ![output] = h.batch_size]
    BY TypedShape, HeaderEffect
  <1>2. /\ fifo'[s_output] = fifo[s_output]
        /\ fifo'[s_kernel_network_out] = fifo[s_kernel_network_out]
        /\ fifo'[m_axis_tcp_tx_data] = fifo[m_axis_tcp_tx_data]
    BY <1>1, Names, AllStreams DEF Streams
  <1>3. /\ n \in Nat /\ fifo[header] \in Seq({Header(1, 1)}) /\ DOMAIN left = Process
        /\ l.query \in Nat /\ Done \in Nat
    BY OutTyped DEF OutInv
  <1>4. h = Header(1, 1) /\ Len(fifo'[header]) = n - 1
    BY <1>1, <1>3 DEF Takes
  <1>5. left'[output] = 1
    <2>1. h.terminate = FALSE /\ h.batch_size = 1
      BY <1>4 DEF Header
    <2> HIDE DEF h
    <2> QED BY <1>1, <1>3, <2>1, AllProcesses
  <1>6. Done' = Done
    <2>1. Done' = l.query - Len(fifo'[header]) - left'[output]
          /\ Done = l.query - n - left[output]
      BY DEF Done
    <2>2. l.query - (n - 1) - 1 = l.query - n - 0
      <3> HIDE DEF n
      <3> QED BY <1>3
    <2> HIDE DEF n
    <2> QED BY <1>1, <1>4, <1>5, <2>1, <2>2
  <1>7. Produced' = Produced
    BY DEF Produced
  <1>8. BeingAnswered'
    BY <1>2, <1>6, <1>7 DEF OutInv, BeingAnswered
  <1> QED BY <1>3, <1>5, <1>6, <1>8 DEF OutInv

LEMMA ResultOut ==
  ASSUME TypeOK, OutInv, output_result
  PROVE  OutInv'
  <1> DEFINE l == at[output]
             header == s_batch_header(output)
             results == Append(l.results, Head(fifo[s_output]))
             x == [l EXCEPT !.results = results,
                     !.phase = IF Len(results) = TOPK THEN "words" ELSE "results"]
             o == fifo[s_kernel_network_out]
             s == fifo[m_axis_tcp_tx_data]
  <1>1. /\ left[output] > 0 /\ Takes(s_output) /\ Streams({s_output}) /\ Moves(output, x)
        /\ UNCHANGED <<left, request>>
    BY TypedShape, OutputResultEffect
  <1>2. /\ fifo'[header] = fifo[header]
        /\ fifo'[s_kernel_network_out] = fifo[s_kernel_network_out]
        /\ fifo'[m_axis_tcp_tx_data] = fifo[m_axis_tcp_tx_data]
    BY <1>1, Names, AllStreams DEF Streams
  <1>3. at'[output] = x /\ at'[search] = at[search]
    BY <1>1, AllProcesses, ProcessNames DEF Moves
  <1>4. l \in [phase : {"idle", "results", "words"},
               results : Seq(Nat \X Nat), word : 1 .. ANSWER_WORDS]
    BY TypedLocals
  <1>5. x.results = results /\ x.word = l.word
    BY <1>4
  <1> HIDE DEF x, results
  <1>6. Done' = Done /\ Produced' = Produced
    BY <1>1, <1>2, <1>3 DEF Done, Produced
  <1>7. AnswerTyped(Done, l.results, l.word, fifo[s_output], o, s)
    BY OutTyped DEF OutInv
  <1>8. Answering(Done, results, l.word, Tail(fifo[s_output]), o, s, Produced)
    BY <1>1, <1>7, Keep DEF results, OutInv, BeingAnswered, Takes
  <1>9. BeingAnswered'
    BY <1>1, <1>2, <1>3, <1>5, <1>6, <1>8 DEF BeingAnswered, Takes
  <1> QED BY <1>1, <1>6, <1>9 DEF OutInv

LEMMA WordOut ==
  ASSUME TypeOK, OutputState, OutInv, output_word
  PROVE  OutInv'
  <1> DEFINE l == at[output]
             header == s_batch_header(output)
             out == s_kernel_network_out
             v == AnswerWord(l.results, l.word)
             last == l.word = ANSWER_WORDS
             x == IF last THEN Local(output)
                  ELSE [l EXCEPT !.word = @ + 1,
                                 !.phase = IF l.word = 1 THEN "results" ELSE "words"]
             s == fifo[m_axis_tcp_tx_data]
             n == Len(fifo[header])
  <1>1. /\ left[output] > 0 /\ l.phase = IF l.word = 1 THEN "idle" ELSE "words"
        /\ Writes(out, v) /\ Streams({out}) /\ Moves(output, x)
        /\ left' = IF last THEN [left EXCEPT ![output] = @ - 1] ELSE left
    BY TypedShape, OutputWordEffect
  <1>2. /\ fifo'[header] = fifo[header] /\ fifo'[s_output] = fifo[s_output]
        /\ fifo'[m_axis_tcp_tx_data] = fifo[m_axis_tcp_tx_data]
    BY <1>1, Names, AllStreams DEF Streams
  <1>3. at'[output] = x /\ at'[search] = at[search]
    BY <1>1, AllProcesses, ProcessNames DEF Moves
  <1>4. l \in [phase : {"idle", "results", "words"},
               results : Seq(Nat \X Nat), word : 1 .. ANSWER_WORDS]
        /\ DOMAIN left = Process /\ n \in Nat /\ at[search].query \in Nat /\ Done \in Nat
        /\ left[output] = 1
    BY <1>1, TypedLocals, OutTyped DEF OutInv
  <1>5. IF last THEN x = [phase |-> "idle", results |-> <<>>, word |-> 1]
        ELSE x.results = l.results /\ x.word = l.word + 1
    <2>1. Local(output) = [phase |-> "idle", results |-> <<>>, word |-> 1]
      <3>1. /\ output \notin {listen, open} /\ output # handshake /\ output # consume
            /\ output # search /\ output # send /\ output # stack /\ output # host
        BY ProcessNames
      <3> QED BY <3>1, Zenon DEF Local
    <2>2. CASE last
      BY <2>1, <2>2
    <2>3. CASE ~ last
      BY <1>4, <2>3
    <2> QED BY <2>2, <2>3
  <1>6. l.word > 1 => Len(l.results) = TOPK
    <2> SUFFICES ASSUME l.word > 1 PROVE Len(l.results) = TOPK
      OBVIOUS
    <2>1. l.word # 1
      BY <1>4
    <2>2. l.phase = "words"
      BY <1>1, <2>1
    <2> QED BY <2>2 DEF OutputState
  <1>7. left'[output] = IF last THEN 0 ELSE 1
    <2>1. CASE last
      BY <1>1, <1>4, <2>1, AllProcesses
    <2>2. CASE ~ last
      BY <1>1, <1>4, <2>2
    <2> QED BY <2>1, <2>2
  <1> HIDE DEF x, v, n
  <1>8. Done' = (IF last THEN Done + 1 ELSE Done) /\ Produced' = Produced
    <2> DEFINE q == at[search].query
    <2>1. Done' = q - n - left'[output] /\ Done = q - n - 1 /\ Produced' = Produced
      BY <1>2, <1>3, <1>4 DEF Done, Produced, n
    <2>2. q - n - 0 = q - n - 1 + 1
      <3> HIDE DEF q
      <3>1. q \in Nat
        BY <1>4 DEF q
      <3> QED BY <1>4, <3>1
    <2> HIDE DEF q, last
    <2> QED BY <1>7, <2>1, <2>2
  <1>9. AnswerTyped(Done, l.results, l.word, fifo[s_output], fifo[out], s)
    BY OutTyped DEF OutInv
  <1>10. IF last THEN Answering(Done + 1, <<>>, 1, fifo[s_output], Append(fifo[out], v), s, Produced)
         ELSE Answering(Done, l.results, l.word + 1, fifo[s_output], Append(fifo[out], v), s,
                        Produced)
    <2>1. Answering(Done, l.results, l.word, fifo[s_output], fifo[out], s, Produced)
      BY DEF OutInv, BeingAnswered
    <2> QED BY <1>6, <1>9, <2>1, Emit DEF v
  <1>11. BeingAnswered'
    <2>1. fifo'[out] = Append(fifo[out], v)
      BY <1>1 DEF Writes
    <2>2. CASE last
      <3>1. x.results = <<>> /\ x.word = 1
        BY <1>5, <2>2
      <3>2. Done' = Done + 1
        BY <1>8, <2>2
      <3>3. Answering(Done + 1, <<>>, 1, fifo[s_output], Append(fifo[out], v), s, Produced)
        BY <1>10, <2>2
      <3> QED BY <1>2, <1>3, <1>8, <2>1, <3>1, <3>2, <3>3 DEF BeingAnswered
    <2>3. CASE ~ last
      <3>1. x.results = l.results /\ x.word = l.word + 1
        BY <1>5, <2>3
      <3>2. Done' = Done
        BY <1>8, <2>3
      <3>3. Answering(Done, l.results, l.word + 1, fifo[s_output], Append(fifo[out], v), s,
                      Produced)
        BY <1>10, <2>3
      <3> QED BY <1>2, <1>3, <1>8, <2>1, <3>1, <3>2, <3>3 DEF BeingAnswered
    <2> QED BY <2>2, <2>3
  <1>12. left'[output] = 0 => at'[output].phase = "idle"
    BY <1>3, <1>5, <1>7
  <1>13. Done' \in Nat /\ left'[output] \in {0, 1}
    BY <1>4, <1>7, <1>8
  <1> QED BY <1>11, <1>12, <1>13 DEF OutInv

LEMMA SendOut ==
  ASSUME TypeOK, OutInv, send_word
  PROVE  OutInv'
  <1> DEFINE out == s_kernel_network_out
             data == m_axis_tcp_tx_data
             v == [data |-> Head(fifo[out]), last |-> is_last(at[send].todo)]
  <1>1. /\ Takes(out) /\ Writes(data, v) /\ Streams({out, data}) /\ UNCHANGED <<left, request>>
    BY TypedShape, SendWordEffect
  <1>2. \E x : Moves(send, x)
    BY TypedShape, SendWordEffect
  <1>3. /\ fifo'[s_batch_header(output)] = fifo[s_batch_header(output)]
        /\ fifo'[s_output] = fifo[s_output]
    BY <1>1, Names, AllStreams DEF Streams
  <1>4. at'[output] = at[output] /\ at'[search] = at[search]
    BY <1>2, AllProcesses, ProcessNames DEF Moves
  <1>5. Done' = Done /\ Produced' = Produced
    BY <1>1, <1>3, <1>4 DEF Done, Produced
  <1>6. v.data = Head(fifo[out])
    OBVIOUS
  <1> HIDE DEF v
  <1>7. Answering(Done, at[output].results, at[output].word, fifo[s_output],
                  Tail(fifo[out]), Append(fifo[data], v), Produced)
    BY <1>1, <1>6, OutTyped, Pack DEF OutInv, BeingAnswered, Takes
  <1>8. BeingAnswered'
    BY <1>1, <1>3, <1>4, <1>5, <1>7 DEF BeingAnswered, Takes, Writes
  <1> QED BY <1>1, <1>4, <1>5, <1>8 DEF OutInv


LEMMA OutInit == Init => OutInv
  <1> SUFFICES ASSUME Init PROVE OutInv
    OBVIOUS
  <1>1. /\ at[search] = [words |-> <<>>, query |-> 0, left |-> 0]
        /\ at[output] = [phase |-> "idle", results |-> <<>>, word |-> 1]
    <2>1. at = [p \in Process |-> Local(p)]
      BY DEF Init
    <2>2. /\ search \notin {listen, open} /\ search # handshake /\ search # consume
          /\ search # output /\ search # send /\ search # stack /\ search # host
          /\ output \notin {listen, open} /\ output # handshake /\ output # consume
          /\ output # send /\ output # stack /\ output # host
      BY ProcessNames
    <2>3. Local(search) = [words |-> <<>>, query |-> 0, left |-> 0]
      BY <2>2, Zenon DEF Local
    <2>4. Local(output) = [phase |-> "idle", results |-> <<>>, word |-> 1]
      BY <2>2, Zenon DEF Local
    <2> QED BY <2>1, <2>3, <2>4, AllProcesses, Zenon
  <1>2. \A c \in Stream : fifo[c] = <<>>
    BY DEF Init, FlowInit
  <1>3. /\ fifo[s_batch_header(output)] = <<>> /\ fifo[s_output] = <<>>
        /\ fifo[s_kernel_network_out] = <<>> /\ fifo[m_axis_tcp_tx_data] = <<>>
    BY <1>2, AllStreams
  <1>4. left[output] = 0
    <2>1. left = [p \in Process |-> 0]
      BY DEF Init, FlowInit
    <2> QED BY <2>1, AllProcesses
  <1>5. /\ at[search].query = 0 /\ at[search].left = 0 /\ at[output].results = <<>>
        /\ at[output].word = 1 /\ at[output].phase = "idle"
    BY <1>1
  <1>6. TOPK \in Nat \ {0} /\ ANSWER_WORDS \in Nat
    BY GlueAssumption, AnswerWords
  <1> DEFINE e == Len(<<>>)
             z == 0 * TOPK
             y == 0 * ANSWER_WORDS
  <1>7. e = 0 /\ z = 0 /\ y = 0
    BY <1>6
  <1>8. Done = 0
    <2>1. Done = 0 - e - 0
      BY <1>3, <1>4, <1>5 DEF Done
    <2> HIDE DEF e
    <2> QED BY <1>7, <2>1
  <1>9. Produced = 0
    <2>1. Produced = z - 0
      BY <1>5 DEF Produced
    <2> HIDE DEF z
    <2> QED BY <1>7, <2>1
  <1>10. Answering(0, <<>>, 1, <<>>, <<>>, <<>>, 0)
    <2>1. e + e + 1 = y + 1 /\ z + e + e = 0
      <3> HIDE DEF e, y, z
      <3> QED BY <1>7
    <2>2. Carries(outAt, <<>>, 0)
      BY <1>7 DEF Carries
    <2> QED BY <2>1, <2>2, NoneInOrder, Zenon DEF Answering
  <1>11. BeingAnswered
    BY <1>3, <1>5, <1>8, <1>9, <1>10 DEF BeingAnswered
  <1> QED BY <1>4, <1>5, <1>8, <1>11 DEF OutInv

\* The order of the answers is inductive.
LEMMA OutStep == TypeInv /\ OutInv /\ [Next]_vars => OutInv'
  <1> SUFFICES ASSUME TypeInv, OutInv, [Next]_vars PROVE OutInv'
    OBVIOUS
  <1>0. TypeOK /\ OutputState
    BY DEF TypeInv
  <1>s. ASSUME AnswerSame, SendSame PROVE OutInv'
    BY <1>s, OutSame DEF SendSame
  <1>1. CASE Connections
    BY <1>0, <1>1, <1>s, ConnectionFrame
  <1>2. CASE recvData_handshake \/ recvData_consumeData \/ stack_zero \/ stack_read
               \/ stack_word \/ host_send
    BY <1>0, <1>2, <1>s, ReceiveFrame
  <1>3. CASE search_word
    BY <1>0, <1>3, SearchWordOut
  <1>4. CASE search_result
    BY <1>0, <1>4, SearchResultOut
  <1>5. CASE network_output_processing
    <2>1. CASE read_header(output) /\ UNCHANGED <<at, request>>
      BY <1>0, <2>1, HeaderOut
    <2>2. CASE output_result
      BY <1>0, <2>2, ResultOut
    <2>3. CASE output_word
      BY <1>0, <2>3, WordOut
    <2> QED BY <1>5, <2>1, <2>2, <2>3 DEF network_output_processing
  <1>6. CASE send_first \/ send_next \/ send_status \/ stack_status
    <2>1. AnswerSame
      BY <1>0, <1>6, SendFrame DEF sendDataProtected
    <2>2. Streams({m_axis_tcp_tx_meta, s_axis_tcp_tx_status})
      <3>1. CASE send_first \/ send_next
        <4>1. Streams({m_axis_tcp_tx_meta})
          BY <1>0, <3>1, TypedShape, AnnounceEffect
        <4> QED BY <4>1 DEF Streams
      <3>2. CASE send_status
        BY <1>0, <3>2, TypedShape, StatusEffect
      <3>3. CASE stack_status
        BY <1>0, <3>3, TypedShape, StackStatusEffect
      <3> QED BY <1>6, <3>1, <3>2, <3>3
    <2>3. fifo'[m_axis_tcp_tx_data] = fifo[m_axis_tcp_tx_data]
      BY <2>2, Names, AllStreams DEF Streams
    <2> QED BY <2>1, <2>3, OutSame
  <1>7. CASE send_word
    BY <1>0, <1>7, SendOut
  <1>8. CASE UNCHANGED vars
    <2>1. UNCHANGED <<fifo, left, at, request>>
      BY <1>8 DEF vars, flowVars
    <2>2. AnswerSame /\ SendSame
      BY <2>1 DEF AnswerSame, SendSame
    <2> QED BY <1>s, <2>2
  <1> QED BY <1>1, <1>2, <1>3, <1>4, <1>5, <1>6, <1>7, <1>8, Zenon
          DEF Next, Kernel, Stack, Connections, sendDataProtected

\* The words in the packets are the first words of the answers.
LEMMA OutPrefix ==
  ASSUME TypeInv, OutInv
  PROVE  LET sent == fifo[m_axis_tcp_tx_data]
         IN  IsPrefix([k \in DOMAIN sent |-> sent[k].data],
                      FlattenSeq([q \in 1 .. at[search].query |-> Answer(q)]))
  <1> DEFINE sent == fifo[m_axis_tcp_tx_data]
             out == fifo[s_kernel_network_out]
             s == [k \in DOMAIN sent |-> sent[k].data]
             Q == at[search].query
             A == ANSWER_WORDS
             seqs == [q \in 1 .. Q |-> Answer(q)]
             l == at[output]
             n == Len(fifo[s_batch_header(output)])
  <1>0. TypeOK /\ OutputState
    BY DEF TypeInv
  <1>1. /\ Done \in Nat /\ left[output] \in {0, 1}
        /\ left[output] = 0 => l.phase = "idle"
        /\ AnswerTyped(Done, l.results, l.word, fifo[s_output], out, sent)
        /\ Q \in Nat /\ n \in Nat
    BY <1>0, OutTyped DEF OutInv
  <1>2. /\ Carries(outAt, sent, 0) /\ Len(sent) + Len(out) + 1 = Done * A + l.word
    BY DEF OutInv, BeingAnswered, Answering
  <1>3. /\ Done * A \in Nat /\ Len(out) \in Nat /\ Len(sent) \in Nat /\ l.word \in 1 .. A
        /\ A \in Nat /\ A >= 3 /\ sent \in Seq([data : OutWord, last : BOOLEAN])
    <2>1. sent \in Seq([data : OutWord, last : BOOLEAN])
      BY <1>1 DEF AnswerTyped
    <2> QED BY <1>1, <2>1, AnswerLens
  <1>4. s \in Seq(OutWord) /\ Len(s) = Len(sent) /\ \A k \in 1 .. Len(sent) : s[k] = sent[k].data
    <2>1. /\ Len(sent) \in Nat /\ DOMAIN sent = 1 .. Len(sent)
          /\ \A k \in 1 .. Len(sent) : sent[k].data \in OutWord
      <3> HIDE DEF sent
      <3>1. /\ sent \in Seq([data : OutWord, last : BOOLEAN]) /\ Len(sent) \in Nat
        BY <1>3
      <3>2. DOMAIN sent = 1 .. Len(sent)
        BY <3>1
      <3>3. ASSUME NEW k \in 1 .. Len(sent) PROVE sent[k].data \in OutWord
        <4> DEFINE R == [data : OutWord, last : BOOLEAN]
        <4>1. sent \in Seq(R)
          BY <3>1
        <4> HIDE DEF R
        <4>2. sent[k] \in R
          BY <4>1
        <4> QED BY <4>2 DEF R
      <3> QED BY <3>1, <3>2, <3>3
    <2> DEFINE m == Len(sent)
    <2>2. /\ m \in Nat /\ s = [k \in 1 .. m |-> sent[k].data]
          /\ \A k \in 1 .. m : sent[k].data \in OutWord
      BY <2>1
    <2> HIDE DEF m, s, sent
    <2>3. s \in Seq(OutWord) /\ Len(s) = m /\ \A k \in 1 .. m : s[k] = sent[k].data
      BY <2>2
    <2> QED BY <2>3 DEF m
  <1>5. Len(sent) <= Q * A
    <2>1. Done = Q - n - left[output]
      BY DEF Done
    <2> DEFINE x == Done * A
               y == Q * A
    <2>2. CASE left[output] = 0
      <3>1. l.word = 1
        BY <1>0, <1>1, <2>2 DEF OutputState
      <3>2. Done <= Q
        <4> HIDE DEF n, Q
        <4> QED BY <1>1, <2>1, <2>2
      <3>3. x <= y
        <4> HIDE DEF Q
        <4> QED BY <1>1, <1>3, <3>2
      <3> HIDE DEF x, y, sent, out
      <3>4. x \in Nat /\ Len(sent) + Len(out) + 1 = x + 1
        BY <1>2, <1>3, <3>1 DEF x
      <3>5. y \in Nat
        BY <1>1, <1>3 DEF y
      <3>6. Len(sent) <= y
        BY <1>3, <3>3, <3>4, <3>5
      <3> QED BY <3>6 DEF y
    <2>3. CASE left[output] = 1
      <3>1. Done + 1 <= Q
        <4> HIDE DEF n, Q
        <4> QED BY <1>1, <2>1, <2>3
      <3>2. (Done + 1) * A <= y /\ (Done + 1) * A = x + A
        <4> HIDE DEF Q
        <4> QED BY <1>1, <1>3, <3>1
      <3> DEFINE z == (Done + 1) * A
      <3>3. z <= y /\ z = x + A
        BY <3>2
      <3> HIDE DEF x, y, z, sent, out
      <3>4. x \in Nat /\ Len(sent) + Len(out) + 1 = x + l.word
        BY <1>2, <1>3 DEF x
      <3>5. y \in Nat
        BY <1>1, <1>3 DEF y
      <3>6. Len(sent) <= y
        BY <1>3, <3>3, <3>4, <3>5
      <3> QED BY <3>6 DEF y
    <2> QED BY <1>1, <2>2, <2>3
  <1>6. ASSUME NEW q \in Nat \ {0}
        PROVE  /\ Answer(q) \in Seq(OutWord) /\ Len(Answer(q)) = A
               /\ \A w \in 1 .. A : Answer(q)[w] = AnswerWord(resultsOf(q), w)
    <2>1. resultsOf(q) \in Seq(Nat \X Nat) /\ Len(resultsOf(q)) = TOPK
      BY GlueAssumption DEF resultsOf, Result
    <2>2. \A w \in 1 .. A : AnswerWord(resultsOf(q), w) \in OutWord
      BY <2>1, AnswerWordType
    <2>3. Answer(q) = [w \in 1 .. A |-> AnswerWord(resultsOf(q), w)]
      BY DEF Answer, resultsOf
    <2> QED BY <1>3, <2>2, <2>3
  <1>7. seqs \in [1 .. Q -> Seq(OutWord)] /\ \A q \in 1 .. Q : Len(seqs[q]) = A
    <2> HIDE DEF Q
    <2> QED BY <1>1, <1>6
  <1>8. /\ FlattenSeq(seqs) \in Seq(OutWord) /\ Len(FlattenSeq(seqs)) = Q * A
        /\ \A k \in 1 .. Q * A : FlattenSeq(seqs)[k] = seqs[(k - 1) \div A + 1][((k - 1) % A) + 1]
    <2> HIDE DEF seqs, Q
    <2>1. Q \in Nat /\ A \in Nat \ {0} /\ seqs \in [1 .. Q -> Seq(OutWord)]
          /\ \A q \in 1 .. Q : Len(seqs[q]) = A
      <3>1. A \in Nat \ {0}
        BY <1>3
      <3> QED BY <1>1, <1>7, <3>1
    <2> QED BY <2>1, FlattenUniform, ZenonT(60)
  <1>9. ASSUME NEW k \in 1 .. Len(s) PROVE s[k] = FlattenSeq(seqs)[k]
    <2> DEFINE e == (k - 1) \div A
               r == (k - 1) % A
               f == Q * A
    <2>1. k - 1 \in Nat /\ k \in 1 .. f /\ k \in 1 .. Len(sent) /\ f \in Nat
      <3>1. Len(s) \in Nat /\ f \in Nat /\ Len(s) <= f /\ Len(s) = Len(sent)
        BY <1>1, <1>3, <1>4, <1>5
      <3> HIDE DEF f, s, sent
      <3> QED BY <3>1
    <2>2. e \in Nat /\ r \in 0 .. A - 1 /\ e < Q
      <3>1. k - 1 < Q * A /\ A \in Nat \ {0}
        <4> HIDE DEF f
        <4>1. k - 1 < f
          BY <2>1
        <4> QED BY <1>3, <4>1 DEF f
      <3> HIDE DEF Q
      <3> QED BY <1>1, <2>1, <3>1, Quotient
    <2>3. s[k] = outAt[k]
      <3>1. 0 + k = k
        OBVIOUS
      <3> HIDE DEF s, sent
      <3> QED BY <1>2, <1>4, <2>1, <3>1 DEF Carries
    <2>4. outAt[k] = AnswerWord(resultsOf(e + 1), r + 1)
      <3>1. k \in Nat \ {0}
        OBVIOUS
      <3> QED BY <3>1 DEF outAt
    <2>5. e + 1 \in 1 .. Q /\ r + 1 \in 1 .. A /\ e + 1 \in Nat \ {0}
      <3> HIDE DEF e, r, Q
      <3> QED BY <1>1, <1>3, <2>2
    <2>6. FlattenSeq(seqs)[k] = seqs[e + 1][r + 1]
      <3>1. k \in 1 .. Q * A
        BY <2>1
      <3> HIDE DEF seqs, Q
      <3> QED BY <1>8, <3>1
    <2>7. seqs[e + 1][r + 1] = AnswerWord(resultsOf(e + 1), r + 1)
      <3> HIDE DEF e, r, Q
      <3>1. seqs[e + 1] = Answer(e + 1)
        BY <2>5
      <3> HIDE DEF seqs
      <3> QED BY <1>6, <2>5, <3>1
    <2> HIDE DEF s, seqs, e, r
    <2> QED BY <2>3, <2>4, <2>6, <2>7
  <1>10. Len(s) <= Len(FlattenSeq(seqs))
    BY <1>4, <1>5, <1>8
  <1> HIDE DEF s, seqs
  <1>11. IsPrefix(s, FlattenSeq(seqs))
    BY <1>4, <1>8, <1>9, <1>10, Prefix
  <1> QED BY <1>11 DEF s, seqs


-----------------------------------------------------------------------------
(* The packets of the answers.                                             *)

\* A packet ends after n units.
IsEnd(acc, n) == \E j \in 1 .. Len(acc) : SumTo(acc, j) = n

\* Of the packets accepted, whose lengths are acc, the words sent are in the
\* connection, todo are owed, and an acceptance of length pending is on its way.
Packing(acc, sent, todo, pending) ==
  /\ acc \in Seq(Nat \ {0})
  /\ Sum(acc) = (Len(sent) + todo) * WORD + pending
  /\ \A k \in 1 .. Len(acc) - 1 : SumTo(acc, k) <= Len(sent) * WORD
  /\ \A k \in 1 .. Len(sent) : sent[k].last <=> IsEnd(acc, k * WORD)

\* A packet is accepted: its length is on its way to the kernel.
LEMMA Accept ==
  ASSUME NEW acc, NEW sent, IsSequence(sent), Packing(acc, sent, 0, 0), NEW n \in Nat \ {0}
  PROVE  Packing(Append(acc, n), sent, 0, n)
  <1> DEFINE s == Len(sent)
             x == s * WORD
             b == Append(acc, n)
             m == Len(acc)
  <1>1. s \in Nat /\ WORD \in Nat \ {0} /\ x \in Nat
    <2>1. s \in Nat /\ WORD \in Nat \ {0}
      BY Sequences, Sizes
    <2> HIDE DEF s
    <2> QED BY <2>1
  <1>2. acc \in Seq(Nat \ {0}) /\ acc \in Seq(Nat) /\ Sum(acc) = x
    <2>1. acc \in Seq(Nat \ {0}) /\ Sum(acc) = (s + 0) * WORD + 0
      BY DEF Packing
    <2>2. (s + 0) * WORD + 0 = x
      <3> HIDE DEF s
      <3> QED BY <1>1
    <2> QED BY <2>1, <2>2
  <1>3. /\ b \in Seq(Nat \ {0}) /\ Len(b) = m + 1 /\ m \in Nat
        /\ Sum(b) = x + n /\ \A k \in 0 .. m : SumTo(b, k) = SumTo(acc, k)
        /\ SumTo(b, m + 1) = x + n
    <2>1. b \in Seq(Nat \ {0}) /\ Len(b) = m + 1 /\ m \in Nat
      BY <1>2
    <2>2. Sum(b) = Sum(acc) + n /\ \A k \in 0 .. m : SumTo(b, k) = SumTo(acc, k)
      BY <1>2, SumAppend
    <2>3. SumTo(b, m + 1) = Sum(b)
      BY <2>1 DEF Sum
    <2> QED BY <1>2, <2>1, <2>2, <2>3
  <1>4. (s + 0) * WORD + n = x + n
    <2>1. s + 0 = s
      BY <1>1
    <2> QED BY <2>1
  <1>5. ASSUME NEW k \in 1 .. m PROVE SumTo(b, k) <= x /\ SumTo(b, k) = SumTo(acc, k)
    <2>1. SumTo(acc, k) <= SumTo(acc, m)
      <3>1. k \in 0 .. Len(acc) /\ m \in k .. Len(acc)
        BY <1>3
      <3> QED BY <1>2, <3>1, SumGrows
    <2>2. SumTo(acc, m) = x
      BY <1>2 DEF Sum
    <2>3. SumTo(b, k) = SumTo(acc, k)
      BY <1>3
    <2> QED BY <2>1, <2>2, <2>3
  <1>6. ASSUME NEW k \in 1 .. s PROVE sent[k].last <=> IsEnd(b, k * WORD)
    <2>1. sent[k].last <=> IsEnd(acc, k * WORD)
      BY DEF Packing
    <2> DEFINE e == k * WORD
    <2>2. e <= x /\ e \in Nat
      <3> HIDE DEF s
      <3> QED BY <1>1
    <2> HIDE DEF e, x, b, m
    <2>3. SumTo(b, m + 1) # e
      BY <1>1, <1>3, <2>2
    <2>4. ASSUME NEW j \in 1 .. Len(b), SumTo(b, j) = e
          PROVE  \E i \in 1 .. Len(acc) : SumTo(acc, i) = e
      <3>1. j \in 1 .. m
        BY <1>3, <2>3, <2>4
      <3>2. SumTo(acc, j) = e
        BY <1>5, <2>4, <3>1
      <3> QED BY <3>1, <3>2 DEF m
    <2>5. ASSUME NEW j \in 1 .. Len(acc), SumTo(acc, j) = e
          PROVE  \E i \in 1 .. Len(b) : SumTo(b, i) = e
      <3>1. j \in 1 .. m
        BY DEF m
      <3>2. j \in 1 .. Len(b)
        BY <1>3, <3>1
      <3> QED BY <1>5, <2>5, <3>1, <3>2
    <2>6. IsEnd(acc, e) <=> IsEnd(b, e)
      BY <2>4, <2>5 DEF IsEnd
    <2> QED BY <2>1, <2>6 DEF e
  <1>7. Len(b) - 1 = m
    <2> HIDE DEF b, m
    <2> QED BY <1>3
  <1>8. Packing(b, sent, 0, n)
    <2>1. Sum(b) = (Len(sent) + 0) * WORD + n
      <3> HIDE DEF b, m
      <3> QED BY <1>3, <1>4
    <2>2. \A k \in 1 .. Len(b) - 1 : SumTo(b, k) <= Len(sent) * WORD
      <3> HIDE DEF b, m
      <3> QED BY <1>5, <1>7
    <2> HIDE DEF b
    <2> QED BY <1>3, <1>6, <2>1, <2>2, Zenon DEF Packing
  <1> QED BY <1>8

\* The kernel learns of it and owes its words.
LEMMA Owe ==
  ASSUME NEW acc, NEW sent, IsSequence(sent), NEW n, NEW t \in Nat, t * WORD = n,
         Packing(acc, sent, 0, n)
  PROVE  Packing(acc, sent, t, 0)
  <1> DEFINE s == Len(sent)
  <1>1. s \in Nat /\ WORD \in Nat \ {0}
    BY Sequences, Sizes
  <1>2. Sum(acc) = (s + 0) * WORD + n
    BY DEF Packing
  <1>3. (s + 0) * WORD + n = (s + t) * WORD + 0
    <2> HIDE DEF s
    <2>1. s + 0 = s /\ (s + t) * WORD = s * WORD + t * WORD
      BY <1>1
    <2> DEFINE x == s * WORD
               y == t * WORD
    <2>2. x \in Nat /\ y \in Nat /\ n = y
      BY <1>1
    <2>3. x + y = x + y + 0
      <3> HIDE DEF x, y
      <3> QED BY <2>2
    <2> QED BY <2>1, <2>2, <2>3
  <1> QED BY <1>2, <1>3 DEF Packing

\* One of them is sent, marked if it is the last.
LEMMA SendOne ==
  ASSUME NEW acc, NEW sent, IsSequence(sent), NEW t \in Nat \ {0},
         Packing(acc, sent, t, 0), NEW v, v.last <=> t = 1
  PROVE  Packing(acc, Append(sent, v), t - 1, 0)
  <1> DEFINE s == Len(sent)
             x == s * WORD
             y == (s + 1) * WORD
             z == (s + t) * WORD
             b == Append(sent, v)
             m == Len(acc)
  <1>1. s \in Nat /\ WORD \in Nat \ {0}
    BY Sequences, Sizes
  <1>2. /\ x \in Nat /\ y = x + WORD /\ z \in Nat /\ (t > 1 => y < z) /\ (t = 1 => y = z)
    <2> HIDE DEF s
    <2>1. x \in Nat /\ y = x + WORD /\ z = x + t * WORD
      BY <1>1
    <2>2. t = 1 => z = y
      BY <1>1
    <2>3. t > 1 => t * WORD >= WORD + WORD
      <3> SUFFICES ASSUME t > 1 PROVE t * WORD >= WORD + WORD
        OBVIOUS
      <3>1. t * WORD >= 2 * WORD /\ 2 * WORD = WORD + WORD
        BY <1>1
      <3> QED BY <3>1
    <2> DEFINE w == t * WORD
    <2>4. w \in Nat
      BY <1>1
    <2> HIDE DEF x, y, z, w
    <2>5. z \in Nat /\ (t > 1 => y < z)
      <3>1. z = x + w /\ (t > 1 => w >= WORD + WORD)
        BY <2>1, <2>3 DEF w
      <3> QED BY <1>1, <2>1, <2>4, <3>1
    <2> QED BY <2>1, <2>2, <2>5
  <1>3. /\ acc \in Seq(Nat \ {0}) /\ acc \in Seq(Nat) /\ Sum(acc) = z
        /\ \A k \in 1 .. m - 1 : SumTo(acc, k) <= x
        /\ m \in Nat
    <2>1. acc \in Seq(Nat \ {0}) /\ Sum(acc) = z + 0
      BY DEF Packing
    <2>2. z + 0 = z
      <3> HIDE DEF z
      <3> QED BY <1>2
    <2>3. \A k \in 1 .. m - 1 : SumTo(acc, k) <= x
      BY DEF Packing
    <2> QED BY <2>1, <2>2, <2>3
  <1>4. Len(b) = s + 1 /\ (\A j \in 1 .. s : b[j] = sent[j]) /\ b[s + 1] = v
    BY Sequences
  <1>5. \A k \in 1 .. m - 1 : SumTo(acc, k) \in Nat /\ SumTo(acc, k) <= y /\ SumTo(acc, k) # y
    <2> SUFFICES ASSUME NEW k \in 1 .. m - 1
                 PROVE  SumTo(acc, k) \in Nat /\ SumTo(acc, k) <= y /\ SumTo(acc, k) # y
      OBVIOUS
    <2>1. SumTo(acc, k) \in Nat
      <3>1. k \in 0 .. Len(acc)
        BY <1>3
      <3> QED BY <1>3, <3>1, SumNat
    <2>2. SumTo(acc, k) <= x
      BY <1>3
    <2> DEFINE n == SumTo(acc, k)
    <2>3. n \in Nat /\ n <= x
      BY <2>1, <2>2
    <2> HIDE DEF n, x, y
    <2>4. n <= y /\ n # y
      BY <1>1, <1>2, <2>3
    <2> QED BY <2>1, <2>4 DEF n
  <1>6. m # 0 /\ SumTo(acc, m) = z
    <2>1. SumTo(acc, m) = z
      BY <1>3 DEF Sum
    <2>2. z # 0
      <3> HIDE DEF x, y, z
      <3> QED BY <1>1, <1>2
    <2> HIDE DEF z
    <2>3. m # 0
      BY <2>1, <2>2, SumStep
    <2> QED BY <2>1, <2>3
  <1>7. IsEnd(acc, y) <=> t = 1
    <2> HIDE DEF x, y, z
    <2>1. CASE t = 1
      <3>1. m \in 1 .. Len(acc) /\ SumTo(acc, m) = y
        BY <1>2, <1>3, <1>6, <2>1
      <3> QED BY <2>1, <3>1 DEF IsEnd
    <2>2. CASE t # 1
      <3>1. z # y /\ y \in Nat
        BY <1>1, <1>2, <2>2
      <3>2. \A j \in 1 .. m : SumTo(acc, j) # y
        <4> SUFFICES ASSUME NEW j \in 1 .. m PROVE SumTo(acc, j) # y
          OBVIOUS
        <4>1. CASE j = m
          BY <1>6, <3>1, <4>1
        <4>2. CASE j # m
          BY <1>3, <1>5, <4>2
        <4> QED BY <4>1, <4>2
      <3> QED BY <2>2, <3>2 DEF IsEnd
    <2> QED BY <2>1, <2>2
  <1>8. ASSUME NEW k \in 1 .. s + 1 PROVE b[k].last <=> IsEnd(acc, k * WORD)
    <2>1. CASE k = s + 1
      BY <1>4, <1>7, <2>1
    <2>2. CASE k # s + 1
      <3>1. k \in 1 .. s
        BY <1>1, <2>2
      <3>2. sent[k].last <=> IsEnd(acc, k * WORD)
        BY <3>1 DEF Packing
      <3> QED BY <1>4, <3>1, <3>2
    <2> QED BY <2>1, <2>2
  <1>9. (Len(b) + (t - 1)) * WORD + 0 = z
    <2> DEFINE n == Len(b)
    <2>1. n + (t - 1) = s + t
      <3> HIDE DEF n, s
      <3>1. n = s + 1
        BY <1>4 DEF n
      <3> QED BY <1>1, <3>1
    <2>2. z + 0 = z
      <3> HIDE DEF z
      <3> QED BY <1>2
    <2> HIDE DEF n, s
    <2>3. (n + (t - 1)) * WORD = z
      BY <2>1
    <2> QED BY <2>2, <2>3 DEF n
  <1>10. \A k \in 1 .. m - 1 : SumTo(acc, k) <= Len(b) * WORD
    BY <1>4, <1>5
  <1>11. \A k \in 1 .. Len(b) : b[k].last <=> IsEnd(acc, k * WORD)
    BY <1>4, <1>8
  <1>12. Packing(acc, b, t - 1, 0)
    <2>1. Sum(acc) = (Len(b) + (t - 1)) * WORD + 0
      <3> HIDE DEF b, z, m
      <3> QED BY <1>3, <1>9
    <2> HIDE DEF b
    <2> QED BY <1>3, <1>10, <1>11, <2>1, Zenon DEF Packing
  <1> QED BY <1>12


\* The length of the packet whose acceptance is in the stream of statuses q.
AcceptedIn(q) == IF q = <<>> THEN 0 ELSE IF Head(q).error = 0 THEN Head(q).length ELSE 0

\* The packets accepted and the words sent and owed.
CutInv == Packing(at[stack].accepted, fifo[m_axis_tcp_tx_data], at[send].todo,
                  AcceptedIn(fifo[s_axis_tcp_tx_status]))

\* No words without packets.
LEMMA CutInit == Init => CutInv
  <1> SUFFICES ASSUME Init PROVE CutInv
    OBVIOUS
  <1>1. at[stack].accepted = <<>> /\ at[send].todo = 0
    <2>1. at = [p \in Process |-> Local(p)]
      BY DEF Init
    <2>2. /\ stack \notin {listen, open} /\ stack # handshake /\ stack # consume
          /\ stack # search /\ stack # output /\ stack # send /\ stack # host
          /\ send \notin {listen, open} /\ send # handshake /\ send # consume
          /\ send # search /\ send # output /\ send # stack /\ send # host
      BY ProcessNames
    <2>3. Local(stack) = [buffer |-> <<>>, packet |-> <<>>, accepted |-> <<>>,
                          zeros |-> 0, retries |-> 0]
      BY <2>2, Zenon DEF Local
    <2>4. Local(send) = [phase |-> "first", sentByteCnt |-> 0, length |-> 0, todo |-> 0]
      BY <2>2, Zenon DEF Local
    <2>5. at[stack] = Local(stack) /\ at[send] = Local(send)
      BY <2>1, AllProcesses
    <2> QED BY <2>3, <2>4, <2>5
  <1>2. fifo[m_axis_tcp_tx_data] = <<>> /\ fifo[s_axis_tcp_tx_status] = <<>>
    <2>1. \A c \in Stream : fifo[c] = <<>>
      BY DEF Init, FlowInit
    <2> QED BY <2>1, AllStreams
  <1>3. AcceptedIn(<<>>) = 0
    BY DEF AcceptedIn
  <1> DEFINE e == <<>>
             n == Len(e)
  <1>4. n = 0 /\ e \in Seq(Nat \ {0}) /\ e \in Seq(Nat)
    OBVIOUS
  <1>5. Sum(e) = 0
    BY <1>4, SumStep DEF Sum
  <1>6. WORD \in Nat
    BY GlueAssumption
  <1>7. (n + 0) * WORD + 0 = 0
    <2> HIDE DEF n
    <2>1. (n + 0) * WORD = 0
      BY <1>4, <1>6
    <2> QED BY <2>1
  <1>8. (1 .. n) = {} /\ (1 .. n - 1) = {}
    <2> HIDE DEF n
    <2> QED BY <1>4
  <1>9. Packing(e, e, 0, 0)
    <2>1. Sum(e) = (Len(e) + 0) * WORD + 0
      BY <1>5, <1>7
    <2>2. \A k \in 1 .. Len(e) - 1 : SumTo(e, k) <= Len(e) * WORD
      BY <1>8
    <2>3. \A k \in 1 .. Len(e) : e[k].last <=> IsEnd(e, k * WORD)
      BY <1>8
    <2> HIDE DEF e, n
    <2> QED BY <1>4, <2>1, <2>2, <2>3, Zenon DEF Packing
  <1> QED BY <1>1, <1>2, <1>3, <1>9 DEF CutInv

LEMMA CutSame == CutInv /\ SendSame => CutInv'
BY DEF CutInv, SendSame

\* Each step of a packet: announced, accepted or refused, owed, sent.
LEMMA CutMove ==
  ASSUME TypeInv, PacketInFlight, CutInv, sendDataProtected \/ stack_status
  PROVE  CutInv'
  <1> DEFINE l == at[send]
             meta == m_axis_tcp_tx_meta
             status == s_axis_tcp_tx_status
             out == s_kernel_network_out
             data == m_axis_tcp_tx_data
             acc == at[stack].accepted
             sent == fifo[data]
             T == [phase : {"first", "status", "data", "next", "done"},
                   sentByteCnt : Nat, length : Nat, todo : Nat]
             M == [sessionID : SessionID, length : Lengths]
             R == [sessionID : SessionID, length : Lengths, error : 0 .. 2]
  <1>0. TypeOK /\ Shape /\ SendState
    BY TypedShape DEF TypeInv
  <1>t. l \in T /\ send \in Process /\ stack \in Process /\ send # stack
    BY <1>0, TypedLocals, AllProcesses, ProcessNames
  <1>s. /\ l.phase = "data" <=> l.todo > 0
        /\ l.todo \in Nat
        /\ fifo[meta] \in Seq(M) /\ fifo[status] \in Seq(R)
    BY <1>0, <1>t DEF SendState
  <1>c. /\ meta \in Stream /\ status \in Stream /\ out \in Stream /\ data \in Stream
        /\ meta # status /\ meta # out /\ meta # data /\ status # out /\ status # data
        /\ out # data
    BY AllStreams, Names
  <1>q. IsSequence(sent)
    BY <1>0, <1>c DEF Shape, FlowShape
  <1>p. Packing(acc, sent, l.todo, AcceptedIn(fifo[status]))
    BY DEF CutInv
  <1>z. AcceptedIn(<<>>) = 0
    BY DEF AcceptedIn
  <1>1. CASE send_first \/ send_next
    <2>1. /\ Streams({meta}) /\ Moves(send, [l EXCEPT !.phase = "status"])
      BY <1>0, <1>1, AnnounceEffect
    <2>2. /\ fifo'[data] = fifo[data] /\ fifo'[status] = fifo[status]
          /\ at'[send].todo = l.todo /\ at'[stack] = at[stack]
      BY <1>c, <1>t, <2>1 DEF Streams, Moves
    <2> QED BY <2>2 DEF CutInv
  <1>2. CASE send_status
    <2> DEFINE resp == Head(fifo[status])
               x == IF resp.error = 0
                    THEN [l EXCEPT !.phase = "data", !.length = resp.length,
                                   !.todo = resp.length \div WORD]
                    ELSE l
    <2>1. l.phase = "status" /\ Takes(status) /\ Streams({status, meta}) /\ Moves(send, x)
      BY <1>0, <1>2, StatusEffect
    <2>2. fifo[status] # <<>> /\ fifo'[status] = <<>> /\ resp \in R
      <3>1. fifo[status] # <<>> /\ fifo'[status] = Tail(fifo[status])
        BY <2>1 DEF Takes
      <3>2. Len(fifo[status]) <= 1
        BY <2>1 DEF PacketInFlight
      <3> DEFINE q == fifo[status]
      <3>3. q \in Seq(R) /\ q # <<>> /\ Len(q) <= 1
        BY <1>s, <3>1, <3>2
      <3> HIDE DEF q, R
      <3>4. Tail(q) = <<>> /\ Head(q) \in R
        BY <3>3
      <3> QED BY <3>1, <3>4 DEF q
    <2>3. /\ fifo'[data] = sent /\ at'[send] = x /\ at'[stack] = at[stack] /\ l.todo = 0
      BY <1>c, <1>s, <1>t, <2>1 DEF Streams, Moves
    <2> HIDE DEF resp
    <2>4. CASE resp.error = 0
      <3> DEFINE n == resp.length
                 t == n \div WORD
      <3>1. t \in Nat /\ t * WORD = n
        BY <1>0, <2>2, WholeWords
      <3>2. AcceptedIn(fifo[status]) = n
        BY <2>2, <2>4 DEF AcceptedIn, resp
      <3>3. Packing(acc, sent, 0, n)
        BY <1>p, <2>3, <3>2
      <3>4. at'[send].todo = t
        <4>1. x = [l EXCEPT !.phase = "data", !.length = n, !.todo = t]
          BY <2>4
        <4> QED BY <1>t, <2>3, <4>1
      <3> HIDE DEF n, t
      <3>5. Packing(acc, sent, t, 0)
        BY <1>q, <3>1, <3>3, Owe
      <3> QED BY <1>z, <2>2, <2>3, <3>4, <3>5 DEF CutInv
    <2>5. CASE resp.error # 0
      <3>1. AcceptedIn(fifo[status]) = 0
        BY <2>2, <2>5 DEF AcceptedIn, resp
      <3>2. at'[send].todo = l.todo
        BY <2>3, <2>5
      <3> QED BY <1>p, <1>z, <2>2, <2>3, <3>1, <3>2 DEF CutInv
    <2> QED BY <2>4, <2>5
  <1>3. CASE send_word
    <2> DEFINE total == l.sentByteCnt + l.length
               word == [data |-> Head(fifo[out]), last |-> is_last(l.todo)]
               phase == IF total < expectedTxByteCnt THEN "next" ELSE "done"
               x == IF l.todo = 1
                    THEN [l EXCEPT !.phase = phase, !.sentByteCnt = total, !.todo = 0]
                    ELSE [l EXCEPT !.todo = @ - 1]
    <2>1. /\ l.phase = "data" /\ Writes(data, word) /\ Streams({out, data}) /\ Moves(send, x)
      BY <1>0, <1>3, SendWordEffect
    <2>2. /\ l.todo \in Nat \ {0} /\ fifo[status] = <<>>
      BY <1>s, <2>1 DEF PacketInFlight
    <2>3. /\ fifo'[status] = fifo[status] /\ at'[send] = x /\ at'[stack] = at[stack]
          /\ fifo'[data] = Append(sent, word)
      BY <1>c, <1>t, <2>1 DEF Streams, Moves, Writes
    <2>4. word.last <=> l.todo = 1
      BY DEF is_last
    <2>5. x.todo = l.todo - 1
      <3> HIDE DEF phase, total
      <3> QED BY <1>t, <2>2
    <2>6. Packing(acc, sent, l.todo, 0)
      BY <1>p, <1>z, <2>2
    <2> HIDE DEF word, x
    <2>7. Packing(acc, Append(sent, word), l.todo - 1, 0)
      <3> DEFINE t == l.todo
      <3> HIDE DEF t, sent, acc
      <3>1. t \in Nat \ {0} /\ Packing(acc, sent, t, 0) /\ (word.last <=> t = 1)
        BY <2>2, <2>4, <2>6 DEF t
      <3>2. Packing(acc, Append(sent, word), t - 1, 0)
        BY <1>q, <3>1, SendOne
      <3> QED BY <3>2 DEF t
    <2> QED BY <1>z, <2>2, <2>3, <2>5, <2>7 DEF CutInv
  <1>4. CASE stack_status
    <2> DEFINE s == at[stack]
               m == Head(fifo[meta])
               Reply(error) == [sessionID |-> m.sessionID, length |-> m.length, error |-> error]
               x == [s EXCEPT !.accepted = Append(@, m.length)]
               y == [s EXCEPT !.retries = @ + 1]
    <2>1. /\ Takes(meta) /\ Streams({meta, status})
          /\ \/ Writes(status, Reply(0)) /\ Moves(stack, x)
             \/ Writes(status, Reply(1)) /\ UNCHANGED at
             \/ Writes(status, Reply(2)) /\ Moves(stack, y)
      BY <1>0, <1>4, StackStatusEffect
    <2>2. m \in M
      <3> HIDE DEF M
      <3> QED BY <1>s, <2>1, QueueTake
    <2>3. m.length \in Nat \ {0}
      BY <1>0, <2>2, WholeWords
    <2>4. l.phase = "status" /\ fifo[status] = <<>> /\ l.todo = 0
      BY <1>s, <2>1 DEF Takes, PacketInFlight
    <2>5. s \in [buffer : Seq(Unit), packet : Seq(Word), accepted : Seq(Nat),
                 zeros : Nat, retries : Nat]
      BY <1>0, TypedLocals
    <2>6. fifo'[data] = sent
      BY <1>c, <2>1 DEF Streams
    <2>7. at'[send] = l
      BY <1>t, <2>1 DEF Moves
    <2>8. ASSUME NEW v, Writes(status, v)
          PROVE  AcceptedIn(fifo'[status]) = IF v.error = 0 THEN v.length ELSE 0
      <3>1. fifo'[status] = <<v>>
        BY <2>4, <2>8 DEF Writes
      <3> QED BY <3>1 DEF AcceptedIn
    <2>9. Packing(acc, sent, 0, 0)
      BY <1>p, <1>z, <2>4
    <2>10. CASE Writes(status, Reply(0)) /\ Moves(stack, x)
      <3> DEFINE v == Reply(0)
                 n == m.length
      <3>1. v.error = 0 /\ v.length = n
        OBVIOUS
      <3> HIDE DEF v
      <3>2. AcceptedIn(fifo'[status]) = n
        BY <2>8, <2>10, <3>1 DEF v
      <3>3. at'[stack].accepted = Append(acc, n)
        BY <2>5, <2>10 DEF Moves
      <3> HIDE DEF n, acc, sent
      <3>4. Packing(Append(acc, n), sent, 0, n)
        BY <1>q, <2>3, <2>9, Accept DEF n
      <3> QED BY <2>4, <2>6, <2>7, <3>2, <3>3, <3>4 DEF CutInv
    <2>11. CASE \/ Writes(status, Reply(1)) /\ UNCHANGED at
                \/ Writes(status, Reply(2)) /\ Moves(stack, y)
      <3>1. at'[stack].accepted = acc
        BY <2>5, <2>11 DEF Moves
      <3>2. PICK e \in {1, 2} : Writes(status, Reply(e))
        BY <2>11
      <3> DEFINE v == Reply(e)
      <3>3. v.error # 0
        BY <3>2
      <3> HIDE DEF v
      <3>4. AcceptedIn(fifo'[status]) = 0
        BY <2>8, <3>2, <3>3 DEF v
      <3> QED BY <2>4, <2>6, <2>7, <2>9, <3>1, <3>4 DEF CutInv
    <2> QED BY <2>1, <2>10, <2>11
  <1> QED BY <1>1, <1>2, <1>3, <1>4 DEF sendDataProtected

\* The packing is inductive.
LEMMA CutStep == TypeInv /\ PacketInFlight /\ CutInv /\ [Next]_vars => CutInv'
  <1> SUFFICES ASSUME TypeInv, PacketInFlight, CutInv, [Next]_vars PROVE CutInv'
    OBVIOUS
  <1>0. TypeOK
    BY DEF TypeInv
  <1>1. CASE Connections
    BY <1>0, <1>1, CutSame, ConnectionFrame
  <1>2. CASE recvData_handshake \/ recvData_consumeData \/ stack_zero \/ stack_read
               \/ stack_word \/ host_send
    BY <1>0, <1>2, CutSame, ReceiveFrame
  <1>3. CASE search_word \/ search_result \/ network_output_processing
    BY <1>0, <1>3, CutSame, AnswerFrame
  <1>4. CASE sendDataProtected \/ stack_status
    BY <1>4, CutMove
  <1>5. CASE UNCHANGED vars
    BY <1>5, CutSame DEF vars, flowVars, SendSame
  <1> QED BY <1>1, <1>2, <1>3, <1>4, <1>5, Zenon DEF Next, Kernel, Stack, Connections

\* The words sent were accepted, and are cut where the packets accepted end.
LEMMA CutOff ==
  ASSUME TypeInv, CutInv
  PROVE  LET sent == fifo[m_axis_tcp_tx_data]
             accepted == at[stack].accepted
             Ends == {SumTo(accepted, k) : k \in DOMAIN accepted}
         IN  /\ Len(sent) * WORD <= Sum(accepted)
             /\ \A k \in DOMAIN sent : sent[k].last <=> k * WORD \in Ends
  <1> DEFINE sent == fifo[m_axis_tcp_tx_data]
             acc == at[stack].accepted
             q == fifo[s_axis_tcp_tx_status]
             t == at[send].todo
             p == AcceptedIn(q)
             s == Len(sent)
             Ends == {SumTo(acc, k) : k \in DOMAIN acc}
  <1>1. Packing(acc, sent, t, p)
    BY DEF CutInv
  <1>2. TypeOK /\ Shape /\ SendState
    BY TypedShape DEF TypeInv
  <1>3. t \in Nat /\ WORD \in Nat \ {0} /\ p \in Nat /\ s \in Nat /\ DOMAIN sent = 1 .. s
    <2>1. at[send] \in [phase : {"first", "status", "data", "next", "done"},
                        sentByteCnt : Nat, length : Nat, todo : Nat]
      BY <1>2, TypedLocals
    <2>2. IsSequence(sent)
      BY <1>2, AllStreams DEF Shape, FlowShape
    <2>3. p \in Nat
      <3> DEFINE R == [sessionID : SessionID, length : Lengths, error : 0 .. 2]
      <3>1. q \in Seq(R)
        BY <1>2 DEF SendState
      <3>2. q # <<>> => Head(q) \in R
        <4> HIDE DEF R, q
        <4> QED BY <3>1
      <3>3. q # <<>> => Head(q).length \in Nat
        BY <1>2, <3>2, WholeWords
      <3> QED BY <3>3 DEF AcceptedIn
    <2> QED BY <2>1, <2>2, <2>3, Sequences, Sizes
  <1>4. s * WORD <= Sum(acc)
    <2>1. Sum(acc) = (s + t) * WORD + p
      BY <1>1 DEF Packing
    <2> HIDE DEF s, t, p
    <2> DEFINE x == s * WORD
               y == t * WORD
    <2>2. (s + t) * WORD = x + y /\ x \in Nat /\ y \in Nat
      BY <1>3
    <2> HIDE DEF x, y
    <2>3. x <= x + y + p
      BY <1>3, <2>2
    <2> QED BY <2>1, <2>2, <2>3 DEF x
  <1>5. ASSUME NEW k \in DOMAIN sent PROVE sent[k].last <=> k * WORD \in Ends
    <2>1. acc \in Seq(Nat \ {0}) /\ DOMAIN acc = 1 .. Len(acc)
      BY <1>1 DEF Packing
    <2>2. sent[k].last <=> IsEnd(acc, k * WORD)
      BY <1>1, <1>3, <1>5 DEF Packing
    <2> QED BY <2>1, <2>2 DEF IsEnd
  <1> QED BY <1>4, <1>5

\* The words sent are those of the answers in order, whatever the stack refuses,
\* and they are cut where the packets end that it accepted.
THEOREM AnswersOrdered == Spec => []AnswersInOrder
  <1>1. Init => OutInv /\ CutInv
    BY OutInit, CutInit
  <1>2. GlueInv => PacketInFlight
    BY DEF GlueInv
  <1>3. TypeInv /\ PacketInFlight /\ (OutInv /\ CutInv) /\ [Next]_vars => (OutInv /\ CutInv)'
    BY OutStep, CutStep
  <1>4. TypeInv /\ (OutInv /\ CutInv) => AnswersInOrder
    <2> SUFFICES ASSUME TypeInv, OutInv, CutInv PROVE AnswersInOrder
      OBVIOUS
    <2> QED BY OutPrefix, CutOff DEF AnswersInOrder
  <1> QED BY <1>1, <1>2, <1>3, <1>4, TypeInvariant, GlueInvariant, PTL DEF Spec

-----------------------------------------------------------------------------
(* A stack that couples its two sides.                                     *)

\* A stack that notifies, accepts and refuses only when its receive engine and the
\* space for answers let it takes no step that NetworkGlue's stack cannot take: what
\* is proved of the kernels holds on it as well.
THEOREM Coupling == CoupledSpec => Spec
  <1>1. CoupledInit => Init
    BY DEF CoupledInit
  <1>2. [CoupledNext]_coupledVars => [Next]_vars
    <2>1. CASE rx_segment
      BY <2>1 DEF rx_segment
    <2>2. CASE rx_notify
      BY <2>2 DEF rx_notify, Next
    <2>3. CASE rx_ack
      BY <2>3 DEF rx_ack
    <2>4. CASE stack_transmit
      BY <2>4 DEF stack_transmit, Next, Stack
    <2>5. CASE Kernel
      BY <2>5 DEF Next
    <2>6. CASE stack_listen \/ stack_open \/ stack_zero \/ stack_read \/ stack_word
      BY <2>6 DEF Next, Stack
    <2>7. CASE UNCHANGED coupledVars
      BY <2>7 DEF coupledVars
    <2> QED BY <2>1, <2>2, <2>3, <2>4, <2>5, <2>6, <2>7 DEF CoupledNext, Receive
  <1> QED BY <1>1, <1>2, PTL DEF CoupledSpec, Spec
==============================================================================
