------------------------------ MODULE NetworkGlue ------------------------------
(***************************************************************************)
(* How the accelerator meets the TCP stack of the FPGA (communication.hpp, *)
(* network_output_processing).  Receiving: each notification of the stack  *)
(* is answered by a request to read that many bytes, and the words that    *)
(* come are passed on.  Sending: the kernel announces a packet, waits for  *)
(* the stack to accept it, and then owes it the data.                      *)
(*                                                                         *)
(* Lengths are in units, WORD of them to a 512-bit word.  The stack and    *)
(* the host that asks the queries are external: they are modelled as far   *)
(* as the kernel sees them.  The search itself (Scan, HierarchicalQueue)   *)
(* is one process that turns the words of a query into TOPK results.       *)
(***************************************************************************)
EXTENDS Dataflow

CONSTANTS WORD,            \* units of length in a word
          QUERY_WORDS,     \* words of a batch with one query
          TOPK,
          IDS_PER_WORD, DISTS_PER_WORD,
          Undefined,       \* an entry of sessionID that was never written
          Requests         \* inputs: see Input below

(* An input is a record:                                                   *)
(*   safe      recvDataSafe instead of recvData                            *)
(*   segments  the lengths in which the words of a query arrive            *)
(*   zeros     notifications of length 0 that may come (a close, a probe)  *)
(*   window    queries the host sends ahead of their answers               *)
(*   queries   queries in all                                              *)
(*   pkgWordCount, expectedTxPkgCnt   the arguments of the kernel          *)
(*   open      whether the outgoing connection can be opened               *)
(*   retries   packets the stack may refuse for lack of space              *)

VARIABLES at, request

vars == <<flowVars, at, request>>

Ceil(n, d) == (n + d - 1) \div d
Chunks(s, n) ==   \* the sequence s in pieces of n, the last one shorter
  [k \in 1 .. Ceil(Len(s), n) |->
     SubSeq(s, (k - 1) * n + 1, IF k * n <= Len(s) THEN k * n ELSE Len(s))]
SumTo(s, n) ==    \* of the first n elements
  LET sum[k \in 0 .. n] == IF k = 0 THEN 0 ELSE sum[k - 1] + s[k]
  IN  sum[n]
Sum(s) == SumTo(s, Len(s))

\* The host sends whole queries, the kernel sends packets of whole words.
IsInput(r) ==
  /\ {r.safe, r.open} \subseteq BOOLEAN
  /\ {r.zeros, r.window, r.queries, r.retries, r.expectedTxPkgCnt} \subseteq Nat
  /\ r.pkgWordCount \in Nat \ {0}
  /\ r.segments \in Seq(Nat \ {0}) /\ Sum(r.segments) = QUERY_WORDS * WORD

ASSUME GlueAssumption ==
  /\ {WORD, QUERY_WORDS, TOPK, IDS_PER_WORD, DISTS_PER_WORD} \subseteq Nat \ {0}
  /\ \A r \in Requests : IsInput(r)

-----------------------------------------------------------------------------
(* Processes and streams *)

listen == <<"listen", 0>>
open == <<"open", 0>>
handshake == <<"handshake", 0>>
consume == <<"consume", 0>>
search == <<"search", 0>>
output == <<"output", 0>>
send == <<"send", 0>>
stack == <<"stack", 0>>      \* the TCP stack
host == <<"host", 0>>

Process == {listen, open, handshake, consume, search, output, send, stack, host}

m_axis_tcp_listen_port == <<"listen_port", 0>>
s_axis_tcp_port_status == <<"port_status", 0>>
m_axis_tcp_open_connection == <<"open_connection", 0>>
s_axis_tcp_open_status == <<"open_status", 0>>
s_axis_tcp_notification == <<"notification", 0>>
m_axis_tcp_read_pkg == <<"read_pkg", 0>>
s_axis_tcp_rx_meta == <<"rx_meta", 0>>
s_axis_tcp_rx_data == <<"rx_data", 0>>
nextRxPacketLength == <<"nextRxPacketLength", 0>>
s_consumeDataReady == <<"s_consumeDataReady", 0>>
s_kernel_network_in == <<"s_kernel_network_in", 0>>
s_output == <<"s_output", 0>>
s_kernel_network_out == <<"s_kernel_network_out", 0>>
m_axis_tcp_tx_meta == <<"tx_meta", 0>>
m_axis_tcp_tx_data == <<"tx_data", 0>>
s_axis_tcp_tx_status == <<"tx_status", 0>>

Stream ==
  {m_axis_tcp_listen_port, s_axis_tcp_port_status, m_axis_tcp_open_connection,
   s_axis_tcp_open_status, s_axis_tcp_notification, m_axis_tcp_read_pkg,
   s_axis_tcp_rx_meta, s_axis_tcp_rx_data, nextRxPacketLength, s_consumeDataReady,
   s_kernel_network_in, s_batch_header(output), s_output, s_kernel_network_out,
   m_axis_tcp_tx_meta, m_axis_tcp_tx_data, s_axis_tcp_tx_status}

-----------------------------------------------------------------------------
(* Words *)

\* The units of query q; a word is a sequence of them.
QueryUnits(q) == [u \in 1 .. QUERY_WORDS * WORD |-> <<q, u>>]
QueryWord(q, w) == SubSeq(QueryUnits(q), (w - 1) * WORD + 1, w * WORD)

ID_WORDS == Ceil(TOPK, IDS_PER_WORD)
DIST_WORDS == Ceil(TOPK, DISTS_PER_WORD)
ANSWER_WORDS == 1 + ID_WORDS + DIST_WORDS

Result(q, k) == <<q, k>>
NoResult == Result(0, 0)

\* What word w of an answer holds, given the results kept in the buffers: the
\* header, the vector numbers, the distances, padded to whole words.
AnswerWord(results, w) ==
  LET Part(n, j) == [k \in 1 .. n |->
                       LET r == (j - 1) * n + k
                       IN  IF r <= TOPK THEN results[r] ELSE NoResult]
  IN  CASE w = 1 -> [kind |-> "topK", content |-> <<>>]
        [] w > 1 /\ w <= 1 + ID_WORDS ->
             [kind |-> "vec_ID", content |-> Part(IDS_PER_WORD, w - 1)]
        [] OTHER -> [kind |-> "dist", content |-> Part(DISTS_PER_WORD, w - 1 - ID_WORDS)]

Answer(q) == [w \in 1 .. ANSWER_WORDS |-> AnswerWord([k \in 1 .. TOPK |-> Result(q, k)], w)]

-----------------------------------------------------------------------------
expectedRxByteCnt == request.queries * QUERY_WORDS * WORD
pkgLength == request.pkgWordCount * WORD
expectedTxByteCnt == request.expectedTxPkgCnt * pkgLength

Local(p) ==
  CASE p \in {listen, open} -> [asked |-> FALSE, answered |-> FALSE, sessionID |-> Undefined]
    [] p = handshake -> [rxByteCnt |-> 0]
    [] p = consume -> [started |-> FALSE, rxByteCnt |-> 0, length |-> 0]
    [] p = search -> [words |-> <<>>, query |-> 0, left |-> 0]
    [] p = output -> [phase |-> "idle", results |-> <<>>, word |-> 1]
    [] p = send -> [phase |-> "first", sentByteCnt |-> 0, length |-> 0, todo |-> 0]
    [] p = stack -> [buffer |-> <<>>, packet |-> <<>>, accepted |-> <<>>,
                     zeros |-> 0, retries |-> 0]
    [] p = host -> [query |-> 1, segment |-> 1]

Init ==
  /\ request \in Requests
  /\ FlowInit([c \in Stream |-> <<>>], Process)
  /\ at = [p \in Process |-> Local(p)]

SetAt(p, local) == at' = [at EXCEPT ![p] = local]

-----------------------------------------------------------------------------
(* Connections: listenPorts, openConnections with useConn = 1 *)

listen_port_handler ==
  /\ ~ at[listen].asked
  /\ Transfer({}, To(m_axis_tcp_listen_port, "basePort"))
  /\ at' = [at EXCEPT ![listen].asked = TRUE]
  /\ Continues /\ UNCHANGED request

port_status_handler ==
  /\ at[listen].asked /\ ~ at[listen].answered
  /\ Transfer({s_axis_tcp_port_status}, Nothing)
  /\ at' = [at EXCEPT ![listen].answered = TRUE]
  /\ Continues /\ UNCHANGED request

openConnections ==
  \/ /\ ~ at[open].asked
     /\ Transfer({}, To(m_axis_tcp_open_connection, "baseIpAddress"))
     /\ at' = [at EXCEPT ![open].asked = TRUE]
     /\ Continues /\ UNCHANGED request
  \/ /\ at[open].asked /\ ~ at[open].answered
     /\ Transfer({s_axis_tcp_open_status}, Nothing)
     /\ LET status == Head(fifo[s_axis_tcp_open_status])
        IN  at' = [at EXCEPT ![open].answered = TRUE,
                             ![open].sessionID = IF status.success THEN status.sessionID ELSE @]
     /\ Continues /\ UNCHANGED request

-----------------------------------------------------------------------------
(* recvData and recvDataSafe *)

recvData_handshake ==
  LET length == Head(fifo[s_axis_tcp_notification])
      ready == IF request.safe THEN {s_consumeDataReady} ELSE {}
  IN  /\ at[handshake].rxByteCnt < expectedRxByteCnt
      /\ fifo[s_axis_tcp_notification] # <<>>
      /\ Transfer({s_axis_tcp_notification} \cup ready,
           IF length = 0 THEN Nothing
           ELSE To(m_axis_tcp_read_pkg, length) ++ To(nextRxPacketLength, length))
      /\ at' = [at EXCEPT ![handshake].rxByteCnt = @ + length]
      /\ Continues /\ UNCHANGED request

\* recvDataSafe: the first notification may be answered.
consume_start ==
  /\ request.safe /\ ~ at[consume].started
  /\ Transfer({}, To(s_consumeDataReady, 1))
  /\ at' = [at EXCEPT ![consume].started = TRUE]
  /\ Continues /\ UNCHANGED request

consume_meta ==
  LET l == at[consume]
  IN  /\ request.safe => l.started
      /\ l.length = 0 /\ l.rxByteCnt < expectedRxByteCnt
      /\ fifo[s_axis_tcp_rx_meta] # <<>> /\ fifo[nextRxPacketLength] # <<>>
      /\ Transfer({s_axis_tcp_rx_meta, nextRxPacketLength}, Nothing)
      /\ SetAt(consume, [l EXCEPT !.length = Head(fifo[nextRxPacketLength])])
      /\ Continues /\ UNCHANGED request

\* Mutant: readiness is announced with every word.
Bug_consume_word ==
  LET l == at[consume]
      word == Head(fifo[s_axis_tcp_rx_data])
      received == l.rxByteCnt + l.length
  IN  /\ l.length > 0
      /\ fifo[s_axis_tcp_rx_data] # <<>>
      /\ Transfer({s_axis_tcp_rx_data},
           To(s_kernel_network_in, word.data)
             ++ (IF request.safe THEN To(s_consumeDataReady, 1) ELSE Nothing))
      /\ SetAt(consume, IF word.last THEN [l EXCEPT !.rxByteCnt = received, !.length = 0] ELSE l)
      /\ Continues /\ UNCHANGED request

\* Mutant: the last word of a packet is not passed on.
Bug_consume_drops_last ==
  LET l == at[consume]
      word == Head(fifo[s_axis_tcp_rx_data])
      received == l.rxByteCnt + l.length
      announce == request.safe /\ word.last /\ received < expectedRxByteCnt
  IN  /\ l.length > 0
      /\ fifo[s_axis_tcp_rx_data] # <<>>
      /\ Transfer({s_axis_tcp_rx_data},
           (IF word.last THEN Nothing ELSE To(s_kernel_network_in, word.data))
             ++ (IF announce THEN To(s_consumeDataReady, 1) ELSE Nothing))
      /\ SetAt(consume, IF word.last THEN [l EXCEPT !.rxByteCnt = received, !.length = 0] ELSE l)
      /\ Continues /\ UNCHANGED request

\* Words are passed on whole up to the last one of the packet.
consume_word ==
  LET l == at[consume]
      word == Head(fifo[s_axis_tcp_rx_data])
      received == l.rxByteCnt + l.length
      announce == request.safe /\ word.last /\ received < expectedRxByteCnt
  IN  /\ l.length > 0
      /\ fifo[s_axis_tcp_rx_data] # <<>>
      /\ Transfer({s_axis_tcp_rx_data},
           To(s_kernel_network_in, word.data)
             ++ (IF announce THEN To(s_consumeDataReady, 1) ELSE Nothing))
      /\ SetAt(consume, IF word.last THEN [l EXCEPT !.rxByteCnt = received, !.length = 0] ELSE l)
      /\ Continues /\ UNCHANGED request

recvData_consumeData == consume_start \/ consume_meta \/ consume_word

-----------------------------------------------------------------------------
(* The search, and the words of its answers *)

search_word ==
  LET l == at[search]
      words == Append(l.words, Head(fifo[s_kernel_network_in]))
      full == Len(words) = QUERY_WORDS
  IN  /\ l.left = 0
      /\ fifo[s_kernel_network_in] # <<>>
      /\ Transfer({s_kernel_network_in},
                  IF full THEN To(s_batch_header(output), Header(1, 1)) ELSE Nothing)
      /\ SetAt(search, IF full THEN [words |-> <<>>, query |-> l.query + 1, left |-> TOPK]
                       ELSE [l EXCEPT !.words = words])
      /\ Continues /\ UNCHANGED request

search_result ==
  LET l == at[search]
  IN  /\ l.left > 0
      /\ Transfer({}, To(s_output, Result(l.query, TOPK + 1 - l.left)))
      /\ SetAt(search, [l EXCEPT !.left = @ - 1])
      /\ Continues /\ UNCHANGED request

output_result ==
  LET l == at[output]
      results == Append(l.results, Head(fifo[s_output]))
  IN  /\ left[output] > 0 /\ l.phase = "results"
      /\ fifo[s_output] # <<>>
      /\ Transfer({s_output}, Nothing)
      /\ SetAt(output, [l EXCEPT !.results = results,
           !.phase = IF Len(results) = TOPK THEN "words" ELSE "results"])
      /\ Continues /\ UNCHANGED request

\* Mutant: the loop over the words of an answer goes one word too far.
Bug_output_word ==
  LET l == at[output]
      last == l.word = ANSWER_WORDS + 1
  IN  /\ left[output] > 0
      /\ l.phase = IF l.word = 1 THEN "idle" ELSE "words"
      /\ Transfer({}, To(s_kernel_network_out, AnswerWord(l.results, l.word)))
      /\ SetAt(output, IF last THEN Local(output)
                       ELSE [l EXCEPT !.word = @ + 1,
                                      !.phase = IF l.word = 1 THEN "results" ELSE "words"])
      /\ Finish(output, last)
      /\ UNCHANGED request

\* The header word comes first, before the results are read.
output_word ==
  LET l == at[output]
      last == l.word = ANSWER_WORDS
  IN  /\ left[output] > 0
      /\ l.phase = IF l.word = 1 THEN "idle" ELSE "words"
      /\ Transfer({}, To(s_kernel_network_out, AnswerWord(l.results, l.word)))
      /\ SetAt(output, IF last THEN Local(output)
                       ELSE [l EXCEPT !.word = @ + 1,
                                      !.phase = IF l.word = 1 THEN "results" ELSE "words"])
      /\ Finish(output, last)
      /\ UNCHANGED request

network_output_processing ==
  \/ read_header(output) /\ UNCHANGED <<at, request>>
  \/ output_result \/ output_word

-----------------------------------------------------------------------------
(* sendDataProtected with useConn = 1 *)

Announce(length) == [sessionID |-> at[open].sessionID, length |-> length]

send_first ==
  LET l == at[send]
  IN  /\ at[open].answered /\ l.phase = "first"
      /\ fifo[s_kernel_network_out] # <<>>
      /\ Transfer({}, To(m_axis_tcp_tx_meta, Announce(pkgLength)))
      /\ SetAt(send, [l EXCEPT !.phase = "status"])
      /\ Continues /\ UNCHANGED request

\* Mutant: a refused packet is not announced again.
Bug_send_status ==
  LET l == at[send]
      resp == Head(fifo[s_axis_tcp_tx_status])
  IN  /\ l.phase = "status" /\ fifo[s_axis_tcp_tx_status] # <<>>
      /\ Transfer({s_axis_tcp_tx_status}, Nothing)
      /\ SetAt(send, IF resp.error = 0
           THEN [l EXCEPT !.phase = "data", !.length = resp.length, !.todo = resp.length \div WORD]
           ELSE l)
      /\ Continues /\ UNCHANGED request

\* Accepted: the data is owed.  No space: the same packet is announced again.
\* A connection torn down: nothing is done, and the loop polls on.
send_status ==
  LET l == at[send]
      resp == Head(fifo[s_axis_tcp_tx_status])
  IN  /\ l.phase = "status" /\ fifo[s_axis_tcp_tx_status] # <<>>
      /\ Transfer({s_axis_tcp_tx_status},
           IF resp.error \in {0, 1} THEN Nothing
           ELSE To(m_axis_tcp_tx_meta, [sessionID |-> resp.sessionID, length |-> resp.length]))
      /\ SetAt(send, IF resp.error = 0
           THEN [l EXCEPT !.phase = "data", !.length = resp.length, !.todo = resp.length \div WORD]
           ELSE l)
      /\ Continues /\ UNCHANGED request

\* Mutant: the end of the packet is marked one word early.
Bug_is_last(todo) == todo = 2
is_last(todo) == todo = 1

send_word ==
  LET l == at[send]
      sent == l.sentByteCnt + l.length
      full == l.todo = 1
      more == sent < expectedTxByteCnt
  IN  /\ l.phase = "data"
      /\ fifo[s_kernel_network_out] # <<>>
      /\ Transfer({s_kernel_network_out},
           To(m_axis_tcp_tx_data, [data |-> Head(fifo[s_kernel_network_out]),
                                  last |-> is_last(l.todo)]))
      /\ at' = [at EXCEPT ![send] =
           IF full THEN [l EXCEPT !.phase = IF more THEN "next" ELSE "done",
                                  !.sentByteCnt = sent, !.todo = 0]
           ELSE [l EXCEPT !.todo = @ - 1]]
      /\ ended' = IF full /\ ~ more THEN ended \cup {send} ELSE ended
      /\ UNCHANGED <<left, nprobe, request>>

NextLength(sent) == IF sent + pkgLength < expectedTxByteCnt THEN pkgLength
                    ELSE expectedTxByteCnt - sent

\* Mutant: the next packet is announced before there is data for it.
Bug_send_next ==
  LET l == at[send]
  IN  /\ l.phase = "next"
      /\ Transfer({}, To(m_axis_tcp_tx_meta, Announce(NextLength(l.sentByteCnt))))
      /\ SetAt(send, [l EXCEPT !.phase = "status"])
      /\ Continues /\ UNCHANGED request

send_next ==
  LET l == at[send]
  IN  /\ l.phase = "next"
      /\ fifo[s_kernel_network_out] # <<>>
      /\ Transfer({}, To(m_axis_tcp_tx_meta, Announce(NextLength(l.sentByteCnt))))
      /\ SetAt(send, [l EXCEPT !.phase = "status"])
      /\ Continues /\ UNCHANGED request

sendDataProtected == send_first \/ send_status \/ send_word \/ send_next

-----------------------------------------------------------------------------
(* The TCP stack and the host *)

stack_listen ==
  /\ Transfer({m_axis_tcp_listen_port}, To(s_axis_tcp_port_status, TRUE))
  /\ Continues /\ UNCHANGED <<at, request>>

stack_open ==
  /\ Transfer({m_axis_tcp_open_connection},
       To(s_axis_tcp_open_status, [success |-> request.open, sessionID |-> "session"]))
  /\ Continues /\ UNCHANGED <<at, request>>

stack_zero ==
  /\ at[stack].zeros < request.zeros
  /\ Transfer({}, To(s_axis_tcp_notification, 0))
  /\ at' = [at EXCEPT ![stack].zeros = @ + 1]
  /\ Continues /\ UNCHANGED request

\* The bytes asked for, in words; the last one may be partly filled.
stack_read ==
  LET l == at[stack]
      n == Head(fifo[m_axis_tcp_read_pkg])
  IN  /\ l.packet = <<>>
      /\ fifo[m_axis_tcp_read_pkg] # <<>>
      /\ Transfer({m_axis_tcp_read_pkg}, To(s_axis_tcp_rx_meta, 0))
      /\ SetAt(stack, [l EXCEPT !.packet = Chunks(SubSeq(l.buffer, 1, n), WORD),
                                !.buffer = SubSeq(@, n + 1, Len(@))])
      /\ Continues /\ UNCHANGED request

stack_word ==
  LET l == at[stack]
  IN  /\ l.packet # <<>>
      /\ Transfer({}, To(s_axis_tcp_rx_data, [data |-> Head(l.packet), last |-> Len(l.packet) = 1]))
      /\ SetAt(stack, [l EXCEPT !.packet = Tail(@)])
      /\ Continues /\ UNCHANGED request

\* A packet is accepted, refused for lack of space, or has no connection.
stack_status ==
  LET l == at[stack]
      m == Head(fifo[m_axis_tcp_tx_meta])
      Reply(error) ==
        Transfer({m_axis_tcp_tx_meta}, To(s_axis_tcp_tx_status,
          [sessionID |-> m.sessionID, length |-> m.length, error |-> error]))
  IN  /\ fifo[m_axis_tcp_tx_meta] # <<>>
      /\ \/ /\ m.sessionID = Undefined
            /\ Reply(1) /\ UNCHANGED at
         \/ /\ m.sessionID # Undefined
            /\ Reply(0) /\ SetAt(stack, [l EXCEPT !.accepted = Append(@, m.length)])
         \/ /\ m.sessionID # Undefined /\ l.retries < request.retries
            /\ Reply(2) /\ SetAt(stack, [l EXCEPT !.retries = @ + 1])
      /\ Continues /\ UNCHANGED request

Answered == Len(fifo[m_axis_tcp_tx_data]) \div ANSWER_WORDS

\* The host sends the next segment of a query, at most window queries ahead.
host_send ==
  LET l == at[host]
      before == SumTo(request.segments, l.segment - 1)
      n == request.segments[l.segment]
      last == l.segment = Len(request.segments)
  IN  /\ at[listen].asked /\ fifo[m_axis_tcp_listen_port] = <<>>
      /\ l.query <= request.queries
      /\ l.query <= Answered + request.window
      /\ Transfer({}, To(s_axis_tcp_notification, n))
      /\ at' = [at EXCEPT
           ![stack].buffer = @ \o SubSeq(QueryUnits(l.query), before + 1, before + n),
           ![host] = IF last THEN [query |-> l.query + 1, segment |-> 1]
                     ELSE [l EXCEPT !.segment = @ + 1]]
      /\ Continues /\ UNCHANGED request

-----------------------------------------------------------------------------
Kernel ==
  \/ listen_port_handler \/ port_status_handler \/ openConnections
  \/ recvData_handshake \/ recvData_consumeData
  \/ search_word \/ search_result \/ network_output_processing
  \/ sendDataProtected

Stack ==
  stack_listen \/ stack_open \/ stack_zero \/ stack_read \/ stack_word \/ stack_status

Next == Kernel \/ Stack \/ host_send

Spec == Init /\ [][Next]_vars

-----------------------------------------------------------------------------
(* Properties *)

Unit == Nat \X Nat
Word == Seq(Unit)
OutWord == [kind : {"topK", "vec_ID", "dist"}, content : Seq(Nat \X Nat)]
SessionID == {Undefined, "session"}

\* What a stream carries, and what a process keeps.
Values(c) ==
  CASE c = s_axis_tcp_notification -> Nat
    [] c \in {m_axis_tcp_read_pkg, nextRxPacketLength} -> Nat \ {0}
    [] c = s_kernel_network_in -> Word
    [] c = s_axis_tcp_rx_data -> [data : Word, last : BOOLEAN]
    [] c = s_batch_header(output) -> {Header(1, 1)}
    [] c = s_output -> Nat \X Nat
    [] c = s_kernel_network_out -> OutWord
    [] c = m_axis_tcp_tx_meta -> [sessionID : SessionID, length : Nat]
    [] c = s_axis_tcp_tx_status -> [sessionID : SessionID, length : Nat, error : 0 .. 2]
    [] c = m_axis_tcp_tx_data -> [data : OutWord, last : BOOLEAN]
    [] c = s_axis_tcp_open_status -> [success : BOOLEAN, sessionID : SessionID]
    [] c \in {s_axis_tcp_rx_meta, s_consumeDataReady} -> {0, 1}
    [] c = s_axis_tcp_port_status -> BOOLEAN
    [] OTHER -> {"basePort", "baseIpAddress"}

LocalType(p) ==
  CASE p \in {listen, open} ->
         [asked : BOOLEAN, answered : BOOLEAN, sessionID : SessionID]
    [] p = handshake -> [rxByteCnt : Nat]
    [] p = consume -> [started : BOOLEAN, rxByteCnt : Nat, length : Nat]
    [] p = search -> [words : Seq(Word), query : Nat, left : 0 .. TOPK]
    [] p = output -> [phase : {"idle", "results", "words"},
                      results : Seq(Nat \X Nat), word : 1 .. ANSWER_WORDS]
    [] p = send -> [phase : {"first", "status", "data", "next", "done"},
                    sentByteCnt : Nat, length : Nat, todo : Nat]
    [] p = stack -> [buffer : Seq(Unit), packet : Seq(Word), accepted : Seq(Nat),
                     zeros : Nat, retries : Nat]
    [] p = host -> [query : Nat \ {0}, segment : Nat \ {0}]

\* Every stream carries its own values, and every loop over words or results
\* stays within its range.
TypeOK ==
  /\ request \in Requests
  /\ DOMAIN fifo = Stream /\ \A c \in Stream : fifo[c] \in Seq(Values(c))
  /\ DOMAIN at = Process /\ \A p \in Process : at[p] \in LocalType(p)
  /\ left \in [Process -> Nat]

\* The stream of bytes has no word boundaries of its own: the words are those
\* of the host if every segment is a whole number of words.
Aligned == \A k \in DOMAIN request.segments : request.segments[k] % WORD = 0

\* The words of a query reach the search complete, unchanged and in order,
\* whichever segments of whole words they arrive in and whenever these are notified.
WordsInOrder ==
  Aligned =>
    IsPrefix(at[search].words \o fifo[s_kernel_network_in],
             FlattenSeq([q \in 1 .. request.queries - at[search].query |->
                           [w \in 1 .. QUERY_WORDS |-> QueryWord(at[search].query + q, w)]]))

\* The words sent are those of the answers in order, none lost or repeated by
\* a refused packet, and they are cut where the accepted packets end.
AnswersInOrder ==
  LET sent == fifo[m_axis_tcp_tx_data]
      accepted == at[stack].accepted
      Ends == {SumTo(accepted, k) : k \in DOMAIN accepted}
  IN  /\ IsPrefix([k \in DOMAIN sent |-> sent[k].data],
                  FlattenSeq([q \in 1 .. at[search].query |-> Answer(q)]))
      /\ Len(sent) * WORD <= Sum(accepted)
      /\ \A k \in DOMAIN sent : sent[k].last <=> k * WORD \in Ends

\* "only send out tx meta when data is ready, otherwise deadlock may appear":
\* a packet under negotiation has its first word at hand, after a refusal too.
AnnouncedWithData ==
  (fifo[m_axis_tcp_tx_meta] # <<>> \/ fifo[s_axis_tcp_tx_status] # <<>>)
    => fifo[s_kernel_network_out] # <<>>

\* recvDataSafe: the next packet is asked for only when the words of the one
\* before have been passed on.
OnePacketAtATime ==
  request.safe =>
    Len(fifo[nextRxPacketLength]) + (IF at[consume].length > 0 THEN 1 ELSE 0) <= 1
=============================================================================
