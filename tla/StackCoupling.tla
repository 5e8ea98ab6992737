----------------------------- MODULE StackCoupling -----------------------------
(***************************************************************************)
(* The kernels of NetworkGlue on a TCP stack whose receive and transmit    *)
(* sides depend on each other (fpga-network-stack/hls/toe).  One receive   *)
(* engine (rxTcpFSM) serves all connections.  It notifies the kernel of    *)
(* every data segment it keeps, and while that stream is full it does      *)
(* nothing else; in particular it processes no acknowledgement.  But       *)
(* acknowledgements are what frees the space that answers are sent from.   *)
(*                                                                         *)
(* So a kernel that is slow to take notifications can stop its own output. *)
(***************************************************************************)
EXTENDS NetworkGlue

CONSTANTS RX_SPACE,  \* a segment is kept when fewer units wait to be read
          TX_SPACE   \* units accepted for sending and not yet acknowledged

ASSUME CouplingAssumption == {RX_SPACE, TX_SPACE} \subseteq Nat \ {0}

VARIABLES engine,        \* what the receive engine is at: "idle", or "notify", with
                         \* a segment it keeps
          acknowledged   \* packets whose acknowledgement it has processed

couplingVars == <<engine, acknowledged>>

CoupledInit == Init /\ engine = "idle" /\ acknowledged = 0

-----------------------------------------------------------------------------
(* The receive engine *)

Buffered == Len(at[stack].buffer) + Len(FlattenSeq(at[stack].packet))

\* The host may send another segment, as host_send has it.
SegmentDue ==
  /\ at[listen].asked /\ fifo[m_axis_tcp_listen_port] = <<>>
  /\ at[host].query <= request.queries
  /\ at[host].query <= Answered + request.window

\* The next segment is kept.  One there is no room for is dropped, and the host
\* sends it again: that changes nothing.
rx_segment ==
  /\ engine = "idle" /\ SegmentDue /\ Buffered < RX_SPACE
  /\ engine' = "notify"
  /\ UNCHANGED <<vars, acknowledged>>

\* The kernel is notified, as soon as the stream has room.
rx_notify ==
  /\ engine = "notify" /\ host_send
  /\ engine' = "idle"
  /\ UNCHANGED acknowledged

\* The host has all data of a packet, and its acknowledgement is processed.
rx_ack ==
  LET accepted == at[stack].accepted
  IN  /\ engine = "idle"
      /\ acknowledged < Len(accepted)
      /\ SumTo(accepted, acknowledged + 1) <= Len(fifo[m_axis_tcp_tx_data]) * WORD
      /\ acknowledged' = acknowledged + 1
      /\ UNCHANGED <<vars, engine>>

-----------------------------------------------------------------------------
(* The transmit side *)

Unacknowledged == Sum(at[stack].accepted) - SumTo(at[stack].accepted, acknowledged)
Fits(length) == Unacknowledged + length <= TX_SPACE

\* A packet is accepted when it fits and refused when it does not.  The kernel
\* announces a refused packet again at once: beyond the refusals of the input
\* this is a wait for an acknowledgement.
stack_transmit ==
  LET fits == Fits(Head(fifo[m_axis_tcp_tx_meta]).length)
  IN  /\ stack_status
      /\ at'[stack].accepted # at[stack].accepted => fits
      /\ at'[stack].retries # at[stack].retries => ~ fits
      /\ UNCHANGED couplingVars

-----------------------------------------------------------------------------
Receive == rx_segment \/ rx_notify \/ rx_ack

CoupledNext ==
  \/ Kernel /\ UNCHANGED couplingVars
  \/ /\ stack_listen \/ stack_open \/ stack_zero \/ stack_read \/ stack_word
     /\ UNCHANGED couplingVars
  \/ stack_transmit
  \/ Receive

coupledVars == <<vars, couplingVars>>

CoupledSpec == CoupledInit /\ [][CoupledNext]_coupledVars

\* The kernels and the stack are circuits, TCP delivers what the host sends, and
\* the host sends what it may: as long as one of them can move, one moves.
FairSpec == CoupledSpec /\ WF_coupledVars(CoupledNext)

-----------------------------------------------------------------------------
(* Properties *)

\* The queries the host may be ahead, but for the one the search is at, fit the
\* stream to the search.
InputFits ==
  "s_kernel_network_in" \in DOMAIN depth =>
    request.window - 1 <= depth["s_kernel_network_in"] \div QUERY_WORDS

\* A packet never waits for words of a query that the host sends only after it,
\* never exceeds the space of the stack, and no notification of length 0 uses up
\* the token of recvDataSafe.
Answerable ==
  /\ Aligned /\ request.open
  /\ ANSWER_WORDS % request.pkgWordCount = 0
  /\ expectedTxByteCnt >= request.queries * ANSWER_WORDS * WORD
  /\ pkgLength <= TX_SPACE
  /\ request.safe => request.zeros = 0

AllAnswered == Answered = request.queries

\* Every query is answered, although the engine that receives queries is the one
\* that frees the space for answers, if what the host sends ahead fits.
AnswersArrive == <>(Answerable /\ InputFits => AllAnswered)

-----------------------------------------------------------------------------
(* A claim of a comment that the code does not meet *)

\* "Wenqi-customized recv function, resolve deadlock in the case that input data
\* rate >> FPGA query processing rate", above the call of recvData: every query is
\* answered, however far ahead of the answers the host sends.
DeadlockResolved == <>(Answerable => AllAnswered)
=============================================================================
