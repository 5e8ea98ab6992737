------------------------------- MODULE Network -------------------------------
(***************************************************************************)
(* The sockets between the GPU coordinator, the CPU coordinator and the    *)
(* FPGAs.  The sockets themselves are Linux TCP, outside the repository:   *)
(* they are modelled from how CPU_programs/ calls them.                    *)
(*                                                                         *)
(* A whole header, query, result or batch is one message: the byte loops   *)
(* around send() and read() either move all of it or end with -1.          *)
(*   - send() blocks while SockCap messages are unread;                    *)
(*   - a reset connection drops a suffix of what is in flight; the next    *)
(*     call of the coordinator that needs the peer returns -1 ("reset"),   *)
(*     the one after it raises SIGPIPE (send) or returns 0 (read): "dead"; *)
(*   - connect() to a port nobody listens on fails and leaves the socket   *)
(*     unconnected, which a later send() meets as "dead".                  *)
(***************************************************************************)
EXTENDS Integers, Sequences

CONSTANTS num_FPGA,    \* number of FPGAs the coordinator serves
          SockCap,     \* messages a connection buffers before send() blocks
          MaxResets    \* bound: connection resets in one behaviour

ASSUME NetworkAssumption ==
  /\ num_FPGA \in Nat \ {0}
  /\ SockCap \in Nat \ {0}
  /\ MaxResets \in Nat

FPGA == 0 .. num_FPGA - 1

VARIABLES conn_c2f, conn_f2c, conn_g2c,            \* connection states
          chan_c2f, chan_f2c, chan_g2c, chan_c2g,  \* bytes in flight
          resets                                   \* resets so far

netVars == <<conn_c2f, conn_f2c, conn_g2c,
             chan_c2f, chan_f2c, chan_g2c, chan_c2g, resets>>

ConnState == {"none", "listen", "open", "reset", "dead"}

NetInit ==
  /\ conn_c2f = [n \in FPGA |-> "none"]
  /\ conn_f2c = [n \in FPGA |-> "none"]
  /\ conn_g2c = "none"
  /\ chan_c2f = [n \in FPGA |-> <<>>]
  /\ chan_f2c = [n \in FPGA |-> <<>>]
  /\ chan_g2c = <<>>
  /\ chan_c2g = <<>>
  /\ resets = 0

CanSend(conn, chan) == conn = "open" /\ Len(chan) < SockCap

\* A prefix of ch: what survives of the data in flight when a connection is reset.
Prefix(ch) == {SubSeq(ch, 1, k) : k \in 0 .. Len(ch)}

ResetC2F(n) ==
  /\ conn_c2f[n] = "open"
  /\ conn_c2f' = [conn_c2f EXCEPT ![n] = "reset"]
  /\ \E s \in Prefix(chan_c2f[n]) : chan_c2f' = [chan_c2f EXCEPT ![n] = s]
  /\ UNCHANGED <<conn_f2c, conn_g2c, chan_f2c, chan_g2c, chan_c2g>>

ResetF2C(n) ==
  /\ conn_f2c[n] = "open"
  /\ conn_f2c' = [conn_f2c EXCEPT ![n] = "reset"]
  /\ \E s \in Prefix(chan_f2c[n]) : chan_f2c' = [chan_f2c EXCEPT ![n] = s]
  /\ UNCHANGED <<conn_c2f, conn_g2c, chan_c2f, chan_g2c, chan_c2g>>

ResetG2C ==
  /\ conn_g2c = "open"
  /\ conn_g2c' = "reset"
  /\ \E s \in Prefix(chan_g2c) : chan_g2c' = s
  /\ \E s \in Prefix(chan_c2g) : chan_c2g' = s
  /\ UNCHANGED <<conn_c2f, conn_f2c, chan_c2f, chan_f2c>>

Reset ==
  /\ resets < MaxResets
  /\ resets' = resets + 1
  /\ (\E n \in FPGA : ResetC2F(n) \/ ResetF2C(n)) \/ ResetG2C
=============================================================================
