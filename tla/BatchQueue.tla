------------------------------ MODULE BatchQueue ------------------------------
(***************************************************************************)
(* What the C2F thread relies on: a FIFO queue that hands over the         *)
(* batches 0, 1, 2, ... in order, and never holds more than Capacity.      *)
(***************************************************************************)
EXTENDS Naturals, Sequences

CONSTANTS Capacity, NoBatch

VARIABLES queue,   \* batches announced and not yet handed over
          put,     \* batches put so far
          taken    \* the batch handed over last

Init == queue = <<>> /\ put = 0 /\ taken = NoBatch

Put ==
  /\ Len(queue) < Capacity
  /\ queue' = Append(queue, put)
  /\ put' = put + 1
  /\ UNCHANGED taken

Get ==
  /\ queue # <<>>
  /\ taken' = Head(queue)
  /\ queue' = Tail(queue)
  /\ UNCHANGED put

Next == Put \/ Get

Spec == Init /\ [][Next]_<<queue, put, taken>>
=============================================================================
