------------------------- MODULE RingBufferSequential -------------------------
(***************************************************************************)
(* The ring buffer class used by one thread at a time, against what it     *)
(* promises: a queue of at most num_slots_ batches in which a write to a   *)
(* full buffer drops the oldest batch.                                     *)
(***************************************************************************)
EXTENDS RingBuffer, Sequences

CONSTANT Batches   \* the batches that can be written

VARIABLES rb,      \* the object
          queue,   \* the queue it stands for, oldest first
          out,     \* output_buf of the last read_slot
          expect   \* what the queue says that read should have returned

callVars == <<rb, queue, out, expect>>

CallInit == /\ rb = RingInit /\ queue = <<>>
        /\ out = NoBatch /\ expect = NoBatch

Write(b) ==
  /\ rb' = write_slot(rb, b)
  /\ queue' = Append(IF Len(queue) = num_slots_ THEN Tail(queue) ELSE queue, b)
  /\ UNCHANGED <<out, expect>>

Read ==
  /\ rb' = read_slot(rb)
  /\ out' = read_value(rb, out)
  /\ IF queue = <<>> THEN UNCHANGED <<queue, expect>>
     ELSE queue' = Tail(queue) /\ expect' = Head(queue)

Reset ==
  /\ rb' = reset(rb) /\ queue' = <<>>
  /\ UNCHANGED <<out, expect>>

CallNext == (\E b \in Batches : Write(b)) \/ Read \/ Reset

CallSpec == CallInit /\ [][CallNext]_callVars

\* head_, tail_ and full_ describe the queue: the slots from tail_ on hold its
\* elements in order, and empty(), full(), size() and capacity() agree with
\* its length, also after writes to a full buffer and after reset().
RepresentsQueue ==
  /\ \A i \in 1 .. Len(queue) :
       rb.buf_[(rb.tail_ + i - 1) % num_slots_] = queue[i]
  /\ size(rb) = Len(queue) /\ Len(queue) <= capacity
  /\ empty(rb) <=> queue = <<>>
  /\ full(rb) <=> Len(queue) = capacity

\* Every read returns the oldest batch that was neither read nor overwritten,
\* and leaves output_buf alone when there is none.
ReadsOldest == out = expect
=============================================================================
