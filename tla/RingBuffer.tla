------------------------------ MODULE RingBuffer ------------------------------
(***************************************************************************)
(* The ring buffer between the G2C and the C2F thread, as sequential       *)
(* operators on its fields: what each method of the class does when it     *)
(* runs alone.  Slot contents are opaque values.                           *)
(***************************************************************************)
EXTENDS Naturals

CONSTANTS num_slots_,   \* number of slots
          NoBatch       \* what an unwritten slot or buffer holds

ASSUME RingBufferAssumption == num_slots_ \in Nat \ {0}

Slots == 0 .. num_slots_ - 1

\* head_: the next slot to write; tail_: the next slot to read.
RingInit == [head_ |-> 0, tail_ |-> 0, full_ |-> FALSE,
             buf_ |-> [i \in Slots |-> NoBatch]]

RingType(Batch) == [head_ : Slots, tail_ : Slots, full_ : BOOLEAN,
                    buf_ : [Slots -> Batch \cup {NoBatch}]]

\* Mutant: the index is not wrapped.
Bug_next_slot(i) == i + 1

next_slot(i) == (i + 1) % num_slots_

empty(rb) == ~rb.full_ /\ rb.head_ = rb.tail_

full(rb) == rb.full_

capacity == num_slots_

\* Occupancy as size() computes it.
size(rb) ==
  CASE rb.full_ -> num_slots_
    [] ~rb.full_ /\ rb.head_ >= rb.tail_ -> rb.head_ - rb.tail_
    [] ~rb.full_ /\ rb.head_ < rb.tail_ -> num_slots_ + rb.head_ - rb.tail_

\* A write to a full buffer overwrites the oldest slot and moves tail_ past it.
write_slot(rb, input_buf) ==
  LET tail == IF rb.full_ THEN next_slot(rb.tail_) ELSE rb.tail_
      head == next_slot(rb.head_)
  IN  [head_ |-> head, tail_ |-> tail, full_ |-> head = tail,
       buf_ |-> [rb.buf_ EXCEPT ![rb.head_] = input_buf]]

\* Mutant: the read does not advance tail_.
Bug_read_slot(rb) == [rb EXCEPT !.full_ = FALSE]

\* A read of an empty buffer changes neither the buffer nor output_buf.
read_slot(rb) ==
  IF empty(rb) THEN rb
  ELSE [rb EXCEPT !.full_ = FALSE, !.tail_ = next_slot(rb.tail_)]

read_value(rb, output_buf) ==
  IF empty(rb) THEN output_buf ELSE rb.buf_[rb.tail_]

reset(rb) == [rb EXCEPT !.head_ = rb.tail_, !.full_ = FALSE]
=============================================================================
