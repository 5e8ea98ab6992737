--------------------------- MODULE RingBuffer_proofs ---------------------------
(***************************************************************************)
(* The ring buffer.  Its methods, called one at a time in any order,       *)
(* implement a queue of num_slots_ batches that drops its oldest batch     *)
(* when it is full, for every number of slots and every set of batches.    *)
(* Run by the two unlocked threads, for every number of slots, window and  *)
(* number of batches, the indices stay inside the array, and with fewer    *)
(* batches in the window than slots the buffer is a FIFO queue.            *)
(***************************************************************************)
EXTENDS RingBufferSequential, RingBufferRace, TLAPS

-----------------------------------------------------------------------------
(* The index arithmetic, for every number of slots.                        *)

\* A position at most one turn ahead, wrapped by hand.
Wrap(k) == IF k < num_slots_ THEN k ELSE k - num_slots_

\* The % of the index arithmetic wraps once.
LEMMA ModWraps ==
  /\ \A k \in 0 .. 2 * num_slots_ - 1 : k % num_slots_ = Wrap(k) /\ Wrap(k) \in Slots
  /\ \A i \in Slots : next_slot(i) = Wrap(i + 1) /\ next_slot(i) \in Slots
  <1>1. ASSUME NEW k \in 0 .. 2 * num_slots_ - 1
        PROVE  k % num_slots_ = Wrap(k) /\ Wrap(k) \in Slots
    <2>1. CASE k < num_slots_
      <3>1. k % num_slots_ = k
        BY <2>1, RingBufferAssumption, SMT
      <3> QED BY <2>1, <3>1, RingBufferAssumption DEF Wrap, Slots
    <2>2. CASE k >= num_slots_
      <3>1. k % num_slots_ = k - num_slots_
        BY <2>2, RingBufferAssumption, SMT
      <3> QED BY <2>2, <3>1, RingBufferAssumption DEF Wrap, Slots
    <2> QED BY <2>1, <2>2, RingBufferAssumption
  <1>2. ASSUME NEW i \in Slots  PROVE i + 1 \in 0 .. 2 * num_slots_ - 1
    BY RingBufferAssumption DEF Slots
  <1> QED BY <1>1, <1>2 DEF next_slot

-----------------------------------------------------------------------------
(* One call at a time. *)

\* The fields and the queue have their types.
Types ==
  /\ rb \in RingType(Batches)
  /\ queue \in Seq(Batches) /\ Len(queue) <= num_slots_

\* head_ is Len(queue) slots ahead of tail_, and full_ tells the two cases in
\* which they are equal apart.
Indices ==
  /\ rb.head_ = Wrap(rb.tail_ + Len(queue))
  /\ rb.full_ <=> Len(queue) = num_slots_

\* The slots from tail_ on hold the queue.
QueueContents ==
  \A i \in 1 .. Len(queue) : rb.buf_[Wrap(rb.tail_ + i - 1)] = queue[i]

QueueInv == Types /\ Indices /\ QueueContents /\ ReadsOldest

-----------------------------------------------------------------------------
\* Steps around the array: from slot t on, the n + 1 <= num_slots_ next ones
\* are different, and the one after them is t only if they are all there are.
LEMMA AroundTheArray ==
  ASSUME NEW t \in Slots, NEW n \in 0 .. num_slots_ - 1
  PROVE  /\ Wrap(t + 1 - 1) = t /\ Wrap(t) = t /\ Wrap(t + 1) \in Slots
         /\ \A i \in 1 .. n + 1 : Wrap(t + i - 1) \in Slots
         /\ \A i \in 1 .. n : Wrap(t + i - 1) # Wrap(t + n)
         /\ Wrap(Wrap(t + n) + 1) = Wrap(t + (n + 1))
         /\ Wrap(t + (n + 1)) = t <=> n + 1 = num_slots_
         /\ Wrap(Wrap(t + 1) + n) = Wrap(t + (n + 1))
         /\ \A i \in 1 .. n : Wrap(Wrap(t + 1) + i - 1) = Wrap(t + (i + 1) - 1)
<1> USE RingBufferAssumption DEF Wrap, Slots
<1>1. /\ Wrap(t + 1 - 1) = t /\ Wrap(t) = t /\ Wrap(t + 1) \in Slots
      /\ \A i \in 1 .. n + 1 : Wrap(t + i - 1) \in Slots
  OBVIOUS
<1>2. \A i \in 1 .. n : Wrap(t + i - 1) # Wrap(t + n)
  OBVIOUS
<1>3. /\ Wrap(Wrap(t + n) + 1) = Wrap(t + (n + 1))
      /\ Wrap(t + (n + 1)) = t <=> n + 1 = num_slots_
  OBVIOUS
<1>4. Wrap(Wrap(t + 1) + n) = Wrap(t + (n + 1))
  OBVIOUS
<1>5. \A i \in 1 .. n : Wrap(Wrap(t + 1) + i - 1) = Wrap(t + (i + 1) - 1)
  OBVIOUS
<1> QED BY <1>1, <1>2, <1>3, <1>4, <1>5

\* A new buffer is the empty queue.
LEMMA InitQueueInv == CallInit => QueueInv
<1> SUFFICES ASSUME CallInit PROVE QueueInv
  OBVIOUS
<1> USE RingBufferAssumption DEF CallInit, RingInit
<1>1. 0 \in Slots
  BY DEF Slots
<1>2. Types
  BY <1>1 DEF Types, RingType
<1>3. Indices
  BY DEF Indices, Wrap
<1>4. QueueContents /\ ReadsOldest
  BY DEF QueueContents, ReadsOldest
<1> QED BY <1>2, <1>3, <1>4 DEF QueueInv

\* The method empty() tells whether the queue is.
LEMMA EmptyQueue ==
  ASSUME Types, Indices
  PROVE  empty(rb) <=> queue = <<>>
<1> USE RingBufferAssumption DEF Types, Indices, Wrap, empty, RingType, Slots
<1>1. CASE queue = <<>>
  BY <1>1
<1>2. CASE queue # <<>>
  <2>1. Len(queue) \in 1 .. num_slots_
    BY <1>2
  <2>2. CASE Len(queue) = num_slots_
    BY <2>1, <2>2, <1>2
  <2>3. CASE Len(queue) # num_slots_
    BY <2>1, <2>3, <1>2
  <2> QED BY <2>2, <2>3
<1> QED BY <1>1, <1>2

\* write_slot appends, and drops the oldest batch of a full buffer.
LEMMA WriteKeeps ==
  ASSUME QueueInv, NEW b \in Batches, Write(b)
  PROVE  QueueInv'
<1> USE RingBufferAssumption
<1> DEFINE kept == IF Len(queue) = num_slots_ THEN Tail(queue) ELSE queue
           tail == IF rb.full_ THEN next_slot(rb.tail_) ELSE rb.tail_
<1>0. /\ rb \in RingType(Batches) /\ queue \in Seq(Batches)
      /\ Len(queue) \in 0 .. num_slots_
      /\ rb.head_ \in Slots /\ rb.tail_ \in Slots /\ rb.full_ \in BOOLEAN
      /\ rb.head_ = Wrap(rb.tail_ + Len(queue))
      /\ rb.full_ <=> Len(queue) = num_slots_
  BY DEF QueueInv, Types, Indices, RingType
<1>1. /\ tail \in Slots /\ kept \in Seq(Batches)
      /\ Len(kept) \in 0 .. num_slots_ - 1
      /\ rb.head_ = Wrap(tail + Len(kept))
      /\ \A i \in 1 .. Len(kept) : rb.buf_[Wrap(tail + i - 1)] = kept[i]
  <2>1. CASE rb.full_
    <3>1. kept = Tail(queue) /\ tail = Wrap(rb.tail_ + 1) /\ tail \in Slots
      BY <1>0, <2>1, ModWraps
    <3>2. /\ kept \in Seq(Batches) /\ Len(kept) = num_slots_ - 1
          /\ \A i \in 1 .. Len(kept) : kept[i] = queue[i + 1]
      <4>1. queue # <<>> /\ Len(queue) = num_slots_
        BY <1>0, <2>1
      <4> QED BY <1>0, <3>1, <4>1
    <3>3. rb.head_ = Wrap(tail + Len(kept))
      <4>1. Wrap(Wrap(rb.tail_ + 1) + (num_slots_ - 1)) = Wrap(rb.tail_ + num_slots_)
        BY <1>0, AroundTheArray
      <4> QED BY <1>0, <2>1, <3>1, <3>2, <4>1
    <3>4. ASSUME NEW i \in 1 .. Len(kept)
          PROVE  rb.buf_[Wrap(tail + i - 1)] = kept[i]
      <4>1. Wrap(tail + i - 1) = Wrap(rb.tail_ + (i + 1) - 1)
        BY <1>0, <3>1, <3>2, AroundTheArray
      <4>2. i + 1 \in 1 .. Len(queue)
        BY <1>0, <2>1, <3>2
      <4> QED BY <3>2, <4>1, <4>2 DEF QueueInv, QueueContents
    <3> QED BY <3>1, <3>2, <3>3, <3>4
  <2>2. CASE ~ rb.full_
    <3>1. kept = queue /\ tail = rb.tail_
      BY <1>0, <2>2
    <3> QED BY <1>0, <2>2, <3>1 DEF QueueInv, QueueContents
  <2> QED BY <1>0, <2>1, <2>2
<1>2. /\ rb'.head_ = next_slot(rb.head_) /\ rb'.tail_ = tail
      /\ rb'.full_ = (next_slot(rb.head_) = tail)
      /\ rb'.buf_ = [rb.buf_ EXCEPT ![rb.head_] = b]
      /\ queue' = Append(kept, b)
  BY DEF Write, write_slot
<1>3. /\ next_slot(rb.head_) = Wrap(rb.head_ + 1) /\ next_slot(rb.head_) \in Slots
  BY <1>0, ModWraps
<1>4. rb' \in RingType(Batches)
  BY <1>0, <1>1, <1>3 DEF Write, write_slot, RingType
<1> HIDE DEF kept, tail
<1>5. queue' \in Seq(Batches) /\ Len(queue') = Len(kept) + 1
  BY <1>1, <1>2
<1>6. Types'
  BY <1>1, <1>4, <1>5 DEF Types
<1>7. rb'.head_ = Wrap(tail + (Len(kept) + 1))
  BY <1>1, <1>2, <1>3, AroundTheArray
<1>8. rb'.full_ <=> Len(kept) + 1 = num_slots_
  <2>1. Wrap(tail + (Len(kept) + 1)) = tail <=> Len(kept) + 1 = num_slots_
    BY <1>1, AroundTheArray
  <2>2. next_slot(rb.head_) = Wrap(tail + (Len(kept) + 1))
    BY <1>2, <1>7
  <2> QED BY <1>2, <2>1, <2>2, Zenon
<1>9. Indices'
  BY <1>2, <1>5, <1>7, <1>8 DEF Indices
<1>10. ASSUME NEW i \in 1 .. Len(kept) + 1
       PROVE  rb'.buf_[Wrap(tail + i - 1)] = queue'[i]
  <2>1. rb.buf_ \in [Slots -> Batches \cup {NoBatch}]
    BY <1>0 DEF RingType
  <2>2. Wrap(tail + i - 1) \in Slots
    BY <1>1, AroundTheArray
  <2>3. CASE i = Len(kept) + 1
    <3>1. Wrap(tail + i - 1) = rb.head_
      BY <1>1, <2>3
    <3> QED BY <1>1, <1>2, <2>1, <2>2, <2>3, <3>1
  <2>4. CASE i \in 1 .. Len(kept)
    <3>1. Wrap(tail + i - 1) # rb.head_
      BY <1>1, <2>4, AroundTheArray
    <3> QED BY <1>1, <1>2, <2>1, <2>2, <2>4, <3>1
  <2> QED BY <1>1, <2>3, <2>4
<1>11. QueueContents'
  BY <1>2, <1>5, <1>10 DEF QueueContents
<1>12. ReadsOldest'
  BY DEF Write, QueueInv, ReadsOldest
<1> QED BY <1>6, <1>9, <1>11, <1>12 DEF QueueInv

\* read_slot removes the oldest batch, or nothing.
LEMMA ReadKeeps ==
  ASSUME QueueInv, Read
  PROVE  QueueInv'
<1> USE RingBufferAssumption
<1>0. /\ rb \in RingType(Batches) /\ queue \in Seq(Batches)
      /\ Len(queue) \in 0 .. num_slots_
      /\ rb.head_ \in Slots /\ rb.tail_ \in Slots
      /\ empty(rb) <=> queue = <<>>
  BY EmptyQueue DEF QueueInv, Types, RingType
<1>1. CASE queue = <<>>
  <2>1. rb' = rb /\ queue' = queue /\ out' = out /\ expect' = expect
    BY <1>0, <1>1 DEF Read, read_slot, read_value
  <2> QED BY <2>1 DEF QueueInv, Types, Indices, QueueContents, ReadsOldest
<1>2. CASE queue # <<>>
  <2>1. /\ next_slot(rb.tail_) = Wrap(rb.tail_ + 1) /\ next_slot(rb.tail_) \in Slots
    BY <1>0, ModWraps
  <2>2. /\ rb'.head_ = rb.head_ /\ rb'.tail_ = next_slot(rb.tail_)
        /\ rb'.full_ = FALSE /\ rb'.buf_ = rb.buf_ /\ rb' \in RingType(Batches)
    BY <1>0, <1>2, <2>1 DEF Read, read_slot, RingType
  <2>3. /\ queue' = Tail(queue) /\ expect' = Head(queue)
        /\ out' = rb.buf_[rb.tail_]
    BY <1>0, <1>2 DEF Read, read_value
  <2>4. /\ queue' \in Seq(Batches) /\ Len(queue') = Len(queue) - 1
        /\ Len(queue) >= 1
        /\ \A i \in 1 .. Len(queue') : queue'[i] = queue[i + 1]
    BY <1>0, <1>2, <2>3
  <2>5. Types'
    BY <1>0, <2>2, <2>4 DEF Types
  <2>6. rb.head_ = Wrap(rb.tail_ + Len(queue))
    BY DEF QueueInv, Indices
  <2>7. rb.head_ = Wrap(next_slot(rb.tail_) + (Len(queue) - 1))
    <3>1. Len(queue) - 1 \in 0 .. num_slots_ - 1
      BY <1>0, <2>4
    <3>2. Wrap(Wrap(rb.tail_ + 1) + (Len(queue) - 1)) = Wrap(rb.tail_ + ((Len(queue) - 1) + 1))
      BY <1>0, <3>1, AroundTheArray
    <3> QED BY <1>0, <2>1, <2>4, <2>6, <3>2
  <2>8. Indices'
    BY <1>0, <2>2, <2>4, <2>7 DEF Indices
  <2>9. ASSUME NEW i \in 1 .. Len(queue')
        PROVE  rb'.buf_[Wrap(rb'.tail_ + i - 1)] = queue'[i]
    <3>1. Wrap(rb'.tail_ + i - 1) = Wrap(rb.tail_ + (i + 1) - 1)
      <4>1. i - 1 \in 0 .. num_slots_ - 1
        BY <1>0, <2>4
      <4>2. Wrap(Wrap(rb.tail_ + 1) + (i - 1)) = Wrap(rb.tail_ + ((i - 1) + 1))
        BY <1>0, <4>1, AroundTheArray
      <4>3. /\ Wrap(rb.tail_ + 1) + (i - 1) = Wrap(rb.tail_ + 1) + i - 1
            /\ rb.tail_ + ((i - 1) + 1) = rb.tail_ + (i + 1) - 1
        BY <1>0, <2>1 DEF Slots
      <4> QED BY <2>1, <2>2, <4>2, <4>3
    <3>2. i + 1 \in 1 .. Len(queue)
      BY <1>0, <2>4
    <3> QED BY <2>2, <2>4, <3>1, <3>2 DEF QueueInv, QueueContents
  <2>10. QueueContents'
    BY <2>9 DEF QueueContents
  <2>11. Wrap(rb.tail_ + 1 - 1) = rb.tail_
    BY <1>0 DEF Wrap, Slots
  <2>12. rb.buf_[rb.tail_] = queue[1]
    BY <1>0, <2>4, <2>11 DEF QueueInv, QueueContents
  <2>13. ReadsOldest'
    BY <1>0, <1>2, <2>3, <2>12 DEF ReadsOldest
  <2> QED BY <2>5, <2>8, <2>10, <2>13 DEF QueueInv
<1> QED BY <1>1, <1>2

\* reset() empties the buffer without moving tail_.
LEMMA ResetKeeps ==
  ASSUME QueueInv, Reset
  PROVE  QueueInv'
<1> USE RingBufferAssumption
<1>0. rb \in RingType(Batches) /\ rb.head_ \in Slots /\ rb.tail_ \in Slots
  BY DEF QueueInv, Types, RingType
<1>1. /\ rb'.head_ = rb.tail_ /\ rb'.tail_ = rb.tail_
      /\ rb'.full_ = FALSE /\ rb' \in RingType(Batches)
  BY <1>0 DEF Reset, reset, RingType
<1>2. queue' = <<>>
  BY DEF Reset
<1>3. Types' /\ QueueContents'
  BY <1>1, <1>2 DEF Types, QueueContents
<1>4. Indices'
  BY <1>0, <1>1, <1>2 DEF Indices, Wrap, Slots
<1>5. ReadsOldest'
  BY DEF Reset, QueueInv, ReadsOldest
<1> QED BY <1>3, <1>4, <1>5 DEF QueueInv

\* Every call of a method keeps the invariant.
LEMMA QueueInvInductive == CallSpec => []QueueInv
<1>1. QueueInv /\ UNCHANGED callVars => QueueInv'
  BY DEF callVars, QueueInv, Types, Indices, QueueContents, ReadsOldest
<1>2. QueueInv /\ [CallNext]_callVars => QueueInv'
  BY <1>1, WriteKeeps, ReadKeeps, ResetKeeps DEF CallNext
<1> QED BY <1>2, InitQueueInv, PTL DEF CallSpec

-----------------------------------------------------------------------------
\* head_, tail_, full_, empty(), full() and size() describe the queue, also
\* after writes to a full buffer and after reset().
THEOREM Represents == CallSpec => []RepresentsQueue
<1>1. ASSUME QueueInv PROVE RepresentsQueue
  <2> USE RingBufferAssumption
  <2>0. /\ rb \in RingType(Batches) /\ queue \in Seq(Batches)
        /\ Len(queue) \in 0 .. num_slots_ /\ rb.full_ \in BOOLEAN
        /\ rb.head_ \in Slots /\ rb.tail_ \in Slots
        /\ rb.head_ = Wrap(rb.tail_ + Len(queue))
        /\ rb.full_ <=> Len(queue) = num_slots_
    BY <1>1 DEF QueueInv, Types, Indices, RingType
  <2>1. ASSUME NEW i \in 1 .. Len(queue)
        PROVE  rb.buf_[(rb.tail_ + i - 1) % num_slots_] = queue[i]
    <3>1. rb.tail_ + i - 1 \in 0 .. 2 * num_slots_ - 1
      BY <2>0 DEF Slots
    <3> QED BY <1>1, <3>1, ModWraps DEF QueueInv, QueueContents
  <2>2. size(rb) = Len(queue)
    <3>1. CASE rb.full_
      BY <2>0, <3>1 DEF size
    <3>2. CASE ~ rb.full_ /\ rb.head_ >= rb.tail_
      <4>0. ~ (rb.head_ < rb.tail_)
        BY <2>0, <3>2 DEF Slots
      <4>1. size(rb) = rb.head_ - rb.tail_
        BY <2>0, <3>2, <4>0 DEF size
      <4> QED BY <2>0, <3>2, <4>1 DEF Wrap, Slots
    <3>3. CASE ~ rb.full_ /\ rb.head_ < rb.tail_
      <4>0. ~ (rb.head_ >= rb.tail_)
        BY <2>0, <3>3 DEF Slots
      <4>1. size(rb) = num_slots_ + rb.head_ - rb.tail_
        BY <2>0, <3>3, <4>0 DEF size
      <4> QED BY <2>0, <3>3, <4>1 DEF Wrap, Slots
    <3> QED BY <2>0, <3>1, <3>2, <3>3 DEF Slots
  <2>3. empty(rb) <=> queue = <<>>
    BY <1>1, EmptyQueue DEF QueueInv
  <2> QED BY <2>0, <2>1, <2>2, <2>3 DEF RepresentsQueue, full, capacity
<1> QED BY <1>1, QueueInvInductive, PTL

\* Every read_slot returns the oldest batch neither read nor overwritten.
THEOREM Oldest == CallSpec => []ReadsOldest
<1>1. QueueInv => ReadsOldest
  BY DEF QueueInv
<1> QED BY <1>1, QueueInvInductive, PTL

-----------------------------------------------------------------------------
(* Two threads, load by load and store by store.  *)
(* Types, whatever the window.                    *)

\* While a batch is being written there is one left to write.
WriterInBound == pc["G2C"] # "window" => written < MaxBatch

TypeInv == TypeOK /\ WriterInBound

\* The fields, registers and semaphores start with their types.
LEMMA InitTypeInv == Init => TypeInv
  <1> USE RingBufferAssumption, RaceAssumption
  <1>1. RingInit.buf_ = [i \in Slots |-> NoBatch]
    BY DEF RingInit
  <1>2. 0 \in Slots
    BY DEF Slots
  <1>3. Init => buf_ \in [Slots -> Nat \cup {NoBatch, Torn}]
    BY <1>1 DEF Init
  <1>4. Init => full_ \in BOOLEAN /\ wfull \in BOOLEAN
    BY DEF Init
  <1>5. Init => /\ pc \in [Thread -> WriterPC \cup ReaderPC]
                /\ pc["G2C"] = "window" /\ pc["C2F"] = "available"
                /\ reg \in [Thread -> Slots]
    BY <1>2 DEF Init, Thread, WriterPC, ReaderPC
  <1> HIDE DEF RingInit
  <1> QED BY <1>2, <1>3, <1>4, <1>5
          DEF Init, TypeInv, TypeOK, WriterInBound, WriterPC, ReaderPC

\* Every load and store keeps the types.
LEMMA NextTypeInv == TypeInv /\ [Next]_vars => TypeInv'
  <1> USE RingBufferAssumption, RaceAssumption
  <1> SUFFICES ASSUME TypeInv, [Next]_vars PROVE TypeInv'
    OBVIOUS
  <1> USE DEF TypeInv, TypeOK, WriterInBound, WriterPC, ReaderPC, Thread, Goto
  <1>1. CASE W_window
    BY <1>1 DEF W_window, wVars, fields, rVars, semVars
  <1>2. CASE W_copy_begin \/ W_copy_end
    BY <1>2 DEF W_copy_begin, W_copy_end, wVars, fields, rVars, semVars
  <1>3. CASE W_test_full
    BY <1>3 DEF W_test_full, wVars, fields, rVars, semVars
  <1>4. CASE W_store_head
    BY <1>4, ModWraps DEF W_store_head, wVars, fields, rVars, semVars
  <1>5. CASE W_compare \/ W_store_full
    BY <1>5 DEF W_compare, W_store_full, wVars, fields, rVars, semVars
  <1>6. CASE W_post
    BY <1>6 DEF W_post, fields, rVars, semVars
  <1>7. CASE R_available
    BY <1>7 DEF R_available, rVars, fields, wVars, semVars
  <1>8. CASE R_test_full \/ R_test_empty
    BY <1>8 DEF R_test_full, R_test_empty, rVars, fields, wVars, semVars
  <1>9. CASE R_copy_begin \/ R_copy_end
    BY <1>9 DEF R_copy_begin, R_copy_end, rVars, fields, wVars, semVars
  <1>10. CASE R_clear_full
    BY <1>10 DEF R_clear_full, rVars, fields, wVars, semVars
  <1>11. ASSUME NEW t \in Thread, load_tail(t)
         PROVE  TypeInv'
    BY <1>11 DEF load_tail, fields, wVars, rVars, semVars
  <1>12. ASSUME NEW t \in Thread, store_tail(t)
         PROVE  TypeInv'
    BY <1>12, ModWraps DEF store_tail, wVars, rVars, semVars
  <1>13. CASE R_send
    BY <1>13 DEF R_send, fields, wVars, semVars
  <1>14. CASE Answer
    BY <1>14 DEF Answer, fields, wVars, rVars
  <1>15. CASE Idle \/ UNCHANGED vars
    BY <1>15 DEF Idle, vars, fields, wVars, rVars, semVars
  <1> QED BY <1>1, <1>2, <1>3, <1>4, <1>5, <1>6, <1>7, <1>8, <1>9, <1>10,
             <1>11, <1>12, <1>13, <1>14, <1>15
          DEF Next, write_slot_steps, read_slot_steps

\* The types hold in every state.
LEMMA TypeInductive == Spec => []TypeInv
BY InitTypeInv, NextTypeInv, PTL DEF Spec

\* Whatever the window and however the unlocked methods interfere, head_ and
\* tail_ stay inside the array and no semaphore of the coordinator underflows.
THEOREM TypeCorrect == Spec => []TypeOK
<1>1. TypeInv => TypeOK
  BY DEF TypeInv
<1> QED BY <1>1, TypeInductive, PTL

-----------------------------------------------------------------------------
(* The batches in the slots, with a window smaller than the buffer.        *)

\* Batches whose slot head_, respectively tail_, has moved past; their
\* difference is the number of occupied slots.
Stored == written + (IF pc["G2C"] \in {"compare", "store_full", "post"} THEN 1 ELSE 0)
Removed == read + (IF pc["C2F"] = "send" THEN 1 ELSE 0)
Occupied == Stored - Removed

\* The semaphores count what they are meant to count.
Semaphores ==
  /\ answered <= read
  /\ sem_free = batch_window_size
                - (written + (IF pc["G2C"] = "window" THEN 0 ELSE 1) - answered)
  /\ sem_available = written - (read + (IF pc["C2F"] = "available" THEN 0 ELSE 1))

\* full_ is never set, so write_slot never moves tail_.
NeverFull ==
  /\ ~full_ /\ ~wfull
  /\ pc["G2C"] \notin {"load_tail", "store_tail"}

\* head_ is as far ahead of tail_ as there are occupied slots, and these hold
\* the batches in order.
Contents ==
  /\ head_ = Wrap(tail_ + Occupied)
  /\ \A j \in 0 .. Occupied - 1 : buf_[Wrap(tail_ + j)] = Removed + j
  /\ pc["G2C"] \in {"test_full", "store_head"} => buf_[head_] = written

\* The C2F thread holds the batch it is about to forward.
Reader ==
  /\ pc["C2F"] \in {"copying", "clear_full", "load_tail", "store_tail", "send"} =>
       output_buf = read
  /\ pc["C2F"] \in {"copying", "store_tail"} => reg["C2F"] = tail_

FifoInv == TypeInv /\ Semaphores /\ NeverFull /\ Contents /\ Reader

\* The window bounds the occupied slots, and a batch the C2F thread was told
\* about is in its slot until tail_ moves past it.
LEMMA OccupiedBounds ==
  ASSUME TypeInv, Semaphores, batch_window_size < num_slots_
  PROVE  /\ Stored \in Nat /\ Removed \in Nat
         /\ Occupied \in 0 .. num_slots_ - 1
         /\ pc["C2F"] \notin {"available", "send"} => Occupied > 0
         /\ pc["G2C"] \in {"compare", "store_full", "post"} => Occupied > 0
         /\ pc["G2C"] \in {"copy", "copying", "test_full", "store_head"}
              => Occupied + 1 < num_slots_
  <1> USE RingBufferAssumption, RaceAssumption
      DEF TypeInv, TypeOK, Semaphores, Stored, Removed, Occupied
  <1>1. Stored \in Nat /\ Removed \in Nat
    OBVIOUS
  <1>2. written + (IF pc["G2C"] = "window" THEN 0 ELSE 1) - read <= batch_window_size
    OBVIOUS
  <1>3. read + (IF pc["C2F"] = "available" THEN 0 ELSE 1) <= written
    OBVIOUS
  <1> QED BY <1>1, <1>2, <1>3

\* Two positions within one turn of tail_ are different slots.
LEMMA WrapInjective ==
  ASSUME NEW t \in Slots, NEW i \in 0 .. num_slots_ - 1, NEW j \in 0 .. num_slots_ - 1,
         i # j
  PROVE  Wrap(t + i) # Wrap(t + j)
  BY RingBufferAssumption DEF Wrap, Slots

\* Positions are inside the array, and moving the origin by one slot moves
\* every position.
LEMMA WrapShift ==
  ASSUME NEW t \in Slots, NEW i \in 0 .. num_slots_ - 1
  PROVE  /\ Wrap(t + i) \in Slots
         /\ Wrap(Wrap(t + i) + 1) = Wrap(t + (i + 1)) \/ i + 1 = num_slots_
         /\ i > 0 => Wrap(Wrap(t + 1) + (i - 1)) = Wrap(t + i)
         /\ Wrap(t + 0) = t
  BY RingBufferAssumption DEF Wrap, Slots

\* The invariant holds initially.
LEMMA InitFifoInv == Init => FifoInv
  <1> USE RingBufferAssumption, RaceAssumption
  <1> SUFFICES ASSUME Init PROVE FifoInv
    OBVIOUS
  <1>1. TypeInv
    BY InitTypeInv
  <1>2. Occupied = 0
    BY DEF Init, Thread, Occupied, Stored, Removed
  <1>3. Contents
    BY <1>2 DEF Init, Thread, Contents, Wrap
  <1>4. pc["G2C"] = "window" /\ pc["C2F"] = "available"
    BY DEF Init, Thread
  <1>5. Semaphores
    <2>1. answered = 0 /\ read = 0 /\ written = 0
          /\ sem_free = batch_window_size /\ sem_available = 0
      BY DEF Init
    <2> QED BY <1>4, <2>1 DEF Semaphores
  <1>6. NeverFull /\ Reader
    BY <1>4 DEF Init, NeverFull, Reader
  <1> QED BY <1>1, <1>3, <1>5, <1>6 DEF FifoInv

\* The invariant is kept by every load and store of the two threads.
LEMMA NextFifoInv ==
  ASSUME batch_window_size < num_slots_, FifoInv, [Next]_vars
  PROVE  FifoInv'
  <1> USE RingBufferAssumption, RaceAssumption
  <1>0. TypeInv /\ Semaphores /\ NeverFull /\ Contents /\ Reader
    BY DEF FifoInv
  <1>a. TypeInv'
    BY <1>0, NextTypeInv
  <1>b. /\ Stored \in Nat /\ Removed \in Nat
        /\ Occupied \in 0 .. num_slots_ - 1 /\ Occupied = Stored - Removed
        /\ pc["C2F"] \notin {"available", "send"} => Occupied > 0
        /\ pc["G2C"] \in {"compare", "store_full", "post"} => Occupied > 0
        /\ pc["G2C"] \in {"copy", "copying", "test_full", "store_head"}
             => Occupied + 1 < num_slots_
    BY <1>0, OccupiedBounds DEF Occupied
  <1>c. /\ tail_ \in Slots /\ head_ \in Slots
        /\ buf_ \in [Slots -> Nat \cup {NoBatch, Torn}]
    BY <1>0 DEF TypeInv, TypeOK
  <1>d. /\ head_ = Wrap(tail_ + Occupied)
        /\ \A j \in 0 .. Occupied - 1 : /\ Wrap(tail_ + j) \in Slots
                                        /\ Wrap(tail_ + j) # head_
                                        /\ buf_[Wrap(tail_ + j)] = Removed + j
    BY <1>0, <1>b, <1>c, WrapInjective, WrapShift DEF Contents
  \* Steps that move neither index and write no slot.
  <1>1. ASSUME UNCHANGED fields, Stored' = Stored, Removed' = Removed,
               pc'["G2C"] \in {"test_full", "store_head"} =>
                 pc["G2C"] \in {"test_full", "store_head"} /\ UNCHANGED written
        PROVE  Contents'
    BY <1>0, <1>1 DEF Contents, Occupied, fields, Wrap
  <1>e. pc \in [Thread -> WriterPC \cup ReaderPC] /\ reg \in [Thread -> Slots]
    BY <1>0 DEF TypeInv, TypeOK
  <1> USE <1>e DEF Stored, Removed, Thread, Goto, wVars, rVars
  <1>2. CASE W_window
    <2>1. Contents'
      BY <1>0, <1>1, <1>2 DEF W_window, rVars, fields, TypeInv, TypeOK
    <2> QED
      BY <1>0, <1>a, <1>2, <2>1
      DEF FifoInv, W_window, rVars, fields, Semaphores, NeverFull, Reader, TypeInv, TypeOK
  <1>3. CASE W_copy_begin \/ W_copy_end
    <2>1. /\ UNCHANGED <<head_, tail_, Stored, Removed, Occupied>>
          /\ \A i \in Slots : i # head_ => buf_'[i] = buf_[i]
          /\ pc'["G2C"] = "test_full" => buf_'[head_] = written'
          /\ pc'["G2C"] # "store_head"
      BY <1>3, <1>c DEF W_copy_begin, W_copy_end, rVars, Occupied
    <2>2. Contents'
      BY <1>d, <2>1 DEF Contents, Wrap
    <2> QED
      BY <1>0, <1>a, <1>3, <2>2
      DEF FifoInv, W_copy_begin, W_copy_end, rVars, semVars, Semaphores, NeverFull, Reader
  <1>4. CASE W_test_full
    <2>1. Contents'
      BY <1>0, <1>1, <1>4 DEF W_test_full, rVars, fields, NeverFull
    <2> QED
      BY <1>0, <1>a, <1>4, <2>1
      DEF FifoInv, W_test_full, rVars, fields, semVars, Semaphores, NeverFull, Reader
  <1>5. CASE load_tail("G2C") \/ store_tail("G2C")
    BY <1>0, <1>5 DEF load_tail, store_tail, NeverFull
  <1>6. CASE W_store_head
    <2>1. /\ head_' = Wrap(tail_ + (Occupied + 1)) /\ UNCHANGED <<tail_, buf_>>
          /\ Removed' = Removed /\ Occupied' = Occupied + 1 /\ pc'["G2C"] = "compare"
      <3>1. head_' = Wrap(head_ + 1)
        BY <1>6, <1>c, ModWraps DEF W_store_head
      <3>2. head_' = Wrap(tail_ + (Occupied + 1))
        BY <1>6, <3>1, <1>b, <1>c, <1>d, WrapShift DEF W_store_head
      <3> QED BY <1>0, <1>6, <3>2 DEF W_store_head, rVars, Occupied, TypeInv, TypeOK
    <2>2. buf_[Wrap(tail_ + Occupied)] = Removed + Occupied
      BY <1>0, <1>6, <1>b, <1>d DEF W_store_head, Contents, TypeInv, TypeOK
    <2>3. Contents'
      BY <1>b, <1>d, <2>1, <2>2 DEF Contents, Wrap
    <2> QED
      BY <1>0, <1>a, <1>6, <2>3
      DEF FifoInv, W_store_head, rVars, semVars, Semaphores, NeverFull, Reader
  <1>7. CASE W_compare
    <2>1. head_ # tail_
      BY <1>7, <1>b, <1>c, <1>d, WrapShift DEF W_compare
    <2>2. Contents'
      BY <1>0, <1>1, <1>7 DEF W_compare, rVars, fields
    <2> QED
      BY <1>0, <1>a, <1>7, <2>1, <2>2
      DEF FifoInv, W_compare, rVars, fields, semVars, Semaphores, NeverFull, Reader
  <1>8. CASE W_store_full
    <2>1. UNCHANGED fields
      BY <1>0, <1>8 DEF W_store_full, fields, NeverFull, TypeInv, TypeOK
    <2>2. Contents'
      BY <1>0, <1>1, <1>8, <2>1 DEF W_store_full, rVars
    <2> QED
      BY <1>0, <1>a, <1>8, <2>1, <2>2
      DEF FifoInv, W_store_full, rVars, fields, semVars, Semaphores, NeverFull, Reader
  <1>9. CASE W_post
    <2>1. Contents'
      BY <1>0, <1>1, <1>9 DEF W_post, rVars, fields, TypeInv, TypeOK
    <2> QED
      BY <1>0, <1>a, <1>9, <2>1
      DEF FifoInv, W_post, rVars, fields, Semaphores, NeverFull, Reader, TypeInv, TypeOK
  <1>10. CASE R_available
    <2>1. Contents'
      BY <1>0, <1>1, <1>10 DEF R_available, wVars, fields
    <2> QED
      BY <1>0, <1>a, <1>10, <2>1
      DEF FifoInv, R_available, wVars, fields, Semaphores, NeverFull, Reader, TypeInv, TypeOK
  <1>11. CASE R_test_full \/ R_test_empty
    <2>1. pc["C2F"] = "test_empty" => head_ # tail_
      BY <1>b, <1>c, <1>d, WrapShift
    <2>2. pc'["C2F"] # "send"
      BY <1>11, <2>1 DEF R_test_full, R_test_empty
    <2>3. Contents'
      BY <1>0, <1>1, <1>11, <2>2 DEF R_test_full, R_test_empty, wVars, fields
    <2> QED
      BY <1>0, <1>a, <1>11, <2>2, <2>3
      DEF FifoInv, R_test_full, R_test_empty, wVars, fields, semVars, Semaphores,
          NeverFull, Reader
  <1>12. CASE R_copy_begin \/ R_copy_end
    <2>1. buf_[tail_] = read
      <3>1. 0 \in 0 .. Occupied - 1 /\ pc["C2F"] # "send" /\ read \in Nat
        BY <1>0, <1>12, <1>b DEF R_copy_begin, R_copy_end, TypeInv, TypeOK
      <3>2. buf_[Wrap(tail_ + 0)] = Removed + 0
        BY <3>1, <1>d
      <3> QED BY <3>1, <3>2, <1>b, <1>c, WrapShift
    <2>2. Contents'
      BY <1>0, <1>1, <1>12 DEF R_copy_begin, R_copy_end, wVars, fields
    <2>3. Reader'
      BY <1>0, <1>12, <2>1 DEF R_copy_begin, R_copy_end, fields, Reader
    <2> QED
      BY <1>0, <1>a, <1>12, <2>2, <2>3
      DEF FifoInv, R_copy_begin, R_copy_end, wVars, fields, semVars, Semaphores, NeverFull
  <1>13. CASE R_clear_full \/ load_tail("C2F")
    <2>1. UNCHANGED fields
      BY <1>0, <1>13 DEF R_clear_full, load_tail, fields, NeverFull, TypeInv, TypeOK
    <2>2. Contents'
      BY <1>0, <1>1, <1>13, <2>1 DEF R_clear_full, load_tail, wVars
    <2> QED
      BY <1>0, <1>a, <1>13, <2>1, <2>2
      DEF FifoInv, R_clear_full, load_tail, wVars, fields, semVars, Semaphores,
          NeverFull, Reader
  <1>14. CASE store_tail("C2F")
    <2>1. /\ tail_' = Wrap(tail_ + 1) /\ UNCHANGED <<head_, buf_, Stored, pc["G2C"], written>>
          /\ Removed' = Removed + 1 /\ Occupied' = Occupied - 1 /\ Occupied > 0
      <3>1. tail_' = Wrap(tail_ + 1)
        BY <1>0, <1>14, <1>c, ModWraps DEF store_tail, Reader
      <3> QED BY <1>0, <1>14, <1>b, <3>1 DEF store_tail, wVars, Occupied, TypeInv, TypeOK
    <2>2. \A i \in 0 .. num_slots_ - 1 :
            i > 0 => Wrap(Wrap(tail_ + 1) + (i - 1)) = Wrap(tail_ + i)
      BY <1>c, WrapShift
    <2>3. head_' = Wrap(tail_' + Occupied')
      BY <1>b, <1>d, <2>1, <2>2
    <2>4. ASSUME NEW j \in 0 .. Occupied' - 1
          PROVE  buf_'[Wrap(tail_' + j)] = Removed' + j
      <3>1. j + 1 \in 0 .. Occupied - 1 /\ j + 1 \in 0 .. num_slots_ - 1 /\ (j + 1) - 1 = j
        BY <1>b, <2>1
      <3>2. Wrap(tail_' + j) = Wrap(tail_ + (j + 1))
        BY <2>1, <2>2, <3>1
      <3>3. buf_[Wrap(tail_ + (j + 1))] = Removed + (j + 1)
        BY <1>d, <3>1
      <3> QED BY <1>b, <2>1, <3>1, <3>2, <3>3
    <2>5. Contents'
      BY <1>0, <2>1, <2>3, <2>4 DEF Contents, Wrap
    <2> QED
      BY <1>0, <1>a, <1>14, <2>5
      DEF FifoInv, store_tail, wVars, semVars, Semaphores, NeverFull, Reader
  <1>15. CASE R_send
    <2>1. Contents'
      BY <1>0, <1>1, <1>15 DEF R_send, wVars, fields, TypeInv, TypeOK
    <2> QED
      BY <1>0, <1>a, <1>15, <2>1
      DEF FifoInv, R_send, wVars, fields, semVars, Semaphores, NeverFull, Reader, TypeInv, TypeOK
  <1>16. CASE Answer
    <2>1. Contents'
      BY <1>0, <1>1, <1>16 DEF Answer, wVars, rVars, fields
    <2> QED
      BY <1>0, <1>a, <1>16, <2>1
      DEF FifoInv, Answer, wVars, rVars, fields, Semaphores, NeverFull, Reader, TypeInv, TypeOK
  <1>17. CASE Idle \/ UNCHANGED vars
    <2>1. UNCHANGED vars
      BY <1>17 DEF Idle
    <2>2. Contents'
      BY <1>0, <1>1, <2>1 DEF vars, wVars, rVars, fields
    <2> QED
      BY <1>0, <1>a, <2>1, <2>2
      DEF FifoInv, vars, fields, wVars, rVars, semVars, Semaphores, NeverFull, Reader
  <1> QED BY <1>2, <1>3, <1>4, <1>5, <1>6, <1>7, <1>8, <1>9, <1>10, <1>11, <1>12,
             <1>13, <1>14, <1>15, <1>16, <1>17
          DEF Next, write_slot_steps, read_slot_steps

\* With a batch window smaller than the buffer, the invariant holds in every
\* state.
LEMMA FifoInductive ==
  ASSUME batch_window_size < num_slots_
  PROVE  Spec => []FifoInv
  <1>1. FifoInv /\ [Next]_vars => FifoInv'
    BY NextFifoInv
  <1> QED BY <1>1, InitFifoInv, PTL DEF Spec

\* With a batch window smaller than the buffer, for every number of slots and
\* batches, the unlocked read_slot hands the C2F thread every batch of the GPU
\* once, in order and whole.
THEOREM ReadInOrder ==
  ASSUME batch_window_size < num_slots_
  PROVE  Spec => []BatchesReadInOrder
<1>1. FifoInv => BatchesReadInOrder
  BY DEF FifoInv, Reader, BatchesReadInOrder
<1> QED BY <1>1, FifoInductive, PTL

-----------------------------------------------------------------------------
(* The ring buffer implements the FIFO queue.                              *)

\* The k batches from number a on.
Run(a, k) == [i \in 1 .. k |-> a + i - 1]

\* What the queue operations do to consecutive batches.
LEMMA RunFacts ==
  ASSUME NEW a \in Nat, NEW k \in Nat
  PROVE  /\ Run(a, k) \in Seq(Nat) /\ Len(Run(a, k)) = k
         /\ Run(a, 0) = <<>>
         /\ Append(Run(a, k), a + k) = Run(a, k + 1)
         /\ k > 0 => /\ Run(a, k) # <<>> /\ Head(Run(a, k)) = a
                     /\ Tail(Run(a, k)) = Run(a + 1, k - 1)
  <1>1. Run(a, k) \in Seq(Nat) /\ Len(Run(a, k)) = k
    BY DEF Run
  <1>2. Run(a, 0) = <<>>
    BY DEF Run
  <1>3. Append(Run(a, k), a + k) = Run(a, k + 1)
    BY <1>1 DEF Run
  <1>4. ASSUME k > 0
        PROVE  /\ Run(a, k) # <<>> /\ Head(Run(a, k)) = a
               /\ Tail(Run(a, k)) = Run(a + 1, k - 1)
    <2>1. Run(a, k) # <<>> /\ Head(Run(a, k)) = a
      BY <1>1, <1>4 DEF Run
    <2>2. Tail(Run(a, k)) = Run(a + 1, k - 1)
      BY <1>1, <1>4 DEF Run
    <2> QED BY <2>1, <2>2
  <1> QED BY <1>1, <1>2, <1>3, <1>4

\* The abstract queue is the run of the batches announced and not handed over.
AnnouncedRun == /\ handed \in Nat /\ written - handed \in Nat
                /\ announced = Run(handed, written - handed)

\* The slots behind tail_ hold that run.
LEMMA AnnouncedIsRun ==
  ASSUME FifoInv, batch_window_size < num_slots_
  PROVE  AnnouncedRun
  <1> USE RingBufferAssumption, RaceAssumption
  <1>1. /\ Occupied \in 0 .. num_slots_ - 1 /\ tail_ \in Slots
        /\ handed \in Nat /\ written \in Nat /\ written - handed \in Nat
        /\ ahead \in Nat /\ Removed \in Nat
        /\ Removed + ahead = handed /\ ahead + (written - handed) <= Occupied
    <2>1. TypeInv /\ Semaphores
      BY DEF FifoInv
    <2>2. Occupied \in 0 .. num_slots_ - 1
      BY <2>1, OccupiedBounds
    <2> QED BY <2>1, <2>2 DEF handed, ahead, Removed, Occupied, Stored, Semaphores, TypeInv, TypeOK
  <1>2. ASSUME NEW i \in 1 .. (written - handed)
        PROVE  buf_[(tail_ + ahead + i - 1) % num_slots_] = handed + i - 1
    <2> DEFINE j == ahead + i - 1
    <2>1. j \in 0 .. Occupied - 1 /\ tail_ + ahead + i - 1 = tail_ + j /\ Removed + j = handed + i - 1
      BY <1>1 DEF Slots
    <2>2. tail_ + j \in 0 .. 2 * num_slots_ - 1
      BY <1>1, <2>1 DEF Slots
    <2> HIDE DEF j
    <2>3. (tail_ + j) % num_slots_ = Wrap(tail_ + j)
      BY <2>2, ModWraps
    <2>4. buf_[Wrap(tail_ + j)] = Removed + j
      BY <2>1 DEF FifoInv, Contents
    <2> QED BY <2>1, <2>3, <2>4
  <1> QED BY <1>1, <1>2 DEF AnnouncedRun, announced, Run

\* A step of a thread is a Put, a Get or no step of the queue.
LEMMA StepSimulation ==
  ASSUME batch_window_size < num_slots_, FifoInv, FifoInv',
         AnnouncedRun, AnnouncedRun', [Next]_vars
  PROVE  BQ!Next \/ UNCHANGED <<announced, written, output_buf>>
  <1> USE RingBufferAssumption, RaceAssumption
  <1>1. /\ handed \in Nat /\ written - handed \in Nat
        /\ announced = Run(handed, written - handed)
    BY DEF AnnouncedRun
  <1>2. /\ handed' \in Nat /\ written' - handed' \in Nat
        /\ announced' = Run(handed', written' - handed')
    BY DEF AnnouncedRun, Run
  <1>3. TypeOK /\ Semaphores /\ Reader /\ Reader'
    BY DEF FifoInv, TypeInv
  <1>e. pc \in [Thread -> WriterPC \cup ReaderPC]
    BY <1>3 DEF TypeOK
  <1> USE <1>e DEF Thread, Goto, wVars, rVars
  \* Steps after which the same batches are announced.
  <1>4. ASSUME handed' = handed, written' = written, output_buf' = output_buf
        PROVE  UNCHANGED <<announced, written, output_buf>>
    BY <1>1, <1>2, <1>4
  <1>5. CASE W_window \/ write_slot_steps
    BY <1>4, <1>5
    DEF handed, W_window, write_slot_steps, W_copy_begin, W_copy_end, W_test_full,
        W_store_head, W_compare, W_store_full
  <1>6. CASE W_post
    <2>1. handed' = handed /\ written' = written + 1 /\ output_buf' = output_buf
      BY <1>6 DEF W_post, handed, rVars
    <2>2. written - handed < batch_window_size /\ written \in Nat
      BY <1>3, <1>6 DEF W_post, handed, Semaphores, TypeOK
    <2>3. Append(announced, written) = announced' /\ Len(announced) < batch_window_size
      <3>1. /\ Len(announced) = written - handed
            /\ Append(announced, handed + (written - handed))
                 = Run(handed, (written - handed) + 1)
        BY <1>1, RunFacts
      <3>2. handed + (written - handed) = written /\ (written - handed) + 1 = written' - handed'
        BY <1>1, <2>1, <2>2
      <3> QED BY <1>2, <2>1, <2>2, <3>1, <3>2
    <2> QED BY <2>1, <2>3 DEF BQ!Next, BQ!Put
  <1>7. CASE R_copy_begin
    <2>1. handed' = handed + 1 /\ written' = written /\ written - handed > 0 /\ output_buf' = handed
      BY <1>3, <1>7 DEF R_copy_begin, wVars, handed, Semaphores, Reader, TypeOK
    <2>2. /\ announced # <<>> /\ Head(announced) = handed
          /\ Tail(announced) = Run(handed + 1, (written - handed) - 1)
      BY <1>1, <2>1, RunFacts
    <2>3. Tail(announced) = announced'
      <3>1. (written - handed) - 1 = written' - handed'
        BY <1>1, <1>3, <2>1 DEF TypeOK
      <3> QED BY <1>2, <2>1, <2>2, <3>1
    <2> QED BY <2>1, <2>2, <2>3 DEF BQ!Next, BQ!Get
  <1>8. CASE R_copy_end
    <2>1. handed' = handed /\ written' = written /\ read' = read
      BY <1>8 DEF R_copy_end, wVars, handed
    <2>2. output_buf' = output_buf
      BY <1>3, <1>8 DEF R_copy_end, Reader
    <2> QED BY <1>4, <2>1, <2>2
  <1>9. CASE R_available \/ R_test_full \/ R_clear_full
    BY <1>4, <1>9
    DEF handed, R_available, R_test_full, R_clear_full
  <1>10. CASE R_test_empty
    <2>1. pc'["C2F"] = "copy"
      <3>1. /\ Occupied \in 0 .. num_slots_ - 1 /\ Occupied > 0 /\ tail_ \in Slots
            /\ head_ = Wrap(tail_ + Occupied)
        BY <1>10, OccupiedBounds DEF R_test_empty, FifoInv, Contents, TypeInv, TypeOK
      <3>2. head_ # tail_
        BY <3>1, WrapInjective, WrapShift
      <3> QED BY <1>10, <3>2 DEF R_test_empty
    <2> QED BY <1>4, <1>10, <2>1 DEF R_test_empty, handed, wVars
  <1>11. CASE R_send
    <2>1. handed' = handed
      BY <1>3, <1>11 DEF R_send, handed, TypeOK
    <2> QED BY <1>4, <1>11, <2>1 DEF R_send, wVars
  <1>12. CASE Answer \/ Idle \/ UNCHANGED vars
    BY <1>4, <1>12 DEF Answer, Idle, vars, wVars, rVars, handed
  <1>13. ASSUME NEW t \in Thread, load_tail(t) \/ store_tail(t)
         PROVE  UNCHANGED <<announced, written, output_buf>>
    BY <1>4, <1>13 DEF handed, load_tail, store_tail
  <1> QED BY <1>5, <1>6, <1>7, <1>8, <1>9, <1>10, <1>11, <1>12, <1>13
          DEF Next, read_slot_steps

\* With a batch window smaller than the buffer, the unlocked ring buffer under
\* the coordinator's semaphores implements the FIFO queue of BatchQueue.
THEOREM Refinement ==
  ASSUME batch_window_size < num_slots_
  PROVE  Spec => ImplementsQueue
<1>1. Init => BQ!Init
  <2> SUFFICES ASSUME Init PROVE BQ!Init
    OBVIOUS
  <2>1. FifoInv
    BY InitFifoInv
  <2>2. announced = Run(handed, written - handed)
    BY <2>1, AnnouncedIsRun DEF AnnouncedRun
  <2>3. handed = 0 /\ written = 0 /\ output_buf = NoBatch
    BY DEF Init, Thread, handed
  <2>4. announced = <<>>
    BY <2>2, <2>3, RunFacts
  <2> QED BY <2>3, <2>4 DEF BQ!Init
<1>2. FifoInv /\ FifoInv' /\ AnnouncedRun /\ AnnouncedRun' /\ [Next]_vars
        => [BQ!Next]_<<announced, written, output_buf>>
  BY StepSimulation
<1>3. FifoInv => AnnouncedRun
  BY AnnouncedIsRun
<1> QED BY <1>1, <1>2, <1>3, FifoInductive, PTL DEF Spec, ImplementsQueue, BQ!Spec
=============================================================================
