---------------------------- MODULE RingBufferRace ----------------------------
(***************************************************************************)
(* write_slot by the G2C thread and read_slot by the C2F thread at the     *)
(* granularity of their loads and stores: the mutex in the class is        *)
(* commented out, and the program is built without optimisation, so every  *)
(* load and store of a field is a step of its own.  A slot that is read    *)
(* while it is being written, or written while it is being read, yields    *)
(* Torn.  The two threads are driven by the coordinator's semaphores.      *)
(***************************************************************************)
EXTENDS RingBuffer, Integers

CONSTANTS batch_window_size,  \* initial value of the batch window semaphore
          MaxBatch,           \* bound: batches the GPU sends
          Torn                \* the content of a slot copied while written

ASSUME RaceAssumption ==
  /\ batch_window_size \in Nat \ {0}
  /\ MaxBatch \in Nat
  /\ NoBatch \notin Int /\ Torn \notin Int /\ Torn # NoBatch

VARIABLES
  head_, tail_, full_, buf_,     \* the fields of the class
  pc, reg,                       \* thread -> where it is; its copy of tail_
  wfull, written,                \* G2C thread: register, batches written
  output_buf, read,              \* C2F thread: its buffer, batches taken
  sem_free, sem_available,       \* batch window, batches to send
  answered                       \* batches answered to the GPU

fields == <<head_, tail_, full_, buf_>>
wVars == <<wfull, written>>
rVars == <<output_buf, read>>
semVars == <<sem_free, sem_available, answered>>
vars == <<fields, pc, reg, wVars, rVars, semVars>>

Thread == {"G2C", "C2F"}

Init ==
  /\ head_ = 0 /\ tail_ = 0 /\ full_ = FALSE /\ buf_ = RingInit.buf_
  /\ pc = [t \in Thread |-> IF t = "G2C" THEN "window" ELSE "available"]
  /\ reg = [t \in Thread |-> 0]
  /\ wfull = FALSE /\ written = 0 /\ output_buf = NoBatch /\ read = 0
  /\ sem_free = batch_window_size /\ sem_available = 0 /\ answered = 0

Goto(t, l) == pc' = [pc EXCEPT ![t] = l]

-----------------------------------------------------------------------------
(* tail_ = (tail_ + 1) % num_slots_, in both methods: the load, the store.  *)

load_tail(t) ==
  /\ pc[t] = "load_tail" /\ Goto(t, "store_tail")
  /\ reg' = [reg EXCEPT ![t] = tail_]
  /\ UNCHANGED <<fields, wVars, rVars, semVars>>

store_tail(t) ==
  /\ pc[t] = "store_tail"
  /\ Goto(t, IF t = "G2C" THEN "store_head" ELSE "send")
  /\ tail_' = next_slot(reg[t])
  /\ UNCHANGED <<reg, head_, full_, buf_, wVars, rVars, semVars>>

-----------------------------------------------------------------------------
(* G2C thread: sem_wait, write_slot of batch number `written`, sem_post *)

\* Mutant: the G2C thread does not wait for the batch window.
Bug_W_window ==
  /\ pc["G2C"] = "window" /\ written < MaxBatch
  /\ Goto("G2C", "copy")
  /\ UNCHANGED <<reg, wVars, fields, rVars, semVars>>

W_window ==
  /\ pc["G2C"] = "window" /\ written < MaxBatch /\ sem_free > 0
  /\ sem_free' = sem_free - 1
  /\ Goto("G2C", "copy")
  /\ UNCHANGED <<reg, wVars, fields, rVars, sem_available, answered>>

W_copy_begin ==
  /\ pc["G2C"] = "copy" /\ Goto("G2C", "copying")
  /\ buf_' = [buf_ EXCEPT ![head_] = Torn]
  /\ UNCHANGED <<reg, wVars, head_, tail_, full_, rVars, semVars>>

W_copy_end ==
  /\ pc["G2C"] = "copying" /\ Goto("G2C", "test_full")
  /\ buf_' = [buf_ EXCEPT ![head_] = written]
  /\ UNCHANGED <<reg, wVars, head_, tail_, full_, rVars, semVars>>

W_test_full ==
  /\ pc["G2C"] = "test_full"
  /\ Goto("G2C", IF full_ THEN "load_tail" ELSE "store_head")
  /\ UNCHANGED <<reg, wVars, fields, rVars, semVars>>

W_store_head ==
  /\ pc["G2C"] = "store_head" /\ Goto("G2C", "compare")
  /\ head_' = next_slot(head_)
  /\ UNCHANGED <<reg, wVars, tail_, full_, buf_, rVars, semVars>>

\* full_ = head_ == tail_: the comparison, then the store.
W_compare ==
  /\ pc["G2C"] = "compare" /\ Goto("G2C", "store_full")
  /\ wfull' = (head_ = tail_)
  /\ UNCHANGED <<reg, written, fields, rVars, semVars>>

W_store_full ==
  /\ pc["G2C"] = "store_full" /\ Goto("G2C", "post")
  /\ full_' = wfull
  /\ UNCHANGED <<reg, wVars, head_, tail_, buf_, rVars, semVars>>

W_post ==
  /\ pc["G2C"] = "post" /\ Goto("G2C", "window")
  /\ sem_available' = sem_available + 1
  /\ written' = written + 1
  /\ UNCHANGED <<reg, wfull, fields, rVars, sem_free, answered>>

write_slot_steps == \/ W_copy_begin \/ W_copy_end \/ W_test_full
                    \/ W_store_head \/ W_compare \/ W_store_full

-----------------------------------------------------------------------------
(* C2F thread: sem_wait, read_slot into output_buf, send the batch *)

R_available ==
  /\ pc["C2F"] = "available" /\ sem_available > 0
  /\ sem_available' = sem_available - 1
  /\ Goto("C2F", "test_full")
  /\ UNCHANGED <<reg, rVars, fields, wVars, sem_free, answered>>

\* empty() loads full_ first and compares the indices only when it is false.
R_test_full ==
  /\ pc["C2F"] = "test_full"
  /\ Goto("C2F", IF full_ THEN "copy" ELSE "test_empty")
  /\ UNCHANGED <<reg, rVars, fields, wVars, semVars>>

R_test_empty ==
  /\ pc["C2F"] = "test_empty"
  /\ Goto("C2F", IF head_ = tail_ THEN "send" ELSE "copy")
  /\ UNCHANGED <<reg, rVars, fields, wVars, semVars>>

R_copy_begin ==
  /\ pc["C2F"] = "copy" /\ Goto("C2F", "copying")
  /\ reg' = [reg EXCEPT !["C2F"] = tail_]
  /\ output_buf' = buf_[tail_]
  /\ UNCHANGED <<read, fields, wVars, semVars>>

R_copy_end ==
  /\ pc["C2F"] = "copying" /\ Goto("C2F", "clear_full")
  /\ output_buf' = IF buf_[reg["C2F"]] = output_buf THEN output_buf ELSE Torn
  /\ UNCHANGED <<reg, read, fields, wVars, semVars>>

\* Mutant: read_slot returns without advancing tail_.
Bug_R_clear_full ==
  /\ pc["C2F"] = "clear_full" /\ Goto("C2F", "send")
  /\ full_' = FALSE
  /\ UNCHANGED <<reg, rVars, head_, tail_, buf_, wVars, semVars>>

R_clear_full ==
  /\ pc["C2F"] = "clear_full" /\ Goto("C2F", "load_tail")
  /\ full_' = FALSE
  /\ UNCHANGED <<reg, rVars, head_, tail_, buf_, wVars, semVars>>

\* The batch in output_buf is sent query by query.
R_send ==
  /\ pc["C2F"] = "send" /\ Goto("C2F", "available")
  /\ read' = read + 1
  /\ UNCHANGED <<reg, output_buf, fields, wVars, semVars>>

read_slot_steps == \/ R_test_full \/ R_test_empty \/ R_copy_begin
                   \/ R_copy_end \/ R_clear_full

-----------------------------------------------------------------------------
\* The F2C_C2G thread answers a batch that was sent and posts the window.
Answer ==
  /\ answered < read
  /\ answered' = answered + 1
  /\ sem_free' = sem_free + 1
  /\ UNCHANGED <<fields, pc, reg, wVars, rVars, sem_available>>

\* The GPU has sent all its batches and they are all answered.
Idle == answered = MaxBatch /\ UNCHANGED vars

Next == \/ W_window \/ write_slot_steps \/ W_post
        \/ R_available \/ read_slot_steps \/ R_send
        \/ \E t \in Thread : load_tail(t) \/ store_tail(t)
        \/ Answer \/ Idle

Spec == Init /\ [][Next]_vars

-----------------------------------------------------------------------------
(* Properties *)

WriterPC == {"window", "copy", "copying", "test_full", "load_tail",
             "store_tail", "store_head", "compare", "store_full", "post"}
ReaderPC == {"available", "test_full", "test_empty", "copy", "copying",
             "clear_full", "load_tail", "store_tail", "send"}

\* The fields, the registers and the semaphores have their types: both indices
\* stay inside the array and no semaphore goes below zero.
TypeOK ==
  /\ head_ \in Slots /\ tail_ \in Slots /\ full_ \in BOOLEAN
  /\ buf_ \in [Slots -> Nat \cup {NoBatch, Torn}]
  /\ pc \in [Thread -> WriterPC \cup ReaderPC]
  /\ pc["G2C"] \in WriterPC /\ pc["C2F"] \in ReaderPC
  /\ reg \in [Thread -> Slots]
  /\ wfull \in BOOLEAN /\ written \in 0 .. MaxBatch
  /\ output_buf \in Nat \cup {NoBatch, Torn}
  /\ read \in Nat
  /\ sem_free \in Nat /\ sem_available \in Nat /\ answered \in Nat

\* The k-th batch the C2F thread forwards is the k-th batch the GPU sent, whole:
\* not skipped, not repeated, not overwritten, not read half-written.
BatchesReadInOrder == pc["C2F"] = "send" => output_buf = read

\* Batches handed over to the C2F thread, and those announced but not handed
\* over, read from the slots behind tail_.
handed == read + (IF pc["C2F"] \in {"copying", "clear_full", "load_tail",
                              "store_tail", "send"} THEN 1 ELSE 0)
ahead == IF pc["C2F"] \in {"copying", "clear_full", "load_tail", "store_tail"}
         THEN 1 ELSE 0
announced == [i \in 1 .. (written - handed) |->
                buf_[(tail_ + ahead + i - 1) % num_slots_]]

BQ == INSTANCE BatchQueue WITH
        Capacity <- batch_window_size, queue <- announced,
        put <- written, taken <- output_buf

\* The ring buffer under the coordinator's semaphores implements the FIFO
\* queue: sem_post of a batch is Put, the copy out of its slot is Get.
ImplementsQueue == BQ!Spec

-----------------------------------------------------------------------------
(* A claim of a comment that the code does not meet *)

\* "batch_window_size is used to track how many computed batches are not sent to
\* FPGA yet, determining when the C2F thread can fetch data to send": a C2F thread
\* that was let through fetches a batch, and does not send again the one an
\* earlier call of read_slot has left in output_buf.
NotForwardedAgain ==
  [][pc["C2F"] # "send" /\ pc'["C2F"] = "send" /\ output_buf \in Nat
       => pc["C2F"] # "test_empty"]_vars
=============================================================================
