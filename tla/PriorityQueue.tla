----------------------------- MODULE PriorityQueue -----------------------------
(***************************************************************************)
(* The systolic priority queue of the accelerator (priority_queue_L1.hpp;  *)
(* priority_queue_L2.hpp is the same code for another element type): one   *)
(* input per cycle enters at queue[0], two rounds of compare-and-swap move *)
(* smaller distances to the right, and after iter_num inputs the registers *)
(* queue[1..queue_size] are the answer of the query.                       *)
(*                                                                         *)
(* An entry carries, besides its distance, the query it was computed for   *)
(* and its position in that query's input stream: its identity.            *)
(***************************************************************************)
EXTENDS CompareSwap

CONSTANTS LARGE_NUM,    \* the distance registers are initialised with
          Dist,         \* the distances inputs can have
          MaxIter,      \* bound: inputs per query
          MaxQuery      \* bound: queries, over all batches

ASSUME PriorityQueueAssumption ==
  /\ queue_size \in Nat \ {0}
  /\ LARGE_NUM \in Int
  /\ Dist \subseteq Int
  /\ MaxIter \in Nat /\ MaxQuery \in Nat

Entry == [query : Nat, pos : Nat, dist : Int]

VARIABLES pc, left, query_id, iter, iter_num, queue,
          inserted,   \* history: the entries read for the current query
          s_output    \* the registers written to the output stream last

vars == <<pc, left, query_id, iter, iter_num, queue, inserted, s_output>>

-----------------------------------------------------------------------------
\* The registers start uninitialised; InitQueue writes every distance before
\* one is compared, so what they hold before the first query does not matter.
Init ==
  /\ pc = "header" /\ left = 0 /\ query_id = 0 /\ iter = 0 /\ iter_num = 0
  /\ queue = [i \in Idx |-> [query |-> 0, pos |-> 0, dist |-> LARGE_NUM]]
  /\ inserted = {} /\ s_output = queue

\* A batch header: its batch_size queries follow, or the kernel terminates.
ReadHeader ==
  /\ pc = "header"
  /\ \/ /\ \E batch_size \in 0 .. MaxQuery - query_id : left' = batch_size
        /\ pc' = IF left' = 0 THEN "header" ELSE "init"
     \/ pc' = "done" /\ UNCHANGED left
  /\ UNCHANGED <<query_id, iter, iter_num, queue, inserted, s_output>>

\* Mutant: the distances are not reset between queries.
Bug_InitQueue ==
  /\ pc = "init" /\ pc' = "insert"
  /\ iter_num' \in 0 .. MaxIter
  /\ iter' = 0 /\ query_id' = query_id + 1
  /\ inserted' = {}
  /\ UNCHANGED <<left, queue, s_output>>

\* Start of a query: only the distances are reset, the rest of a register
\* keeps what the previous query left there.
InitQueue ==
  /\ pc = "init" /\ pc' = "insert"
  /\ iter_num' \in 0 .. MaxIter
  /\ iter' = 0 /\ query_id' = query_id + 1
  /\ queue' = [i \in Idx |-> [queue[i] EXCEPT !.dist = LARGE_NUM]]
  /\ inserted' = {}
  /\ UNCHANGED <<left, s_output>>

Insert(d) ==
  LET e == [query |-> query_id, pos |-> iter, dist |-> d]
  IN  /\ pc = "insert" /\ iter < iter_num
      /\ iter' = iter + 1
      /\ inserted' = inserted \cup {e}
      /\ queue' = compare_swap_array_step_B(
                    compare_swap_array_step_A([queue EXCEPT ![0] = e]))
      /\ UNCHANGED <<pc, left, query_id, iter_num, s_output>>

\* Mutant: the loop over the queries of a batch runs once too often.
Bug_WriteOutput ==
  /\ pc = "insert" /\ iter = iter_num
  /\ s_output' = queue
  /\ left' = left - 1
  /\ pc' = IF left = 0 THEN "header" ELSE "init"
  /\ UNCHANGED <<query_id, iter, iter_num, queue, inserted>>

\* After the last input the registers go to the output stream.
WriteOutput ==
  /\ pc = "insert" /\ iter = iter_num
  /\ s_output' = queue
  /\ left' = left - 1
  /\ pc' = IF left = 1 THEN "header" ELSE "init"
  /\ UNCHANGED <<query_id, iter, iter_num, queue, inserted>>

Terminated == pc = "done" /\ UNCHANGED vars

Next == \/ ReadHeader \/ InitQueue
        \/ \E d \in Dist : Insert(d)
        \/ WriteOutput \/ Terminated

Spec == Init /\ [][Next]_vars

-----------------------------------------------------------------------------
(* Properties *)

\* The registers, the counters and the history have their types.
TypeOK ==
  /\ pc \in {"header", "init", "insert", "done"}
  /\ left \in Nat /\ query_id \in Nat /\ iter \in Nat /\ iter_num \in Nat
  /\ queue \in [Idx -> Entry] /\ s_output \in [Idx -> Entry]
  /\ inserted \subseteq Entry

\* No input the queue has dropped is closer than a register it kept, after
\* every single insertion and for every order of the inputs, although the two
\* rounds of an insertion do not sort the registers.
KeepsSmallest ==
  \A e \in inserted :
    (\A i \in Kept : queue[i] # e) => \A i \in Kept : queue[i].dist <= e.dist

\* An input occupies at most one register.
NoDuplicate ==
  \A i, j \in Kept : i # j /\ queue[i] \in inserted => queue[i] # queue[j]

\* A register with a real distance belongs to the query being answered: what
\* the previous query left behind only shows with distance LARGE_NUM.
NoStaleRegister ==
  pc = "insert" =>
    \A i \in Kept : queue[i] \in inserted \/ queue[i].dist = LARGE_NUM

\* An odd register is at least as far as every register to its right: what
\* holds between two insertions in place of full order.
OddDominates ==
  \A i, j \in Kept : i % 2 = 1 /\ i < j => queue[i].dist >= queue[j].dist
=============================================================================
