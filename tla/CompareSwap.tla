------------------------------ MODULE CompareSwap ------------------------------
(***************************************************************************)
(* The registers of a systolic priority queue and one insertion: two       *)
(* rounds of compare-and-swap that move smaller distances to the right.    *)
(***************************************************************************)
EXTENDS Integers

CONSTANT queue_size   \* registers kept; register 0 holds the input

Idx == 0 .. queue_size
Kept == 1 .. queue_size

\* compare_swap(array, a, a + 1): the smaller of the two goes to the right.
LeftOf(x, y) == IF x.dist < y.dist THEN y ELSE x
\* Mutant: on equal distances the comparison is not the opposite of LeftOf's.
Bug_RightOf(x, y) == IF x.dist <= y.dist THEN x ELSE y
RightOf(x, y) == IF x.dist < y.dist THEN x ELSE y

\* Mutant: round A leaves out all but its first pair.
Bug_step_A(array) ==
  [i \in Idx |-> CASE i = 0 -> LeftOf(array[0], array[1])
                   [] i = 1 -> RightOf(array[0], array[1])
                   [] OTHER -> array[i]]

\* The swaps of one round touch disjoint pairs.  Round A: (0,1), (2,3), ...
compare_swap_array_step_A(array) ==
  [i \in Idx |->
     IF i % 2 = 0
     THEN IF i + 1 \in Idx THEN LeftOf(array[i], array[i + 1]) ELSE array[i]
     ELSE RightOf(array[i - 1], array[i])]

\* Mutant: round B leaves out its first pair.
Bug_step_B(array) ==
  [i \in Idx |->
     IF i <= 2 THEN array[i]
     ELSE IF i % 2 = 1
     THEN IF i + 1 \in Idx THEN LeftOf(array[i], array[i + 1]) ELSE array[i]
     ELSE RightOf(array[i - 1], array[i])]

\* Round B: (1,2), (3,4), ...; queue[0] takes no part.
compare_swap_array_step_B(array) ==
  [i \in Idx |->
     IF i % 2 = 1
     THEN IF i + 1 \in Idx THEN LeftOf(array[i], array[i + 1]) ELSE array[i]
     ELSE IF i = 0 THEN array[i] ELSE RightOf(array[i - 1], array[i])]
=============================================================================
