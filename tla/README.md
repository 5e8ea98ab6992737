# A TLA+ model of the disaggregated PQ search system

The repository (FPGA-PQ-disaggregated-memory) searches a product-quantised vector
index whose codes live in the memory of several network-attached FPGAs. A GPU
program sends batches of queries to a CPU coordinator; the coordinator broadcasts
each query to every FPGA, collects one result per FPGA and query, and answers the
GPU. A CPU program, `FPGA_simulator.cpp`, stands in for an FPGA with the same
protocol; the accelerator proper is a Vitis HLS kernel.

This directory holds TLA+ modules of the parts that carry the protocol and the
core algorithm, the TLC configurations that check them, and TLAPS proofs.
`PROJECT.json` maps every definition to the lines it models.

## 1. Inventory

| Component | State | Operations | Interacts with |
|---|---|---|---|
| CPU coordinator, `CPU_programs/CPU_cooridnator_for_GPU_FPGA.cpp` | 3 start flags, 3 counting semaphores, ring buffer, conversion buffer, result and answer buffers, loop counters of 3 threads | open connections, receive a batch, send a header, send a query, receive a result, answer a batch | GPU and FPGAs over TCP; its threads with one another through flags, semaphores and the ring buffer |
| FPGA simulator, `CPU_programs/FPGA_simulator.cpp` | 2 start flags, 2 semaphores, the header array, loop counters of 2 threads | open connections, receive a header or query, send a result | coordinator over TCP |
| Ring buffer, `CPU_programs/ring_buffer.hpp` | `head_`, `tail_`, `full_`, slots | `write_slot`, `read_slot`, `reset`, `empty`, `full`, `size`, `capacity` | written by the G2C thread, read by the C2F thread, no lock |
| Systolic priority queue, `priority_queue_L1.hpp`, `priority_queue_L2.hpp` | `queue_size + 1` registers | reset, insert (two compare-and-swap rounds), write out | streams of the accelerator |
| Index server, `CPU_index_server.cpp` | as the coordinator, with an index scan in place of the GPU | scan, send, receive | FPGAs over TCP |
| Accelerator front end, `accelerator_D1024_M64_batch.cpp`, `helpers.hpp`, `DRAM_utils.hpp`, `ADC.hpp` | FIFO streams, loop counters and local buffers of some 20 processes | decode network words, look up cells, read PQ codes from DRAM, sum distances with a lookup table | network glue in, hierarchical queue out, LUT construction beside |
| LUT construction, `LUT_construction.hpp` | streams, shares of the vectors and tables in each sub-PE | deal out vectors, compute columns, gather rows | front end, through streams |
| Hierarchical priority queue, `hierarchical_priority_queue.hpp` | streams, registers of all level-1 queues and of the level-2 queue, address tables | split, insert, look up, merge, answer | ADC PEs in, network output out |
| Network glue, `communication.hpp` and the output side of the kernel | session number, packet lengths, tokens of the protected receive | listen, open, receive, cut answers into packets, announce and send | TCP stack of the FPGA (vendored), front end |
| TCP stack of the FPGA (vendored), `fpga-network-stack/hls/toe` | receive buffer, state of the receive engine, bytes sent and not acknowledged | keep or drop a segment, notify, process an acknowledgement, accept or refuse a packet | network glue; the hosts over TCP |
| Host launchers, scripts, rest of the vendored network stack, old programs | none of the protocol's | | |

What is hard in this code, and why tests hardly reach it:

- **Interleaving.** Three coordinator threads, two threads per FPGA and the GPU
  run concurrently. Every wait is a semaphore, a spin on a plain flag, or a
  blocking socket call, and the sockets' buffers are finite.
- **Unlocked sharing.** The ring buffer's mutex is commented out. `head_`,
  `tail_`, `full_` and the slots are loaded and stored by two threads.
- **Implicit framing and matching.** Headers and queries share a byte stream with
  no tags; results carry no query number. Both sides must count alike, across
  batches and FPGAs, also after a failed call.
- **Start-up order.** Who listens before whom connects is decided by the
  scheduler, not by the programs.
- **Partial failure.** A failed `send()` or `read()` returns from the middle of a
  loop over the FPGAs, and the caller carries on.
- **Limits.** A window as large as the ring buffer; a window of one.
- **Dataflow.** The accelerator's processes block on bounded streams and run one loop
  each over batches, queries, cells and rounds. Every count must agree with the
  producer's, for every query, or a later query is cut in the wrong place or the
  whole region stalls; C simulation, with its unbounded streams, shows neither.
- **Unmarked boundaries.** The TCP stack delivers segments of any length; the kernel
  passes words on as if they were aligned, and packs answers into packets of a size
  given on the host's command line.
- **Back-pressure.** One engine of the TCP stack takes in segments and
  acknowledgements alike, and waits while the kernel does not take its notifications: a
  slow input can stop the output that would relieve it.
- **Algorithmic.** The priority queue is never sorted, only partially ordered, and
  its registers are only partly reset between queries.

What makes each component correct: the coordinator never has more queries in an
FPGA than the query window, sends every query of every batch once and in order,
matches results to queries, and ends; the simulator stays in step with the
stream; the ring buffer is a FIFO queue; the priority queue keeps the smallest
distances of its own query; the front end scans each vector of each probed cell once
with the table of its own query and cell; the selection answers each query with
vectors of that query and misses one only where its level-1 queue overflowed or TOPK others are as close; the glue
passes words and answers on whole, in order, announces only packets it has, and every query is answered if
the host does not send further ahead than the kernel's streams hold. `PROJECT.json`, "hazards", lists the places where
each of these could go wrong, with the properties that would show it.

## 2. Modules

| Module | Models | Notes |
|---|---|---|
| `Network` | the TCP connections, as the two programs use them (external) | one message per header, query, result or batch; bounded buffers; resets |
| `CPUCoordinator` | class `CPUCoordinator` | one action per wait, post, send, receive of each thread |
| `FPGARetriever` | class `FPGARetriever` of the simulator | one process per FPGA |
| `RingBuffer` | the ring buffer's methods as operators on a record | used atomically by `CPUCoordinator` |
| `DisaggregatedSearch` | the composition, with the GPU (external) | properties of the whole system |
| `IndexServer` | class `CPUCoordinator` of `CPU_index_server.cpp` | the index thread takes the place of the G2C thread |
| `IndexSearch` | the composition of `IndexServer` with the FPGAs | also the abstract specification of what the coordinator does to its FPGAs |
| `CoordinatorRefinement` | the mapping under which `DisaggregatedSearch` implements `IndexSearch` | |
| `RingBufferSequential` | any sequence of calls of the ring buffer's methods, beside the queue they should implement | |
| `RingBufferRace` | `write_slot` and `read_slot` load by load and store by store, driven by the coordinator's semaphores | |
| `BatchQueue` | abstract specification: a FIFO queue of batches | implemented by `RingBufferRace` |
| `CompareSwap` | the two rounds of compare-and-swap on a set of registers | used by `PriorityQueue` and by both levels of `HierarchicalQueue` |
| `PriorityQueue` | `insert_wrapper` of the priority queue over consecutive queries | level 1 and level 2 are the same code |
| `Dataflow` | what all processes of the accelerator share: bounded streams, and the loop over the batch headers | extended by the next four |
| `Scan` | from the network words to the results of the compute PEs | LUT construction is one process |
| `LUTConstruction` | dispatchers, sub-PEs, gathering | |
| `HierarchicalQueue` | splitters, level-1 queues, both lookups, merge, level-2 queue | |
| `NetworkGlue` | the kernels between the accelerator and the TCP stack | stack and host external; the search is one process |
| `StackCoupling` | `NetworkGlue` on a stack whose receive and transmit sides depend on each other: receive engine, acknowledgements, space for answers | extends `NetworkGlue` |
| `RingBuffer_proofs` | theorems about the ring buffer, its methods called one at a time and run unlocked | extends `RingBufferSequential` and `RingBufferRace` |
| `DisaggregatedSearch_proofs` | theorems about the whole system: types, semaphores, set-up, framing, answers, queries, batches, the end, and the refinement | extends `CoordinatorRefinement` |
| `IndexSearch_proofs` | theorems about the index server and its FPGAs | |
| `PriorityQueue_proofs` | theorems about the registers | |
| `NetworkGlue_proofs` | theorems about the accelerator's network kernels | extends `StackCoupling` |
| `Scan_proofs` | theorems about the accelerator's front end | |
| `LUTConstruction_proofs` | theorems about the construction of the lookup tables | |
| `DataflowLemmas` | lemmas about streams, sequences and division, and induction | extended by `NetworkGlue_proofs`, `Scan_proofs` and `LUTConstruction_proofs` |
| `MC*` | instances for TLC | |

### State and actions against the code

*Coordinator.* Variables keep the names of the members. `pcG`, `pcC`, `pcF` are the
program counters of `thread_G2C`, `thread_C2F`, `thread_F2C_C2G`; `g2c_batch_id`,
`c2f_batch_id`, `f2c_batch_id` and the `query_id`s are their loop variables, and
`c2f_n`, `f2c_n` the positions in the loops over the FPGAs. An action runs from one
blocking or shared access to the next. The loop over the FPGAs in a broadcast is one
action per `send()`, since the thread can block or fail at each. The loop variable
`C2F_batch_id` of `thread_C2F` shadows the member of the same name ("signal until what
batch of data has been sent to FPGA", line 106), which therefore stays -1; nothing reads it.

*Data.* The payload of batch `b` is the number `b`. A result is the number of the
FPGA and the position at which it was sent. Memory nothing was written to holds
`NoBatch` or `NoResult`.

*Simulator.* `buf_header` is the sequence of headers received; `C2F_batch_id` of the
code is its length minus one. The two threads share it through
`sem_available_batches`.

*Network.* The byte loops around `send()` and `read()` move a whole message or end
with -1, so a message is atomic. `send()` blocks when `SockCap` messages are
unread. `Reset` breaks a connection and drops a suffix of what is in flight; the
coordinator's next call on it returns -1 and the one after that raises SIGPIPE
(`send`), which no handler catches, or returns 0 (`read`). A `connect()` nobody
listens for leaves an unconnected socket, on which the first `send()` raises SIGPIPE.

*Spins on plain flags.* `start_G2C`, `start_C2F`, `start_F2C` are plain ints. The
programs are built without optimisation, so every iteration re-reads them: the spin
is a guard on the flag.

*Index server.* The program repeats the coordinator's C2F and F2C threads without the
GPU, the ring buffer and the answer. What the scan finds is dropped, and the vectors it
sends are memory nothing has written (both are TODOs in the code), so a batch carries
no data and a query is its position in the batch. `CoordinatorRefinement` maps
receiving a batch to scanning it, strips the payload from the messages, and hides the
steps that read the ring buffer and answer the GPU.

*Ring buffer.* In `RingBufferRace` each load and store of `head_`, `tail_`, `full_` is a
step, in the order of the source; each thread has a program counter and a register for
the value loaded. A slot that is copied while being written becomes `Torn`. `Answer` stands
for everything between the C2F thread and the F2C thread's post of the batch window.

*Priority queue.* Round A swaps the disjoint pairs (0,1), (2,3), ... and round B
(1,2), (3,4), ..., so each round is a function from registers to registers. An
entry's identity (query and position) is a model-only tag that makes loss,
duplication and staleness visible; the code carries identifiers instead.

*Accelerator.* A process of a dataflow region is an `hls` function. All of them run the
same loop, `while (true) { read the batch header; if terminate, pass it on and stop; for
each query ... }`, which `Dataflow` has once (`read_header`, `QueryDone`); the body of each
process is in its module, and `at[p]` holds its place in the body and its local variables.
What a step writes is a function from streams to values; `To` and `++` build it, and are
the modules' own because the prover does not know TLC's `:>` and `@@`.
A step is one iteration of the innermost pipelined loop: such an iteration stalls
until every stream it touches is ready, so it reads and writes them at once. A stream is a
sequence bounded by its `#pragma HLS stream depth`; the loops around are the counters
in `at`. The computation of a distance is not done: a distance is the set of table rows
(`Scan`) or differences (`LUTConstruction`) it was summed over, which says more than a
number would. A vector code is its place in DRAM. What a table's row holds is
the query and centre it was built from. In `LUTConstruction` the array `L1_dist` has
`D / M` entries and is indexed past its end for every sub-vector of a PE but the first;
`wraps` says which circuit was built, one where the index wraps round or one where such
an access is undefined.

In `HierarchicalQueue` the registers of the queues are initialised by distance only, so
a register no input reached carries a cell and offset of an earlier query, or at first of no
query: Init chooses them. A lookup outside an array returns `Undefined`.

*Regions.* The product of front end and selection is out of TLC's reach, so each abstracts
the other: `Scan` ends at unbounded result streams, `HierarchicalQueue` begins with result
streams it is given whole, and `NetworkGlue` has the search as one process. The streams between two
regions are unbounded at the region that is modelled; the bounds inside are 1.

*Network glue.* Lengths are in units, `WORD` to a 512-bit word, so that a segment can end
inside a word. The accelerator calls `recvData`; the call of `recvDataSafe` beside it is commented out
(`accelerator_D1024_M64_batch.cpp`:313-318), and the kernel that has it is `hls_recv_send_slow.cpp`. Both
are modelled, as are the opening of the
outgoing connection, the announcement of a packet, its refusal (`error` 2, announced
again), and a torn-down connection (`error` 1, polled for ever).

In `NetworkGlue` the stack does what it likes: it notifies, accepts and refuses at any time. That is
right for what must never happen, and says too much for what must happen. `StackCoupling` adds the two things
that tie the stack's output to its input. `rxTcpFSM` handles the segments of all connections one after
the other: a data segment in order, with room in the receive buffer, is notified to the kernel
(`rxEng2rxApp_notification`, 4 deep), and when that stream is full the function waits in the
write; other segments are dropped and sent again by the host. An acknowledgement is a segment, too, and what it
acknowledges is what `tasi_metaLoader` may accept again. `engine` is the state of `rxTcpFSM`, `acknowledged` the
number of packets whose acknowledgement it has processed. Every step of `StackCoupling` is a step of
`NetworkGlue` or changes none of its variables (theorem `Coupling`), so what is proved of the kernels holds here.

## 3. Runs

Passing runs:

| Run | Instance | Shows |
|---|---|---|
| `system` | 2 FPGAs, 3 batches of 2 queries, both windows 2, ring of 3 slots, 1 message per socket buffer; 46,678 states | types, query window, order, matching, start-up, clean end, termination; and, as a refinement, that every behaviour of the coordinator is one of the index server: the FPGAs cannot tell the two hand-written programs apart |
| `resets` | 2 FPGAs, 3 batches of 2 queries, query window 2, batch window 1, ring of 1 slot, 2 connection resets, any start-up order; 1.72 million states, about 40 s | the windows (of which the batch window binds here) and the framing survive failures; what a failure can cost, in lost answers and in batches sent again, is bounded; with no more slots than the window needs, none is overwritten |
| `index_server` | 2 FPGAs, 3 batches of 2 queries, batch window 2, query window 1, one reset; 68,980 states | the scan and the sending stay within their windows, framing survives a failure, lost answers are bounded; without a failure answers match queries and everything ends. The comment at lines 810-812 of the coordinator expects that a query window of 1 may deadlock; the query-at-a-time protocol does not |
| `ring_race` | 4 slots, window 3, 9 batches; 2,002 states | the unlocked buffer delivers every batch whole and in order, and implements `BatchQueue` |
| `priority_queue` | 4 registers, distances 1..3 with `LARGE_NUM` = 3, up to 5 inputs, 2 queries; 216,772 states | keeps the smallest, no duplicate, nothing of the previous query |
| `select` | 1 bank with 1 PE (2 level-1 queues of 2 registers), `TOPK` 3, 3 queries in 1 or 2 batches, streams of depth 1; 291,440 states | answers belong to their query, a vector is missed only if `TOPK` answers are at least as close or its own level-1 queue overflowed (which happens in the first query), and every query is answered |
| `scan` | 1 bank with 2 PEs, 2 cells of 3 and 0 vectors, both variants of the PE, streams of depth 1; 172,190 states | each vector of each probed cell is scanned exactly once, with its own table, its offset names its code, and every batch ends |
| `lut` | `D` 8, `M` 4, 2 sub-PEs, 2 rows, packets of 6 floats, streams of depth 1; 97,140 states | every row that leaves holds the distances of its own query and cell in the order of the columns (the first column of each PE only, where the out-of-bounds index is not taken to wrap), and every batch ends |
| `glue` | `StackCoupling`: words of 2 units, queries of 2 words, answers of 4 words, 2 or 3 queries, 1 or 2 ahead, a stream of 2 words to the search and the others 1 deep, receive buffer of 4 units, space for 3 words of answers, six inputs; 182,374 states, about 50 s | words and answers pass in order, a packet is announced only with its data at hand, the protected receive has one packet in flight, and answers arrive under the conditions below |

Runs that refute a statement of the repository:

| Run | Statement | What happens |
|---|---|---|
| `network_order` | "Network order" in `FPGA_simulator.cpp`:7-10 | the simulator's F2C thread connects before its C2F thread listens; the coordinator connects back at once and can be refused |
| `ring_full` | the batch window decides "when the C2F thread can fetch data to send", coordinator lines 130-131 | with as many batches in the window as slots, the reader can see `head_ == tail_` before `full_` is stored; `read_slot` then copies nothing, and the batch that the C2F thread forwarded before is forwarded again under the next number |
| `recvdata_deadlock` | "resolve deadlock in the case that input data rate >> FPGA query processing rate", `accelerator_D1024_M64_batch.cpp`:311-312 | the comment stands above a call of `recvDataSafe` that is commented out, and `recvData` is called. With a host 7 queries ahead and streams of depth 1 (257,912 states, about 50 s): the search waits for its answers to be sent, words fill the streams back to the notifications, the receive engine waits to write one and processes no acknowledgement; no answer is accepted any more |

### Bounds, and why they are enough

- 2 FPGAs: the smallest number at which a broadcast can stop half-way and the loops
  over FPGAs have a first and a last iteration.
- 2 queries per batch, 3 batches: a first, a middle and a last batch; with windows of
  2 the G2C thread runs a whole batch ahead, blocks on the window, and the ring
  indices wrap in the ring-buffer runs.
- `SockCap` = 1: the tightest buffer, where `send()` blocks most, so that a wait
  cycle through the sockets would appear. A larger one only removes waits.
- `MaxResets` = 2: a second failure while the first is being handled.
- Ring: the number of batches exceeds twice the number of slots, so both indices wrap
  twice. The code has 10 slots; only the relation between window and slots matters,
  and the proofs are for any number.
- Priority queue: an even size, one input more than there are registers, ties, and a
  distance equal to `LARGE_NUM`; the proofs are for any size.

- Selection: a query with more results than registers in which a level-1 queue overflows and loses one of the three closest, one with none, one with fewer
  than `TOPK`, padding, ties, and a batch after a batch. Two banks are out of reach; the
  bank only selects an array.
- Scan: an empty cell before one with vectors, a cell with an odd number of vectors
  (padding in the last round), a cell probed twice with two table buffers, a query with
  nothing to scan.
- Streams of depth 1 are the tightest: a region that does not stall with them does not with
  the code's 2 to 512, with one exception stated below.
- `lut`: two sub-vectors per PE, two elements per sub-vector, packets that leave padding.
- `glue`: segments that end inside a word, that hold one word and that hold a whole query;
  packet sizes that divide an answer and that do not; counts that are met
  and not; one notification of length 0; one refused packet; a connection that cannot be
  opened.

`ScanEnds` holds for queries whose number of probed cells fits the streams: the number of
results of a query is written after its last cell, while results wait for it, so with
more than 513 probed cells (the stream depth of 512 and one in hand) and long cells the
region deadlocks (`DRAM_utils.hpp`:109). The inputs of the run stay within their own, smaller limit.

`AnswersArrive` of `glue` claims answers under these conditions (`Answerable`, `InputFits`):

- The packet size divides an answer and does not exceed the space for answers. The hosts in the repository
  pass a packet size of 1; the comment "or 64, 16, etc." (`host.cpp`:497) names sizes with
  which the last words of a 21-word answer wait for the next query.
- The outgoing connection opened.
- No zero-length notification met the protected receive: it would use up the token of
  `recvDataSafe` (1651-1671). The stack sends one at a close.
- Segments end where words do.
- The queries the host is ahead, but for the one the search is at, fit `s_kernel_network_in`, in the
  accelerator 2048 words. A query of the kernel with D = 1024 is a header, `nprobe / 16` words of cell numbers,
  64 words of query and 64 per probed cell; with up to 30 cells one such query fits, which allows a window of
  2. The condition is sufficient: what the other streams hold comes on top. With a window of 1 it
  always holds.

The run `recvdata_deadlock` shows that the last condition is needed, as the comments at
`communication.hpp`:1833-1834 and `hls_recv_send_slow.cpp`:141 say of `recvData`. `recvDataSafe` does
not help here, against line 1835 ("This version solved the problem", though the comment goes on that it
is not proved correct): it leaves notifications in the stack's stream instead of passing words on, so that
stream fills even earlier, and TLC finds the same standstill when `MCAhead` has `safe` TRUE. The bounds of
that run: 7
queries of 2 words fill the streams (1 deep each), the receive buffer is not full (8 units), and 3 words
of answers may be unacknowledged. In the code the receive buffer is a FIFO of 1024 words that takes a segment
while fewer than 649 are in it (`rx_engine.cpp`:1257, `tcp_stack.sv`:444, `RX_DDR_BYPASS` is the default);
a segment it refuses does not stop the engine. Notifications and read requests find some twenty to thirty
places in streams and register slices. So with segments of the largest size (4096 bytes, 64
words) the buffer refuses first, and with short ones, below some 20 words, the notifications fill first.
In `glue` both happen: segments are refused, and notifications fill.

Deadlock is checked in every run except `resets`, `index_server`, `glue` and `recvdata_deadlock`: after a reset
a thread may really wait for ever (for a result that was dropped, or in a `read()` loop
that keeps returning 0), and the glue's kernels poll for ever.

### Fairness

`FairSpec` assumes weak fairness of each thread, of the start of each FPGA program,
and of the GPU's sending and receiving. The threads are kernel-scheduled
`std::thread`s, each waiting on `sem_wait`, on a spin that re-reads its flag, or in a
blocking socket call: none needs strong fairness, because a semaphore here has one
waiting thread and a channel one reader. The programs are started by the launch
script or by hand. The GPU program is external; that it sends all its batches and reads all its answers is
an assumption. Nothing is assumed about resets.

In the accelerator's modules `FairSpec` is `WF_vars(Next)`: a circuit whose processes can
step does so. Nothing is assumed about which of them steps. `StackCoupling` assumes the same of
kernels, stack and host together, hence that TCP delivers in the end. No step can be taken for ever
without progress: the number of queries, of notifications of length 0 and of refusals is bounded by the input. A refusal
beyond it is not a step but a wait for an acknowledgement, since the kernel announces a refused packet
again at once and nothing else changes. `NetworkGlue` on its own has no liveness property and no fairness.

`Termination` exempts behaviours with a refused C2F connection: that is the
outcome of `network_order`, in which the coordinator is killed by SIGPIPE.

## 4. Proofs

All theorems are for arbitrary constants within the assumptions of the modules
(`NetworkAssumption`, `CoordinatorAssumption`, `IndexServerAssumption`, `RetrieverAssumption`,
`RingBufferAssumption`, `RaceAssumption`, `PriorityQueueAssumption`, `GlueAssumption`, `CouplingAssumption`,
`ScanAssumption`, `LUTAssumption`: positive sizes, distinct markers, and inputs a host can send).

`DisaggregatedSearch_proofs`

- `TypeCorrect`: `Spec => []TypeOK`. `TypeOK` is not inductive: it says nothing of
  *where* a counter may be incremented, and the simulator indexes `buf_header` with
  `F2C_batch_id`. `TypeInv` adds `LoopBounds` (a thread inside its loop has a counter
  below the loop's bound) and `HeaderAccounting` (`sem_available_batches` is the number
  of headers stored and not yet taken, so the index is in range when the semaphore is
  positive).
- `Windows`: `Spec => []WithinWindows`, for any windows and any resets, from the lemma `Accounting`:
  `WindowAccounting` says what each of the three semaphores counts, the batch window the batches received or
  being received and not yet answered (not, as line 97 has it, those taken by the C2F thread). Given the
  types the equations are inductive: each `sem_wait` or `sem_post` changes one
  semaphore and moves one thread past the point the counters describe. No semaphore is negative, so what is
  in use is at most a window.
- `SetupFirst`: `Spec => []DataAfterSetup`, for any resets. `FlagsInv` says which
  thread has passed which flag and what that thread had opened before it set the flag.
- `InSync`: `Spec => []FramingInSync`, for any resets. A *place* is a number: 0 before a
  header, q + 1 before query q, batch_size + 1 after the terminate header. `FramingInv` says
  that the messages on the way to an FPGA have consecutive places, the first being the
  receiver's and the place after the last being the sender's, as long as the connection is up;
  once a call has failed (`CutOff`) what remains is still consecutive from the receiver's place, and nothing is
  added. The sender's place is a function of `pcC`, `c2f_query_id` and of whether the broadcast has
  passed this FPGA.

- `AnswersMatch`: `Spec => []AnswersMatchQueries` when `MaxResets = 0`. `AnswerInv`: what
  an FPGA has sent is what was read from it followed by what is on the way, numbered
  consecutively, and the rows already copied are those of the batch's first queries.
- `WithinWindow`: `Spec => []InFlightWithinWindow` when `MaxResets = 0`. `SentInv` ties the queries
  on the way to an FPGA and those it has taken to the C2F thread's counter; with
  `AnswerInv` on the way back and `WindowAccounting` between, the counters on the
  coordinator's two sides differ by at most the window.
- `LostBounded`: `Spec => []LostAnswersBounded`, for any resets. `LostInv`: as long as
  FPGA n's connection is up, the F2C thread has passed over its results at most once for each
  connection that died, because a read that fails ends the loop over the FPGAs and a
  connection dies once. The port of an FPGA the thread has not come to is untouched
  (`NotYetListening`), so no dead connection comes back.

- `StaleAfterReset`: `Spec => []StaleBatchOnlyAfterReset`, for any resets, when
  `batch_window_size <= G2C_C2F_QUEUE_SIZE`, and strictly less when a batch is one query. The
  queries are counted whatever fails (`CountInv`): the loops of both threads agree with the
  shared counters (`SendsCounted`, `AnswersCounted`), an FPGA has received no more than was
  sent (`SentAtMost`), and of FPGA 0, which the F2C_C2G thread asks first, at most the one result it was
  reading when the connection died is missing (`LeadFrom`). So the thread is at most one query ahead of
  the C2F thread, which leaves a free slot for the batch being written (`Room`). `FlowInv`
  then follows the batches: those before a number `w` are in the ring buffer or taken, `w`
  and those after it are on their way, and only a batch that `read()` failed to deliver is counted and
  never written. With one query per batch, one slot and one reset the property fails (TLC finds it: the
  query the F2C_C2G thread is ahead is then a whole batch), so the second hypothesis is needed.

The next two assume `MaxResets = 0` and `batch_window_size <= G2C_C2F_QUEUE_SIZE`: a larger
window lets the G2C thread overwrite a batch the C2F thread has not read. (`RingBufferRace`, where the
two threads are inside the ring buffer's methods at once, needs one slot more: its `full_` must never be set.)

- `SentInOrder`: `Spec => []QueriesInOrder`. `OrderInv` adds to `FlowInv` that the queries in an
  FPGA's stream are numbered on from those it has received (`NumbersFrom`). That a slot is free
  when a batch is written needs `Ahead`: no batch is answered before its last query goes out,
  which follows from the results on the way back (`AnswerInv`), the queries on the way
  there (`SentInv`) and, between the two, from a simulator sending no more results than it has
  received queries (`ResultsBacked`).
- `NothingLeft`: `Spec => []CleanFinish`. With the invariants above: `EndInv` says that a simulator
  stores nothing after a terminate header and that its F2C thread ended on that header; `Counts`
  that an ended thread has served every batch and that the GPU's answers are those sent.
  A message left in an FPGA's stream would have the place after a terminate header, which no message has.

- `Implementation`: `Spec => ImplementsServer` when `MaxResets = 0`: every step of the
  coordinator and its FPGAs is a step of the index server and its FPGAs, or leaves what it
  maps to unchanged. The proof goes action by action; the mapped program counters and the stripped
  messages are definitions of their own in `CoordinatorRefinement`, so that each step shows what
  it does to them. `ServerInv` is all it needs of the reachable states: the types, and that the
  GPU's connection, for which the index server has no counterpart, does not fail.

`IndexSearch_proofs`, for any windows, batches and FPGAs, and whatever calls fail

- `Windows`: `Spec => []WithinWindows`. `WindowAccounting` is to this program what the invariant of
  the same name is to the coordinator.
- `InSync`: `Spec => []FramingInSync`, by the places of `FramingInv` as above: the threads that send
  and receive are the same code.
- `AnswersMatch`: `Spec => []AnswersMatchQueries`. The property claims matching answers as long as no
  connection has failed, so here `AnswerInv` speaks of the FPGAs until the first failure.
- `LostBounded`: `Spec => []LostAnswersBounded`, by `LostInv` as above.

`RingBuffer_proofs`

The first two are about `RingBufferSequential`, whose specification is `CallSpec`, the others about
`RingBufferRace`.

- `Represents`: `CallSpec => []RepresentsQueue`, and `Oldest`: `CallSpec => []ReadsOldest`, for every
  number of slots and sequence of calls. `QueueInv`: `head_` is `tail_` plus the queue's
  length around the array, `full_` says that the length is the number of slots, and slot
  `tail_ + i` holds the queue's element i.

- `TypeCorrect`: for any window, also one that overruns the buffer: the indices stay in the array.
- `ReadInOrder`: with `batch_window_size < num_slots_`, `[]BatchesReadInOrder`. The
  inductive invariant `FifoInv` says: the semaphores account for the batches between
  the threads (`Semaphores`), `full_` is never set and its pending store is always
  FALSE (`NeverFull`), the slots from the reader's to the writer's position hold
  consecutive batches (`Contents`), and the reader's registers agree with its count
  (`Reader`). `head_` and `tail_` are the counts modulo `num_slots_`; the lemmas
  `ModWraps`, `Wrap` and the ones next to them carry the arithmetic.
- `Refinement`: under the same assumption `Spec => ImplementsQueue`. The queue of
  `BatchQueue` is the run of batches announced and not handed over; the reader's hand-over
  point is the start of its copy.

The hypothesis `batch_window_size < num_slots_` is necessary (run `ring_full`: with as many batches as slots one is forwarded twice). The
program does not check it; with its 10 slots it holds for every window up to 9.

`PriorityQueue_proofs`

- `Smallest`, `Once`, `NotStale`, `Dominates`, `TypeCorrect`, for every queue size,
  number of inputs and order of inputs. The key is `OddDominates`: between insertions
  every odd register is at least as large as all registers to its right. It is what
  replaces sortedness: the register that leaves at position 0 is then the largest of
  all, so `KeepsSmallest` is preserved. `Identity` ties entries to their positions, so
  that an insertion, being a permutation of registers plus the new entry (lemmas
  `RoundAPermutes`, `RoundBPermutes`, `InsertionPermutes`), can neither copy nor lose one.

`NetworkGlue_proofs`

The invariants that the run `glue` checks, for any requests, queries, word sizes, answers and stream
depths, and whatever the stack and the host do. `GlueAssumption` is that sizes are positive, that
the segments of a query add up to its words, and that a packet has a word.

- `OnePacket`: `Spec => []OnePacketAtATime`, and `DataAtHand`: `Spec => []AnnouncedWithData`, without any
  assumption on the constants. `GlueInv`: of the protected receive there is one token, in
  `s_consumeDataReady`, in `nextRxPacketLength` or with the packet being read (`OneToken`); while a packet
  is negotiated it is announced once, or answered once, and its first word waits
  (`PacketInFlight`).
- `Types`: `Spec => []TypeOK`. `TypeInv` adds that the bytes in the stack are those notified and not yet
  asked for (`BytesAsked`: `stack_read` finds as many as it needs), that packets are
  negotiated in whole words and words owed only while sending (`SendState`), and in which order
  results and words pass (`OutputState`).
- `WordsOrdered`: `Spec => []WordsInOrder`. `WordsInv` numbers the words of all queries through and says
  where they are: from the word the search waits for, through `s_kernel_network_in`, the words between
  stack and kernel, and the bytes in the stack, to the next segment of the host, without a gap.
  That the segments notified hold whole words, and so the packets too, is part of it.
- `AnswersOrdered`: `Spec => []AnswersInOrder`. `OutInv` numbers the results and the words of the answers
  through: the words in the packets, then those before the send, then the next one of the answer
  being written, whose results are in the kernel's buffer and, following on, in `s_output`.
  `CutInv` (`Packing`) balances lengths: what was accepted is what was sent, what is still
  owed and, while its acceptance is on the way, the packet itself; and the words
  marked last are those at which an accepted packet ends.
- `Coupling`: `CoupledSpec => Spec`, so that these hold for `StackCoupling` as well.

`Scan_proofs`

The three invariants that the run `scan` checks, for any batches of queries, stream depths, numbers of banks,
PEs and table rows, and sizes of the cells. `ScanAssumption` is that sizes are positive, that a batch header's
`nprobe` is at least 1 and each of its queries probes that many cells.

- `ScanInvariant`: `Spec => []ScanInv`. Every process reads and writes blocking streams with one
  reader and one writer, in an order that its input alone decides; so what passes through a stream over
  a whole run is a function of the input (`History`), whatever the interleaving and the depths, and the
  only thing left to say of a state is how far each end has come. `FlowInv`: a stream holds the values of
  its history from those read to those written. `ProcessInv`: a process is at the batch, query, cell,
  row and vector that the numbers of values it has read and written say, and holds the data that
  belong there. A step changes the counts at the ends of its own streams and nothing else a process
  can tell (`BodyFrame`), so each action is one lemma: what it reads is the next value of the
  history, what it writes is the next one too, and its new place is the one the counts name.
  The replicators, the padding of incomplete words of cells, the table chain and both variants of the compute PE, where
  one table is loaded while the other is scanned, are lemmas of their own.
- `OffsetMatchesCodeHolds`, `OwnTableHolds`: by `ScanInv` the results in the streams and those delivered are a prefix
  of their history, and the value of the history has the property.
- `EachVectorOnceHolds`: the results delivered for a probed cell correspond one to one to pairs of a PE
  and a round; these correspond to the numbers of the cell's vectors by division with remainder by the number
  of PEs, with the padding in the last round left out. Hence as many codes as the cell has
  vectors, and no code twice.

`ScanInv` speaks of how much was read and written so far, which no variable of `Scan` counts, so it is an
existential over all numbers and out of TLC's reach; the run checks the three invariants it implies.

`LUTConstruction_proofs`

The invariant that the run `lut` checks, for any batches, stream depths, dimension, numbers of sub-vectors,
PEs and table rows, and packet size. `LUTAssumption` is that sizes are positive, that the sub-vectors divide
the dimension and the PEs the sub-vectors, and that a batch's `nprobe` is at least 1.

- `LUTInvariant`: `Spec => []LUTInv`. The argument is that of `ScanInvariant`: histories, and processes at
  the place that their counts name. What is added is data. The dispatchers deal a vector out interleaved
  over sub-vectors and so over the PEs; `Passes` says how many of the first so many elements a PE
  has got, `Dealt` the same of the sub-quantizers, and `DealtTo` that the u-th element a PE gets is
  one that it will place (`place`) where `L2_dist` looks for it. Three counters running within one
  another are one number written with three digits (`Digits`). `PEBody` says that the first u
  elements of a PE's arrays belong to the vector it is at, the other elements being of an
  earlier one: the proof that no row is computed before the last of them is replaced is that a PE leaves
  the phase `center` at `u = Share`. The histories hold both circuits that `wraps` stands for.
- `RowsAreDistancesHolds`: the rows that left are a prefix of their history (`FlowInv`), no longer than the
  tables of all probed cells (`RowsOut`), and table g of the input is that of its g-th probed
  cell (`TablesAre`).

`LUTInv` too is an existential over the numbers read and written, and TLC checks what it implies.

Sequences are where the provers know least: `DataflowLemmas` states what flattening words, cutting and
moving elements from one queue to the next does, and numbers the elements of sequences of sequences of any lengths. `SumTo` and `FlattenSeq` are recursive functions,
so a fact about their value starts from their existence, which is an induction (`Induction`, `SumsExist`).
The induction theorems of the library take an operator, which the provers cannot instantiate; the
proofs use well-founded induction on the set of numbers for which the fact fails instead.

### Only model-checked

- Liveness: `Termination`, `Answered`, `ScanEnds`, `LUTEnds`, `AnswersArrive` (it needs fairness and
  ENABLED, out of the prover's reach).
- `HierarchicalQueue` (`AnswersBelong`, `MissedOnlyIfCrowded`), except for the registers of the
  queues (`PriorityQueue_proofs`).

## 5. Not modelled, and why

- Latency measurement, printing, command-line parsing: no effect on the protocol.
- Message sizes in bytes: the buffers' sizes are arithmetic on the command line's constants
  that no step depends on. They are listed among the hazards.
- A `read()` that returns 0 after an orderly close: the loop neither fails nor ends. In
  the model the thread is blocked, which is the same to every other thread.
- The data of a query: with several FPGAs the coordinator keeps only the last FPGA's
  result for a query (a TODO in the code); the model keeps exactly that, and
  `AnswersMatchQueries` is about the query a row belongs to, not about merging.
- Of the ring buffer, `reset()` and `size()` are not called by the coordinator; they are
  covered by `RingBufferSequential`.
- `my_semaphore.hpp`: every use is commented out in favour of `sem_t`.
- The value of a distance: floating-point rounding is not modelled.
- The lookup of cells in the index server: what it finds is dropped.
- The send and receive kernels of `communication.hpp` that the accelerator does not call (except
  `recvDataSafe`, see above), and its UDP part.
- Of the TCP stack: retransmission timers, congestion control, fast retransmission, opening and closing.
  Retransmission is there as far as a dropped segment comes again.
- The other accelerator directories, which are copies of the modelled kernel with other
  constants, and the older programs, which the modelled ones replace.
- Host launchers: sequences of calls into the Xilinx runtime.
- Vendored code: the network stack but for what `StackCoupling` takes from it, CMAC, hnswlib, lodepng. These, the copies and the older
  programs are most of the repository's lines; the map covers the code that is
  the repository's own and in use.

The coordinator's `send_C2G_batch_result` (line 614) sends `buf_C2G`, which nothing writes after its
`malloc`: the batch result that goes to the GPU is not what the FPGAs answered, although line 7 speaks of
"receiving and forwarding results (F2C & C2G)". The model has it so, and `AnswersMatchQueries` is about the
buffers the results are in.

The comment on the batch window's semaphore (line 97: "cnt = batch_window_size - (C2F_batch_id - F2C_batch_id)")
and lines 130-131 ("not sent to FPGA yet") do not say what the code counts. A slot is taken before a batch is
received and given back when it is answered, so that a batch received and not yet taken by the
C2F thread holds one too, and one that is sent still does. With a batch window of 2, both batches received and
the C2F thread waiting in the first for the query window, no slot is free, where the formula gives one.
`WithinWindows` states what the windows bound, `WindowAccounting` what the semaphores count.

Some comments of the code that do not describe it, too slight for a run of their
own: `types.hpp` gives `cell_ID` the range [0, nlist - 1] while padding carries -1; `constants.hpp`
has `NLIST_MAX 65536 // 256K`; `ring_buffer.hpp`:48 speaks of a buffer that is full when the tail is one ahead,
while `full_` tells full from empty; a comment in the coordinator's `main` calls a batch
window of 0 the low-latency mode and 1 the pipelined one, while `main` asserts at
least 1 and a window of 1 already keeps a batch back until the last one is answered.

## 6. Plan

Done, in order of importance: the coordinator, simulator, ring buffer, priority queue
and index server; the accelerator's selection, front end, network glue and LUT construction; the
theorems above, which cover every invariant of the programs on the CPU, of the network glue, of the
front end and of the LUT construction, and the refinement between the two programs. Next:

1. An invariant for `HierarchicalQueue` (`AnswersBelong`), where the merge takes from whichever queue the
   loop is at, so that histories exist per queue.
2. Larger instances of `select` (two banks) with the processes of one bank abstracted.
