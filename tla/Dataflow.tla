------------------------------- MODULE Dataflow -------------------------------
(***************************************************************************)
(* What the kernels of the accelerator's dataflow regions share: bounded   *)
(* FIFO streams between processes that block on reading an empty and on    *)
(* writing a full one, and the loop every process runs over the batches:   *)
(* read a header, stop at the one that says terminate, else run its body   *)
(* once for each query of the batch.                                       *)
(*                                                                         *)
(* A stream is named <<name, index>>, a process likewise.  A step reads    *)
(* and writes its streams at once: a pipelined loop iteration stalls until *)
(* all the streams it touches are ready.                                   *)
(***************************************************************************)
EXTENDS Integers, Sequences, FiniteSets, SequencesExt, TLC

CONSTANT depth   \* stream name -> its "#pragma HLS stream depth"; the streams
                 \* that enter or leave a region have no bound

VARIABLES fifo,    \* stream -> the values in it
          left,    \* process -> queries of its batch not yet finished
          nprobe,  \* process -> nprobe of its batch
          ended    \* the processes that have left their loop

flowVars == <<fifo, left, nprobe, ended>>

\* The header stream of process p.
s_batch_header(p) == <<"s_batch_header", p>>

Header(n, np) == [batch_size |-> n, nprobe |-> np, terminate |-> FALSE]
TerminateHeader == [batch_size |-> 0, nprobe |-> 0, terminate |-> TRUE]

\* f is what the streams hold at first; P are the processes.
FlowInit(f, P) ==
  /\ fifo = f
  /\ left = [p \in P |-> 0] /\ nprobe = [p \in P |-> 0]
  /\ ended = {}

-----------------------------------------------------------------------------
Room(c) == c[1] \in DOMAIN depth => Len(fifo[c]) < depth[c[1]]

\* Read one value from each stream of takes, write puts[c] to each c.
Transfer(takes, puts) ==
  /\ \A c \in takes : fifo[c] # <<>>
  /\ \A c \in DOMAIN puts : Room(c)
  /\ fifo' = [c \in DOMAIN fifo |->
                (IF c \in takes THEN Tail(fifo[c]) ELSE fifo[c])
                  \o (IF c \in DOMAIN puts THEN <<puts[c]>> ELSE <<>>)]

\* What a step writes: the same value to each of several streams, a value to
\* one stream, nothing, what f and g write together.
ToAll(C, v) == [c \in C |-> v]
To(c, v) == ToAll({c}, v)
Nothing == ToAll({}, 0)
f ++ g == [c \in DOMAIN f \cup DOMAIN g |-> IF c \in DOMAIN f THEN f[c] ELSE g[c]]

\* Mutant: the replicator stops before it has passed the terminate header on.
Bug_replicate_s_batch_header(p, P) ==
  /\ p \notin ended /\ fifo[s_batch_header(p)] # <<>>
  /\ LET h == Head(fifo[s_batch_header(p)])
     IN  /\ Transfer({s_batch_header(p)},
              IF h.terminate THEN Nothing
              ELSE ToAll({s_batch_header(q) : q \in P}, h))
         /\ ended' = IF h.terminate THEN ended \cup {p} ELSE ended
  /\ UNCHANGED <<left, nprobe>>

\* Process p passes its headers on to the processes P; it stops after it has
\* passed on the terminate header.
replicate_s_batch_header(p, P) ==
  /\ p \notin ended /\ fifo[s_batch_header(p)] # <<>>
  /\ LET h == Head(fifo[s_batch_header(p)])
     IN  /\ Transfer({s_batch_header(p)},
                     ToAll({s_batch_header(q) : q \in P}, h))
         /\ ended' = IF h.terminate THEN ended \cup {p} ELSE ended
  /\ UNCHANGED <<left, nprobe>>

\* The head of the loop of process p.
read_header(p) ==
  /\ p \notin ended /\ left[p] = 0
  /\ Transfer({s_batch_header(p)}, Nothing)
  /\ LET h == Head(fifo[s_batch_header(p)])
     IN  IF h.terminate
         THEN ended' = ended \cup {p} /\ UNCHANGED <<left, nprobe>>
         ELSE /\ left' = [left EXCEPT ![p] = h.batch_size]
              /\ nprobe' = [nprobe EXCEPT ![p] = h.nprobe]
              /\ UNCHANGED ended

\* The body of process p goes on, or has finished a query of the batch.
Continues == UNCHANGED <<left, nprobe, ended>>
QueryDone(p) ==
  left' = [left EXCEPT ![p] = @ - 1] /\ UNCHANGED <<nprobe, ended>>
Finish(p, isLast) == IF isLast THEN QueryDone(p) ELSE Continues

\* Every process P has stopped, and no value is left in a stream between them.
Drained(P, outputs) ==
  /\ ended = P
  /\ \A c \in DOMAIN fifo : c[1] \in outputs \/ fifo[c] = <<>>
=============================================================================
