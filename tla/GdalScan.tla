------------------------------- MODULE GdalScan -------------------------------
(***************************************************************************)
(* The scan of a layer by ST_Read.  GDAL hands the features of the layer   *)
(* out as one stream of record batches.  The threads of the scan take the  *)
(* next batch of the stream under a lock, which also numbers it, and       *)
(* deliver its rows in chunks.  DuckDB collects the chunks of an           *)
(* order-preserving query by the numbers of their batches.                 *)
(***************************************************************************)
EXTENDS Integers, Sequences

CONSTANTS
  Threads,    \* the threads of the database: MaxThreads asks for all of them
  VectorSize, \* STANDARD_VECTOR_SIZE
  Streams     \* the streams a layer may give

(* A stream is a sequence of batches: how many features each has, and      *)
(* whether it can be read; GDAL fails to give a "lost" one, and one that is*)
(* "corrupt" holds a geometry that WKBReader rejects.                      *)
Qualities == {"good", "lost", "corrupt"}

ASSUME StreamsAssumption ==
  /\ VectorSize \in Nat \ {0}
  /\ Streams \subseteq Seq([length : Nat, quality : Qualities])

VARIABLES
  stream,      \* the batches of the layer
  next,        \* gstate.stream: the next batch it gives
  done,        \* gstate.done
  batch_index, \* gstate.batch_index
  local,       \* the local state of each thread
  chunks,      \* the chunks delivered, in order, each with its batch number
  result       \* outcome of the query

scanVars == <<stream, next, done, batch_index, local, chunks, result>>

(* A batch taken: its place in the stream (0: none), the number it got, and*)
(* how many of its rows the thread has delivered.                          *)
NoBatch == [place |-> 0, batch_index |-> 0, chunk_offset |-> 0]

Length(l) == IF l.place = 0 THEN 0 ELSE stream[l.place].length

PCs == {"start", "scan", "convert", "finished", "failed"}

ScanInit ==
  /\ stream \in Streams
  /\ next = 1
  /\ done = FALSE
  /\ batch_index = 0
  /\ local = [t \in Threads |->
                [pc |-> "start", batch |-> NoBatch, size |-> 0]]
  /\ chunks = <<>>
  /\ result = "running"

-----------------------------------------------------------------------------
(* ArrowScanParallelStateNext: under the lock, number the batch and skip   *)
(* the empty ones.  At the end of the stream the batch is an empty one.    *)
Skipped(p) == stream[p].length = 0 /\ stream[p].quality # "lost"

IsNext(p) ==
  /\ p \in next..Len(stream)
  /\ ~Skipped(p)
  /\ \A q \in next..(p - 1) : Skipped(q)

BugNumberReused(t) ==
  /\ ~done
  /\ \E p \in DOMAIN stream :
       /\ IsNext(p) /\ stream[p].quality # "lost"
       /\ next' = p + 1
       /\ local' = [local EXCEPT ![t].pc = "scan",
                      ![t].batch = [place |-> p,
                                    batch_index |-> batch_index + 1,
                                    chunk_offset |-> 0]]
  /\ UNCHANGED <<done, batch_index, result>>

TakeBatch(t) ==
  /\ ~done
  /\ \E p \in DOMAIN stream :
       /\ IsNext(p) /\ stream[p].quality # "lost"
       /\ next' = p + 1
       /\ local' = [local EXCEPT ![t].pc = "scan",
                      ![t].batch = [place |-> p,
                                    batch_index |-> batch_index + 1,
                                    chunk_offset |-> 0]]
  /\ batch_index' = batch_index + 1
  /\ UNCHANGED <<done, result>>

LoseBatch(t) ==
  /\ ~done
  /\ \E p \in DOMAIN stream :
       /\ IsNext(p) /\ stream[p].quality = "lost"
       /\ next' = p + 1
  /\ batch_index' = batch_index + 1
  /\ local' = [local EXCEPT
                 ![t] = [pc |-> "failed", batch |-> NoBatch, size |-> 0]]
  /\ result' = "failed"
  /\ UNCHANGED done

EndOfStream(t) ==
  /\ ~done /\ \A p \in next..Len(stream) : Skipped(p)
  /\ next' = Len(stream) + 1
  /\ done' = TRUE
  /\ batch_index' = batch_index + 1
  /\ local' = [local EXCEPT ![t].pc = "finished", ![t].batch = NoBatch]
  /\ UNCHANGED result

AlreadyDone(t) ==
  /\ done
  /\ local' = [local EXCEPT ![t].pc = "finished"]
  /\ UNCHANGED <<next, done, batch_index, result>>

ParallelStateNext(t) ==
  /\ TakeBatch(t) \/ LoseBatch(t) \/ EndOfStream(t) \/ AlreadyDone(t)
  /\ UNCHANGED <<stream, chunks>>

(* A thread that starts takes its first batch, or delivers nothing.        *)
InitLocal(t) ==
  /\ result = "running" /\ local[t].pc = "start"
  /\ ParallelStateNext(t)

(* Scan: at the end of a batch the next one is taken; the size of the chunk*)
(* and the count of the rows come before its conversion.                   *)
MoreRows(t) == local[t].batch.chunk_offset < Length(local[t].batch)

NewBatch(t) ==
  /\ local[t].pc = "scan" /\ ~MoreRows(t)
  /\ ParallelStateNext(t)

BugWholeVector(t) ==
  /\ local[t].pc = "scan" /\ MoreRows(t)
  /\ local' = [local EXCEPT ![t].pc = "convert", ![t].size = VectorSize]
  /\ UNCHANGED <<stream, next, done, batch_index, chunks, result>>

Measure(t) ==
  /\ local[t].pc = "scan" /\ MoreRows(t)
  /\ LET left == Length(local[t].batch) - local[t].batch.chunk_offset
     IN  local' = [local EXCEPT ![t].pc = "convert",
                     ![t].size = IF left < VectorSize THEN left ELSE VectorSize]
  /\ UNCHANGED <<stream, next, done, batch_index, chunks, result>>

(* The rows of the chunk, by their place in their batch.                   *)
Chunk(t) ==
  LET b == local[t].batch
  IN  [thread |-> t, batch_index |-> b.batch_index, place |-> b.place,
       first |-> b.chunk_offset + 1, last |-> b.chunk_offset + local[t].size]

Deliver(t) ==
  /\ local[t].pc = "convert"
  /\ stream[local[t].batch.place].quality = "good"
  /\ chunks' = Append(chunks, Chunk(t))
  /\ local' = [local EXCEPT ![t].pc = "scan", ![t].size = 0,
                 ![t].batch.chunk_offset = @ + local[t].size]
  /\ UNCHANGED <<stream, next, done, batch_index, result>>

BugRejectedChunkRetried(t) ==
  /\ local[t].pc = "convert"
  /\ stream[local[t].batch.place].quality = "corrupt"
  /\ local' = [local EXCEPT ![t].pc = "scan", ![t].size = 0]
  /\ UNCHANGED <<stream, next, done, batch_index, chunks, result>>

Reject(t) ==
  /\ local[t].pc = "convert"
  /\ stream[local[t].batch.place].quality = "corrupt"
  /\ local' = [local EXCEPT
                 ![t] = [pc |-> "failed", batch |-> NoBatch, size |-> 0]]
  /\ result' = "failed"
  /\ UNCHANGED <<stream, next, done, batch_index, chunks>>

(* The query succeeds when every thread that was started has finished, and *)
(* one was.                                                                *)
Complete ==
  /\ result = "running"
  /\ \E t \in Threads : local[t].pc = "finished"
  /\ \A t \in Threads : local[t].pc \in {"start", "finished"}
  /\ result' = "complete"
  /\ UNCHANGED <<stream, next, done, batch_index, local, chunks>>

(* Once the query has failed, threads may be stopped at the end of a chunk.*)
Cancel(t) ==
  /\ result = "failed" /\ local[t].pc \in {"start", "scan"}
  /\ local' = [local EXCEPT ![t].pc = "finished"]
  /\ UNCHANGED <<stream, next, done, batch_index, chunks, result>>

Step(t) ==
  \/ InitLocal(t) \/ NewBatch(t) \/ Measure(t)
  \/ Deliver(t) \/ Reject(t) \/ Cancel(t)

Stopped ==
  /\ result # "running"
  /\ \A t \in Threads : local[t].pc \in {"start", "finished", "failed"}
  /\ UNCHANGED scanVars

ScanNext == (\E t \in Threads : Step(t)) \/ Complete \/ Stopped

(* DuckDB runs every thread it has started until it finishes.              *)
ScanFairness ==
  /\ \A t \in Threads : WF_scanVars(Step(t))
  /\ WF_scanVars(Complete)

ScanSpec == ScanInit /\ [][ScanNext]_scanVars /\ ScanFairness

-----------------------------------------------------------------------------
(* What the fields of the scan may hold.                                   *)
ScanTypeOK ==
  /\ stream \in Streams
  /\ next \in 1..(Len(stream) + 1)
  /\ done \in BOOLEAN
  /\ batch_index \in 0..(Len(stream) + 1)
  /\ \A t \in Threads :
       /\ local[t].pc \in PCs
       /\ local[t].batch.place \in 0..Len(stream)
       /\ local[t].batch.batch_index \in 0..batch_index
       /\ local[t].batch.chunk_offset \in 0..Length(local[t].batch)
       /\ local[t].size \in 0..VectorSize
  /\ result \in {"running", "complete", "failed"}

(* A batch number belongs to one batch and one thread, the numbers are in  *)
(* the order of the batches in the layer, and those a thread gives its     *)
(* chunks never go down: DuckDB relies on all three when it merges what    *)
(* the threads collected.                                                  *)
BatchesAreOwned ==
  \A i, j \in DOMAIN chunks :
    /\ chunks[i].batch_index = chunks[j].batch_index =>
         /\ chunks[i].thread = chunks[j].thread
         /\ chunks[i].place = chunks[j].place
    /\ chunks[i].batch_index < chunks[j].batch_index =>
         chunks[i].place < chunks[j].place
    /\ i < j /\ chunks[i].thread = chunks[j].thread =>
         chunks[i].batch_index <= chunks[j].batch_index

(* A query that succeeds and collects the chunks by their batch numbers has*)
(* every row of the layer, once, in the order of the layer, whichever      *)
(* thread delivered it and whenever; and it did not get past a batch that  *)
(* was lost or that a geometry made unreadable.                            *)
Covers(c, p, k) == c.place = p /\ k \in c.first..c.last

CollectedBefore(i, j) ==
  \/ chunks[i].batch_index < chunks[j].batch_index
  \/ chunks[i].batch_index = chunks[j].batch_index /\ i < j

OrderPreserved ==
  result = "complete" =>
    /\ \A p \in DOMAIN stream : \A k \in 1..stream[p].length :
         \E i \in DOMAIN chunks : Covers(chunks[i], p, k)
    /\ \A i \in DOMAIN chunks :
         chunks[i].first..chunks[i].last \subseteq 1..stream[chunks[i].place].length
    /\ \A i, j \in DOMAIN chunks :
         CollectedBefore(i, j) =>
           \/ chunks[i].place < chunks[j].place
           \/ /\ chunks[i].place = chunks[j].place
              /\ chunks[i].last < chunks[j].first

(* The query ends: no thread waits for another, and none converts the same *)
(* rows again and again.                                                   *)
Termination == <>(result # "running")

=============================================================================
