------------------------- MODULE OsmScanProperties -------------------------
(***************************************************************************)
(* What must be true of every scan of an OSM file.                         *)
(***************************************************************************)
EXTENDS OsmScan, SequencesExt

TypeOK ==
  /\ file \in Files
  /\ phase \in Phases
  /\ offset \in Nat /\ done \in BOOLEAN
  /\ blob_index \in Nat /\ bytes_read \in Nat
  /\ pc \in [Threads -> Locations]
  /\ claimed \in [Threads -> {0} \cup DOMAIN file.frames]
  /\ claimed_idx \in [Threads -> Nat]
  /\ block \in [Threads -> {0} \cup DOMAIN file.frames]
  /\ block_idx \in [Threads -> Nat]
  /\ state \in [Threads -> ParseStates]
  /\ block_reader \in [Threads -> Nat \ {0}]
  /\ group \in [Threads -> Nat]
  /\ group_reader \in [Threads -> Nat \ {0}]
  /\ dense_index \in [Threads -> Nat]
  /\ decode \in [Threads -> Decode]
  /\ output \in [Threads -> Seq(Row)]
  /\ \A t \in Threads : Len(output[t]) <= Capacity
  /\ chunks \in [Threads -> Seq(Chunk)]

-----------------------------------------------------------------------------
(* A block as the writers in use lay it out: its fields in the order of    *)
(* their tags and each at most once, a string table before the group, and  *)
(* of the optional fields none without the ones before it.                 *)
PlainBlock(fields) ==
  LET Has(tag) == \E q \in DOMAIN fields : fields[q].tag = tag
  IN  /\ \A p, q \in DOMAIN fields : p < q => fields[p].tag < fields[q].tag
      /\ Has(2) => Has(1)
      /\ Has(19) => Has(17)
      /\ Has(20) => Has(19)

PlainBlocks == \A i \in DOMAIN file.frames : PlainBlock(file.frames[i].fields)

(* The rows a file holds, read off its frames.                             *)

Declared(fields, tag, default) ==
  IF \E q \in DOMAIN fields : fields[q].tag = tag
  THEN fields[CHOOSE q \in DOMAIN fields : fields[q].tag = tag].value
  ELSE default

DeclaredDecode(i) ==
  LET fields == file.frames[i].fields IN
  [strings     |-> i,
   granularity |-> Declared(fields, 17, DefaultGranularity),
   lat_offset  |-> Declared(fields, 19, 0),
   lon_offset  |-> Declared(fields, 20, 0)]

RowsOfEntry(i, q, e) ==
  LET entry == file.frames[i].fields[q].entries[e]
      size  == CASE entry.kind = "changeset" -> 0
                 [] entry.kind = "dense"     -> entry.size
                 [] OTHER                    -> 1
  IN {[frame |-> i, field |-> q, entry |-> e, item |-> k,
       decode |-> DeclaredDecode(i)] : k \in 1..size}

RowsOfFrame(i) ==
  UNION {UNION {RowsOfEntry(i, q, e) :
                  e \in DOMAIN file.frames[i].fields[q].entries} :
           q \in {p \in DOMAIN file.frames[i].fields :
                    file.frames[i].fields[p].tag = 2}}

RowsOfFile ==
  UNION {RowsOfFrame(i) :
           i \in {j \in DOMAIN file.frames : file.frames[j].type = "OSMData"}}

(* The rows a thread has handed over, and those it has produced.           *)
HandedOver(t) == UNION {ToSet(chunks[t][j].rows) : j \in DOMAIN chunks[t]}
Produced(t)   == HandedOver(t) \cup ToSet(output[t])
Delivered     == UNION {HandedOver(t) : t \in Threads}

(* The chunks of a thread; the one it is filling comes last.               *)
ChunkNumbers(t) == 1..Len(chunks[t]) + 1
ChunkRows(t, j) == IF j \in DOMAIN chunks[t] THEN chunks[t][j].rows ELSE output[t]

Place(r) == <<r.frame, r.field, r.entry, r.item>>
Earlier(p, q) ==
  \E n \in 1..4 : p[n] < q[n] /\ \A m \in 1..n - 1 : p[m] = q[m]

AllFinished == \A t \in Threads : pc[t] = "Finished"
SomeFailed  == phase = "Failed" \/ \E t \in Threads : pc[t] = "Failed"

-----------------------------------------------------------------------------
(* A scan all of whose threads end normally has delivered every row of the *)
(* file: no block is left unclaimed, no group, entry or dense node of a    *)
(* block is dropped when a chunk fills up in its middle.                   *)
SuccessMeansComplete ==
  AllFinished => \A r \in RowsOfFile :
    \E d \in Delivered : Place(d) = Place(r)

(* No row is produced twice, by one thread resuming a block or by two      *)
(* threads, and each thread's rows stay in the order of the file across    *)
(* chunk and block boundaries.                                             *)
OnceAndInOrder ==
  /\ \A t \in Threads : \A j, k \in ChunkNumbers(t) :
       \A m \in DOMAIN ChunkRows(t, j), n \in DOMAIN ChunkRows(t, k) :
         j < k \/ (j = k /\ m < n) =>
           Earlier(Place(ChunkRows(t, j)[m]), Place(ChunkRows(t, k)[n]))
  /\ \A t, u \in Threads : t # u =>
       \A r \in Produced(t), s \in Produced(u) : Place(r) # Place(s)

(* Every row is decoded with its own block's string table, granularity and *)
(* offsets: nothing of the previous block of the thread shows through.     *)
DecodedWithOwnBlock ==
  \A t \in Threads : \A r \in Produced(t) : r.decode = DeclaredDecode(r.frame)

(* A thread reports ever larger batch indices, and no two threads ever     *)
(* report the same one: DuckDB requires both of get_batch_index.           *)
BatchesAreOwned ==
  /\ \A t \in Threads : \A m, n \in DOMAIN chunks[t] :
       m < n => chunks[t][m].batch <= chunks[t][n].batch
  /\ \A t, u \in Threads : t # u =>
       \A m \in DOMAIN chunks[t], n \in DOMAIN chunks[u] :
         chunks[t][m].batch # chunks[u][n].batch

(* Only a thread for which no blob was left returns a chunk that is not    *)
(* full: the end of a block, or an empty block, never ends a chunk.        *)
ShortChunkOnlyAtEnd ==
  \A t \in Threads : \A n \in DOMAIN chunks[t] :
    Len(chunks[t][n].rows) < Capacity => n = Len(chunks[t]) /\ done

(* As long as nothing has failed, the shared offset is where frame         *)
(* number blob_index ends, so the next claim reads a whole frame, and      *)
(* every thread parses its frame under the index of that frame in the      *)
(* file.  (Threads that ask again after a failed call move the offset by a *)
(* prefix each and may get to a frame under the index of another.)         *)
ClaimsFollowTheFile ==
  ~SomeFailed =>
    /\ offset = IF blob_index = 0 THEN 0 ELSE FrameEnd(file.frames[blob_index])
    /\ \A t \in Threads :
         /\ claimed[t] # 0 => claimed_idx[t] + 1 = claimed[t]
         /\ block[t] # 0 => block_idx[t] + 1 = block[t]

(* The progress DuckDB shows never passes 100%, and is 100% when the scan  *)
(* has succeeded.                                                          *)
ProgressIsSound ==
  /\ bytes_read <= file.size
  /\ AllFinished => bytes_read = file.size

(* A file with a blob that cannot be read or inflated never scans to the   *)
(* end as if it were whole, whichever thread meets the blob and however    *)
(* far the others have got; a failed claim never makes the scan skip one.  *)
FaultIsNeverSilent ==
  AllFinished => \A i \in DOMAIN file.frames :
    Readable(file.frames[i]) /\ (i > 1 => ~file.frames[i].corrupt)

(* Every thread of a scan ends, with all rows or with an error.            *)
Termination == <>(phase = "Failed" \/ \A t \in Threads : pc[t] \in Stopped)

-----------------------------------------------------------------------------
(* The scan implements OsmDelivery: chunks of all threads together are     *)
(* the deliveries, and the query succeeds when every thread has finished.  *)
RowsHanded ==
  UNION {UNION {{<<t, j, m>> : m \in DOMAIN chunks[t][j].rows} : j \in DOMAIN chunks[t]} :
           t \in Threads}

Delivery == INSTANCE OsmDelivery WITH
  pending <- RowsOfFile \ Delivered,
  count   <- Cardinality(RowsHanded),
  result  <- IF SomeFailed THEN "failed"
             ELSE IF AllFinished THEN "complete" ELSE "running"

DeliversEveryRowOnce == Delivery!Spec

-----------------------------------------------------------------------------
(* st_readosm.md:25 says the function "outputs the raw OSM data (Nodes,    *)
(* Ways, Relations)": a scan that ends normally has output them all.  This *)
(* is SuccessMeansComplete for files whose blocks hold several groups.     *)
OutputsTheRawData == SuccessMeansComplete

=============================================================================
