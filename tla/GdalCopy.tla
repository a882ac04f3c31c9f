------------------------------- MODULE GdalCopy -------------------------------
(***************************************************************************)
(* A COPY down to the bytes of its file: GdalWrite with a driver of GDAL   *)
(* that writes through GdalVfs.  The driver is external.  It begins a file *)
(* with a header, appends each feature, and when the dataset is closed it  *)
(* reads the header back and writes it again with the number of features,  *)
(* as the drivers of shapefiles do.  Whenever it is told of fewer items    *)
(* than it asked for it raises an error, which becomes an exception.       *)
(***************************************************************************)
EXTENDS GdalWrite, GdalVfs

CONSTANTS
  HeaderSize, FeatureSize, \* in bytes
  Faults                   \* known faults: "torn_item"

ASSUME FileSizesAssumption ==
  HeaderSize \in Nat \ {0} /\ FeatureSize \in Nat \ {0}

VARIABLE closing  \* is the dataset being closed?

copyVars == <<vars, vfsVars, closing>>

(* A byte knows whose it is and which one.                                 *)
Bytes(of, size)   == [i \in 1..size |-> [of |-> of, byte |-> i]]
Header(n)         == Bytes(<<0, n>>, HeaderSize)
FeatureBytes(row) == Bytes(row, FeatureSize)
Foreign           == [of |-> <<-1, 0>>, byte |-> 0]

CopyInit == Init /\ VfsInit /\ closing = FALSE

(* The driver writes an item at once or byte by byte, in any case with one *)
(* call; Written says whether it believes that all is written.             *)
Written(h, bytes, all) ==
  \E k \in 0..Len(bytes), size \in {1, Len(bytes)} :
    /\ Wrote(h, bytes, k)
    /\ all <=> ItemsWritten(k, size, Len(bytes) \div size) = Len(bytes) \div size

-----------------------------------------------------------------------------
BindCopy == Bind /\ UNCHANGED <<vfsVars, closing>>

CreateFile ==
  \E access \in {<<"w", "+", "b">>, <<"w", "b", "+">>}, all \in BOOLEAN :
    /\ Written(Created(access), Header(0), all)
    /\ IF all THEN InitGlobal ELSE InitGlobalFails
    /\ UNCHANGED <<reading, closing>>

RefuseLayer == InitGlobalFails /\ UNCHANGED <<vfsVars, closing>>

CreateFeature(t) ==
  /\ MoreRows(t)
  /\ \E all \in BOOLEAN :
       /\ Written(Seek(handle, 0, "END"), FeatureBytes(<<chunk[t], row_idx[t]>>), all)
       /\ IF all THEN WriteRow(t) ELSE FailRow(t)
  /\ UNCHANGED <<reading, closing>>

RejectRow(t) == FailRow(t) /\ UNCHANGED <<vfsVars, closing>>

BeginSink(t) == (TakeChunk(t) \/ Lock(t) \/ Unlock(t)) /\ UNCHANGED <<vfsVars, closing>>

-----------------------------------------------------------------------------
(* FlushCache and Close.                                                   *)
CloseDataset ==
  /\ ~closing
  /\ stage = "writing" /\ Idle /\ next_chunk > Len(copy.chunks)
  /\ closing' = TRUE
  /\ BeginRead(Seek(handle, 0, "SET"), 1, HeaderSize)
  /\ UNCHANGED vars

ReadHeader == closing /\ ReadSome /\ UNCHANGED <<vars, closing>>

(* The driver has read the header as one item or byte by byte.  Read counts*)
(* an item whole of which it has only a part: that is left to a fault.     *)
Whole(size) ==
  /\ "torn_item" \notin Faults => size = 1 \/ reading.remaining \in {0, HeaderSize}
  /\ ItemsRead(size, HeaderSize \div size) = HeaderSize \div size

HeaderRead ==
  [i \in 1..HeaderSize |-> IF i \in DOMAIN reading.buffer THEN reading.buffer[i] ELSE Foreign]

HeaderUpdated ==
  [i \in 1..HeaderSize |-> [HeaderRead[i] EXCEPT !.of = <<@[1], Len(origin)>>]]

UpdateHeader ==
  /\ closing
  /\ \E size \in {1, HeaderSize}, all \in BOOLEAN :
       /\ Whole(size)
       /\ Written(Seek(handle, 0, "SET"), HeaderUpdated, all)
       /\ Finalize /\ stage' = IF all THEN "done" ELSE "failed"
  /\ closing' = FALSE
  /\ reading' = NoCall

(* DuckDB throws, at the first read or a later one.                        *)
CloseFails ==
  /\ closing
  /\ \E size \in {1, HeaderSize} : ~Whole(size)
  /\ Finalize /\ stage' = "failed"
  /\ closing' = FALSE
  /\ reading' = NoCall
  /\ UNCHANGED <<contents, handle>>

AbandonCopy == Abandon /\ UNCHANGED <<vfsVars, closing>>

CopyNext ==
  \/ BindCopy \/ CreateFile \/ RefuseLayer
  \/ \E t \in Threads : BeginSink(t) \/ CreateFeature(t) \/ RejectRow(t)
  \/ CloseDataset \/ ReadHeader \/ UpdateHeader \/ CloseFails \/ AbandonCopy
  \/ Ended /\ UNCHANGED copyVars

CopyFairness ==
  /\ WF_copyVars(BindCopy)
  /\ WF_copyVars(CreateFile \/ RefuseLayer)
  /\ \A t \in Threads :
       WF_copyVars(CreateFeature(t) \/ RejectRow(t)
                     \/ ((Lock(t) \/ Unlock(t)) /\ UNCHANGED <<vfsVars, closing>>))
  /\ WF_copyVars(\E t \in Threads : TakeChunk(t) /\ UNCHANGED <<vfsVars, closing>>)
  /\ WF_copyVars(CloseDataset \/ ReadHeader \/ UpdateHeader \/ CloseFails)
  /\ WF_copyVars(AbandonCopy)

CopySpec == CopyInit /\ [][CopyNext]_copyVars /\ CopyFairness

-----------------------------------------------------------------------------
(* The bytes of the file before feature i.                                 *)
Before(i) == HeaderSize + (i - 1) * FeatureSize

(* A COPY that reports no error has written every row, down to the bytes   *)
(* of the file: the header counts the features, and these follow it whole, *)
(* in the order of the layer.  DuckDB may write less than it is given, read*)
(* less than it is asked for or throw, at any call: the number of items    *)
(* that Read and Write return is all that GDAL learns of it.               *)
FileIsComplete ==
  stage = "done" =>
    /\ CompleteWhenDone
    /\ Len(contents) = HeaderSize + Len(origin) * FeatureSize
    /\ SubSeq(contents, 1, HeaderSize) = Header(Len(origin))
    /\ \A i \in DOMAIN origin :
         SubSeq(contents, Before(i) + 1, Before(i) + FeatureSize) = FeatureBytes(origin[i])

=============================================================================
