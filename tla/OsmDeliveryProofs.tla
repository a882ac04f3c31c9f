------------------------- MODULE OsmDeliveryProofs -------------------------
(***************************************************************************)
(* That a scan of an OSM file delivers the file: claims, failures and      *)
(* progress first, then the rows: once, in order, with their own block's   *)
(* parameters, and all of them; last that the scan implements OsmDelivery. *)
(***************************************************************************)
EXTENDS OsmScanProofs, FiniteSetTheorems

Ends(i) == FrameEnd(file.frames[i])

ParseStep(t) ==
  \/ EnterGroup(t) \/ EndBlock(t)
  \/ ScanElement(t) \/ PrepareDenseNodes(t) \/ SkipEntry(t) \/ EndGroup(t)
  \/ ScanDenseNodes(t)

(* What each kind of step leaves alone. *)
LEMMA ParseLeaves ==
  ASSUME NEW t \in Threads, ParseStep(t)
  PROVE  /\ pc[t] = "TryRead" /\ Len(output[t]) < Capacity
         /\ UNCHANGED <<file, phase, globals, pc, claimed, claimed_idx, block, block_idx, chunks>>
BY DEF ParseStep, EnterGroup, EndBlock, ScanElement, PrepareDenseNodes, SkipEntry, NextEntry,
       EndGroup, ScanDenseNodes, Reading

ThreadStep(t) ==
  \/ GetNextBlob(t) \/ SetBlock(t) \/ FailDecompress(t) \/ Cancel(t)
  \/ ParseStep(t) \/ EndRead(t) \/ ReturnChunk(t)

LEMMA Steps ==
  ASSUME [Next]_vars
  PROVE  UNCHANGED vars \/ InitGlobal \/ \E t \in Threads : ThreadStep(t)
BY DEF Next, ScanStep, ParseStep, ThreadStep

(* All that belongs to a thread. *)
Local(u) ==
  <<pc[u], claimed[u], claimed_idx[u], block[u], block_idx[u], state[u], block_reader[u],
    group[u], group_reader[u], dense_index[u], decode[u], output[u], chunks[u]>>

LEMMA SharedStay ==
  ASSUME NEW t \in Threads, ThreadStep(t)
  PROVE  UNCHANGED <<file, phase>> /\ (GetNextBlob(t) \/ UNCHANGED globals)
BY ParseLeaves
DEF ThreadStep, GetNextBlob, SetBlock, FailDecompress, Cancel, EndRead, ReturnChunk

LEMMA OthersStay ==
  ASSUME TypeOK, NEW t \in Threads, NEW u \in Threads \ {t}, ThreadStep(t)
  PROVE  UNCHANGED Local(u)
<1>1. CASE GetNextBlob(t)
  BY <1>1 DEF GetNextBlob, TakeBlob, Goto, parser, Local, TypeOK
<1>2. CASE SetBlock(t)
  BY <1>2 DEF SetBlock, ResetDecode, Goto, Local, TypeOK
<1>3. CASE FailDecompress(t) \/ Cancel(t) \/ EndRead(t)
  BY <1>3 DEF FailDecompress, Cancel, EndRead, Goto, parser, Local, TypeOK
<1>4. CASE ReturnChunk(t)
  BY SMTT(30), <1>4 DEF ReturnChunk, Goto, parser, Local, TypeOK
<1>5. CASE EnterGroup(t)
  BY <1>5 DEF EnterGroup, Local, TypeOK
<1>6. CASE EndBlock(t) \/ EndGroup(t)
  BY <1>6 DEF EndBlock, EndGroup, Local, TypeOK
<1>7. CASE ScanElement(t) \/ PrepareDenseNodes(t) \/ SkipEntry(t)
  BY <1>7 DEF ScanElement, PrepareDenseNodes, SkipEntry, NextEntry, Fill, Local, TypeOK
<1>8. CASE ScanDenseNodes(t)
  BY <1>8 DEF ScanDenseNodes, Fill, Local, TypeOK
<1> QED
  BY <1>1, <1>2, <1>3, <1>4, <1>5, <1>6, <1>7, <1>8 DEF ThreadStep, ParseStep

LEMMA InitGlobalStays ==
  ASSUME InitGlobal
  PROVE  /\ phase = "Bound" /\ UNCHANGED <<file, done>>
         /\ \A u \in Threads : UNCHANGED Local(u)
BY DEF InitGlobal, ReturnBlob, ThrowBlob, parser, Local

(* What a step does to the thread that takes it, seen from outside the     *)
(* parser.                                                                 *)
Asks(t) ==
  /\ GetNextBlob(t)
  /\ phase = "Running" /\ pc[t] \in {"InitLocal", "NextBlob"}
  /\ \/ TakeBlob(t) /\ pc'[t] = "Decompress"
     \/ /\ (ReturnNull /\ pc'[t] = "Drained") \/ (ThrowBlob /\ pc'[t] = "Failed")
        /\ UNCHANGED <<claimed, claimed_idx>>
  /\ UNCHANGED <<parser, output, chunks>>

Opens(t) ==
  /\ SetBlock(t)
  /\ pc[t] = "Decompress" /\ pc'[t] = "TryRead"
  /\ block'[t] = claimed[t] /\ block_idx'[t] = claimed_idx[t] /\ claimed'[t] = 0
  /\ state'[t] = "Block"
  /\ UNCHANGED <<globals, output, chunks>>

Stops(t) ==
  /\ FailDecompress(t) \/ Cancel(t)
  /\ pc[t] \notin Stopped
  /\ pc'[t] = "Failed" \/ (pc'[t] = "Cancelled" /\ SomeFailed)
  /\ UNCHANGED <<globals, claimed, claimed_idx, parser, output, chunks>>

Parses(t) ==
  /\ ParseStep(t)
  /\ pc[t] = "TryRead" /\ Len(output[t]) < Capacity
  /\ UNCHANGED <<globals, pc, claimed, claimed_idx, block, block_idx, chunks>>

Leaves(t) ==
  /\ EndRead(t)
  /\ pc[t] = "TryRead" /\ pc'[t] = "NextBlob" /\ state[t] = "End"
  /\ UNCHANGED <<globals, claimed, claimed_idx, parser, output, chunks>>

Finishes(t) ==
  /\ ReturnChunk(t) /\ output[t] = <<>>
  /\ pc[t] = "Drained" \/ (pc[t] = "TryRead" /\ Len(output[t]) >= Capacity)
  /\ pc'[t] = "Finished"
  /\ UNCHANGED <<globals, claimed, claimed_idx, parser, output, chunks>>

HandsOver(t) ==
  /\ ReturnChunk(t) /\ output[t] # <<>>
  /\ pc[t] = "Drained" \/ (pc[t] = "TryRead" /\ Len(output[t]) >= Capacity)
  /\ pc'[t] = "TryRead"
  /\ output'[t] = <<>>
  /\ chunks'[t] = Append(chunks[t], [batch |-> block_idx[t], rows |-> output[t]])
  /\ UNCHANGED <<globals, claimed, claimed_idx, parser>>

LEMMA Moves ==
  ASSUME TypeOK, NEW t \in Threads, ThreadStep(t)
  PROVE  Asks(t) \/ Opens(t) \/ Stops(t) \/ Parses(t) \/ Leaves(t) \/ Finishes(t) \/ HandsOver(t)
<1>1. CASE GetNextBlob(t)
  BY <1>1 DEF GetNextBlob, TakeBlob, Goto, TypeOK, Asks
<1>2. CASE SetBlock(t)
  BY <1>2 DEF SetBlock, Goto, TypeOK, Opens
<1>3. CASE FailDecompress(t) \/ Cancel(t)
  BY <1>3 DEF FailDecompress, Cancel, Goto, Stopped, SomeFailed, TypeOK, Stops
<1>4. CASE ParseStep(t)
  BY <1>4, ParseLeaves DEF Parses
<1>5. CASE EndRead(t)
  BY <1>5 DEF EndRead, Reading, Goto, TypeOK, Leaves
<1>6. CASE ReturnChunk(t)
  BY <1>6 DEF ReturnChunk, ChunkReady, Goto, TypeOK, Finishes, HandsOver
<1> QED
  BY <1>1, <1>2, <1>3, <1>4, <1>5, <1>6 DEF ThreadStep

LEMMA FailureLasts ==
  ASSUME TypeOK, [Next]_vars, SomeFailed
  PROVE  SomeFailed'
<1>1. CASE UNCHANGED vars
  BY <1>1 DEF vars, SomeFailed
<1>2. CASE InitGlobal
  BY <1>2, InitGlobalStays DEF Local, SomeFailed
<1>3. ASSUME NEW t \in Threads, ThreadStep(t) PROVE SomeFailed'
  <2>1. CASE phase = "Failed"
    BY <1>3, <2>1, SharedStay DEF SomeFailed
  <2>2. CASE phase # "Failed"
    <3>1. PICK u \in Threads : pc[u] = "Failed"
      BY <2>2 DEF SomeFailed
    <3>2. CASE u = t
      <4>1. pc[t] = "Failed"
        BY <3>1, <3>2
      <4> QED
        BY <1>3, <4>1, Moves
        DEF Asks, Opens, Stops, Parses, Leaves, Finishes, HandsOver, Stopped
    <3>3. CASE u # t
      BY <1>3, <3>1, <3>3, OthersStay DEF Local, SomeFailed
    <3> QED
      BY <3>2, <3>3
  <2> QED
    BY <2>1, <2>2
<1> QED
  BY <1>1, <1>2, <1>3, Steps

-----------------------------------------------------------------------------
(* The offset only grows, past what has been claimed. *)
LEMMA OffsetsAfterThrowGrow ==
  ASSUME TypeOK, ThrowBlob
  PROVE  offset' >= offset
<1>1. \A i \in FramesHere : file.frames[i] \in Frame
  BY FileShape DEF FramesHere, TypeOK
<1>2. \A i \in FramesHere : file.frames[i].header \in Nat
  BY <1>1, FrameShape
<1>3. offset \in Nat /\ Prefix \in Nat
  BY SizesAssumption DEF TypeOK
<1>4. \A o \in OffsetsAfterThrow : o >= offset
  BY <1>2, <1>3 DEF OffsetsAfterThrow
<1> QED
  BY <1>4 DEF ThrowBlob

LEMMA FramesOfFile ==
  ASSUME TypeOK
  PROVE  /\ \A i \in DOMAIN file.frames :
              /\ file.frames[i] \in Frame
              /\ file.frames[i].start \in Nat
              /\ Ends(i) \in Nat /\ Ends(i) > file.frames[i].start
         /\ \A i, j \in DOMAIN file.frames :
              i < j => Ends(i) <= file.frames[j].start /\ Ends(i) < Ends(j)
         /\ \A i \in DOMAIN file.frames : i + 1 \in DOMAIN file.frames =>
              file.frames[i + 1].start = Ends(i)
         /\ Len(file.frames) \in Nat \ {0} /\ 1 \in DOMAIN file.frames
         /\ DOMAIN file.frames = 1..Len(file.frames)
         /\ file.frames[1].start = 0
         /\ file.size \in Nat \ {0}
         /\ file.size > file.frames[Len(file.frames)].start
         /\ file.size <= Ends(Len(file.frames))
<1>1. file \in Files
  BY DEF TypeOK
<1>2. /\ DOMAIN file.frames = 1..Len(file.frames) /\ Len(file.frames) \in Nat
      /\ \A i \in DOMAIN file.frames : file.frames[i] \in Frame
  BY <1>1, FileShape
<1>3. \A i \in DOMAIN file.frames :
        /\ file.frames[i].start \in Nat
        /\ Ends(i) \in Nat /\ Ends(i) > file.frames[i].start
  <2> TAKE i \in DOMAIN file.frames
  <2>1. /\ file.frames[i].start \in Nat /\ FrameEnd(file.frames[i]) \in Nat
        /\ FrameEnd(file.frames[i]) > file.frames[i].start + Prefix
    BY <1>2, FrameShape
  <2> QED
    BY <2>1, SizesAssumption DEF Ends
<1>4. \A i, j \in DOMAIN file.frames : i < j => Ends(i) <= file.frames[j].start
  BY <1>1, FileShape DEF Ends
<1>5. \A i, j \in DOMAIN file.frames : i < j => Ends(i) < Ends(j)
  BY <1>3, <1>4
<1> QED
  BY <1>1, <1>2, <1>3, <1>4, <1>5, FileShape DEF Ends

LEMMA OffsetGrows ==
  ASSUME TypeOK, [Next]_vars
  PROVE  offset' >= offset
<1>0. offset \in Nat
  BY DEF TypeOK
<1>1. ASSUME NEW i \in DOMAIN file.frames, ReturnBlob(i) PROVE offset' >= offset
  BY <1>1, FramesOfFile DEF ReturnBlob, FramesHere, Ends
<1>2. CASE InitGlobal
  BY <1>1, <1>2, OffsetsAfterThrowGrow DEF InitGlobal
<1>3. ASSUME NEW t \in Threads, GetNextBlob(t) PROVE offset' >= offset
  BY <1>0, <1>1, <1>3, OffsetsAfterThrowGrow DEF GetNextBlob, TakeBlob, ReturnNull
<1>4. CASE UNCHANGED offset
  BY <1>0, <1>4
<1> QED
  BY <1>2, <1>3, <1>4, Steps, SharedStay DEF vars, globals

-----------------------------------------------------------------------------
(* Where a thread is, and what that says of its block and of the scan.     *)
Located(t) ==
  /\ claimed[t] # 0 => pc[t] \in {"Decompress", "Failed", "Cancelled"}
  /\ pc[t] \in {"Drained", "Finished"} => done
  /\ pc[t] = "InitLocal" => block[t] = 0
  /\ pc[t] \in {"NextBlob", "Decompress", "Drained", "Finished"} =>
       block[t] = 0 \/ state[t] = "End"
  /\ pc[t] = "Finished" => output[t] = <<>>
  /\ pc[t] = "Cancelled" => SomeFailed

LocationInv ==
  /\ phase # "Running" => \A t \in Threads : pc[t] = "InitLocal"
  /\ done => offset >= file.size
  /\ bytes_read <= file.size
  /\ \A t \in Threads : Located(t)

LEMMA LocationInit == TypeOK /\ Init => LocationInv
BY FramesOfFile DEF Init, LocationInv, Located

LEMMA LocationNext ==
  ASSUME TypeInv, LocationInv, [Next]_vars
  PROVE  LocationInv'
<1> USE DEF TypeInv
<1>0. file.size \in Nat /\ offset \in Nat /\ offset' \in Nat /\ offset' >= offset
  BY FramesOfFile, OffsetGrows, NextType DEF TypeOK
<1>1. CASE UNCHANGED vars
  BY <1>1 DEF vars, globals, parser, LocationInv, Located, SomeFailed
<1>2. CASE InitGlobal
  <2>1. /\ phase = "Bound" /\ UNCHANGED <<file, done>>
        /\ \A u \in Threads : UNCHANGED Local(u)
    BY <1>2, InitGlobalStays
  <2>2. bytes_read' <= file.size
    BY <1>0, <1>2 DEF InitGlobal, ReturnBlob, Readable, ThrowBlob, LocationInv
  <2>3. done' => offset' >= file.size
    BY <1>0, <2>1, OffsetGrows DEF InitGlobal, ThrowBlob, ReturnBlob, AtEnd, LocationInv
  <2>4. \A u \in Threads : pc[u] = "InitLocal"
    BY <2>1 DEF LocationInv
  <2>5. ASSUME NEW u \in Threads PROVE Located(u)'
    BY <2>1, <2>4, <2>5 DEF LocationInv, Located, Local
  <2> QED
    BY <2>1, <2>2, <2>3, <2>4, <2>5 DEF LocationInv, Local
<1>3. ASSUME NEW t \in Threads, ThreadStep(t) PROVE LocationInv'
  <2>1. UNCHANGED <<file, phase>> /\ (GetNextBlob(t) \/ UNCHANGED globals)
    BY <1>3, SharedStay
  <2>2. bytes_read' <= file.size
    BY <2>1 DEF globals, GetNextBlob, TakeBlob, ReturnBlob, Readable, ReturnNull, ThrowBlob,
                LocationInv
  <2>3. (done => done') /\ (done' => offset' >= file.size)
    BY <1>0, <2>1
    DEF globals, GetNextBlob, TakeBlob, ReturnBlob, ReturnNull, ThrowBlob, AtEnd, LocationInv
  <2>4. phase = "Running"
    <3>1. Asks(t) \/ pc[t] # "InitLocal" \/ Stops(t)
      BY <1>3, Moves DEF Opens, Parses, Leaves, Finishes, HandsOver
    <3>2. CASE Stops(t)
      BY <3>2, SizesAssumption
      DEF Stops, FailDecompress, Cancel, LocationInv
    <3> QED
      BY <3>1, <3>2 DEF Asks, LocationInv
  <2>5. SomeFailed => SomeFailed'
    BY FailureLasts
  <2>6. ASSUME NEW u \in Threads \ {t} PROVE Located(u)'
    BY <1>3, <2>3, <2>5, OthersStay DEF LocationInv, Located, Local
  <2>7. Located(t)'
    <3>1. Located(t)
      BY DEF LocationInv
    <3>2. CASE Asks(t)
      BY <3>1, <3>2 DEF Asks, TakeBlob, ReturnNull, parser, Located
    <3>3. CASE Opens(t)
      BY <3>1, <3>3 DEF Opens, Located
    <3>4. CASE Stops(t)
      BY <2>5, <3>1, <3>4 DEF Stops, parser, Located, Stopped
    <3>5. CASE Parses(t) \/ Leaves(t)
      BY <3>1, <3>5 DEF Parses, Leaves, parser, Located
    <3>6. CASE Finishes(t)
      BY <3>1, <3>6 , SizesAssumption DEF Finishes, parser, globals, Located
    <3>7. CASE HandsOver(t)
      BY <3>1, <3>7 DEF HandsOver, parser, Located
    <3> QED
      BY <1>3, <3>2, <3>3, <3>4, <3>5, <3>6, <3>7, Moves
  <2> QED
    BY <2>1, <2>2, <2>3, <2>4, <2>6, <2>7 DEF LocationInv
<1> QED
  BY <1>1, <1>2, <1>3, Steps

-----------------------------------------------------------------------------
(* As long as nothing has failed, blob_index counts the frames taken, all  *)
(* of them readable, and a blob that cannot be inflated is still in the    *)
(* hands of a thread.                                                      *)
Taken ==
  /\ blob_index \in {0} \cup DOMAIN file.frames
  /\ offset = IF blob_index = 0 THEN 0 ELSE Ends(blob_index)
  /\ bytes_read = offset
  /\ phase = "Bound" => blob_index = 0
  /\ phase = "Running" => blob_index > 0 /\ file.frames[1].type = "OSMHeader"
  /\ \A i \in 1..blob_index : Readable(file.frames[i])
  /\ \A i \in 2..blob_index :
       file.frames[i].corrupt => \E t \in Threads : claimed[t] = i

Numbered(t) ==
  /\ claimed[t] # 0 => claimed_idx[t] + 1 = claimed[t]
  /\ block[t] # 0 => block_idx[t] + 1 = block[t]

ClaimInv == ~SomeFailed => Taken /\ \A t \in Threads : Numbered(t)

LEMMA ClaimInit == TypeOK /\ Init => ClaimInv
BY FramesOfFile DEF Init, ClaimInv, Taken, Numbered

(* The next claim takes the next frame. *)
LEMMA NextFrame ==
  ASSUME TypeOK, Taken, NEW i \in DOMAIN file.frames, ReturnBlob(i)
  PROVE  /\ i = blob_index + 1 /\ blob_index' = i
         /\ offset' = Ends(i) /\ bytes_read' = Ends(i)
         /\ Readable(file.frames[i])
<1>1. file.frames[i].start = offset /\ Readable(file.frames[i])
  BY DEF ReturnBlob, FramesHere
<1>2. offset' = Ends(i) /\ bytes_read' = Ends(i) /\ blob_index' = blob_index + 1
  BY DEF ReturnBlob, Ends
<1>3. i \in Nat /\ i >= 1 /\ blob_index \in Nat
  BY FramesOfFile DEF TypeOK
<1>4. CASE blob_index = 0
  <2>1. CASE i > 1
    <3>1. Ends(1) <= file.frames[i].start /\ Ends(1) > 0 /\ file.frames[i].start \in Nat
          /\ Ends(1) \in Nat
      BY <1>3, <2>1, FramesOfFile
    <3> QED
      BY <1>1, <1>4, <3>1 DEF Taken
  <2>2. CASE i = 1
    BY <1>1, <1>2, <1>4, <2>2
  <2> QED
    BY <1>3, <2>1, <2>2
<1>5. CASE blob_index # 0
  <2>1. blob_index \in DOMAIN file.frames /\ file.frames[i].start = Ends(blob_index)
    BY <1>1, <1>5 DEF Taken
  <2>2. /\ Ends(blob_index) \in Nat /\ Ends(blob_index) > file.frames[blob_index].start
        /\ file.frames[blob_index].start \in Nat
        /\ Ends(i) \in Nat /\ Ends(i) > file.frames[i].start /\ file.frames[i].start \in Nat
    BY <2>1, FramesOfFile
  <2>3. i > blob_index
    <3>1. CASE i = blob_index
      BY <2>1, <2>2, <3>1
    <3>2. CASE i < blob_index
      <4>1. Ends(i) <= file.frames[blob_index].start
        BY <2>1, <3>2, FramesOfFile
      <4> QED
        BY <2>1, <2>2, <4>1
    <3> QED
      BY <1>3, <3>1, <3>2
  <2>4. blob_index + 1 \in DOMAIN file.frames
    BY <1>3, <1>5, <2>3, FramesOfFile
  <2>5. file.frames[blob_index + 1].start = Ends(blob_index)
        /\ Ends(blob_index + 1) > file.frames[blob_index + 1].start
        /\ Ends(blob_index + 1) \in Nat
    BY <2>1, <2>4, FramesOfFile
  <2>6. ~(blob_index + 1 < i)
    <3> SUFFICES ASSUME blob_index + 1 < i PROVE FALSE
      OBVIOUS
    <3>1. Ends(blob_index + 1) <= file.frames[i].start
      BY <2>4, FramesOfFile
    <3> QED
      BY <2>1, <2>2, <2>5, <3>1
  <2> QED
    BY <1>1, <1>2, <1>3, <2>3, <2>6
<1> QED
  BY <1>4, <1>5

LEMMA ClaimInitGlobal ==
  ASSUME TypeOK, LocationInv, ClaimInv, InitGlobal, ~SomeFailed'
  PROVE  ClaimInv'
<1>1. /\ phase = "Bound" /\ UNCHANGED <<file, done>>
      /\ \A u \in Threads : UNCHANGED Local(u)
      /\ phase' = "Running" /\ ~SomeFailed
  BY InitGlobalStays DEF InitGlobal, SomeFailed, Local
<1>2. Taken /\ blob_index = 0 /\ \A u \in Threads : Numbered(u)
  BY <1>1 DEF ClaimInv, Taken
<1>3. PICK i \in DOMAIN file.frames : ReturnBlob(i) /\ file.frames[i].type = "OSMHeader"
  BY <1>1 DEF InitGlobal
<1>4. /\ i = 1 /\ blob_index' = 1 /\ offset' = Ends(1) /\ bytes_read' = Ends(1)
      /\ Readable(file.frames[1])
  BY <1>2, <1>3, NextFrame
<1>5. Taken'
  BY <1>1, <1>3, <1>4 DEF Taken, Ends, Readable
<1>6. \A u \in Threads : Numbered(u)'
  BY <1>1, <1>2 DEF Numbered, Local
<1> QED
  BY <1>5, <1>6 DEF ClaimInv

LEMMA ClaimThreadStep ==
  ASSUME TypeInv, LocationInv, ClaimInv, NEW t \in Threads, ThreadStep(t), ~SomeFailed, ~SomeFailed'
  PROVE  ClaimInv'
<1> USE DEF TypeInv
<1>1. UNCHANGED <<file, phase>>
  BY SharedStay
<1>2. Taken /\ \A u \in Threads : Numbered(u)
  BY DEF ClaimInv
<1>3. \A u \in Threads \ {t} : UNCHANGED <<claimed[u], claimed_idx[u], block[u], block_idx[u]>>
  BY OthersStay DEF Local
<1>4. \A u \in Threads \ {t} : Numbered(u)'
  BY <1>2, <1>3 DEF Numbered
<1>5. CASE UNCHANGED <<globals, claimed, claimed_idx, block, block_idx>>
  BY <1>1, <1>2, <1>5 DEF globals, ClaimInv, Taken, Numbered, Ends, Readable
<1>6. CASE Asks(t) /\ ReturnNull
  <2>1. ~TakeBlob(t)
    BY <1>6 DEF TakeBlob, ReturnBlob, ReturnNull
  <2>2. UNCHANGED <<offset, blob_index, bytes_read, claimed, claimed_idx, block, block_idx>>
    BY <1>6, <2>1 DEF Asks, ReturnNull, parser
  <2>3. Taken' /\ \A u \in Threads : Numbered(u)'
    BY <1>1, <1>2, <2>2 DEF Taken, Numbered, Ends, Readable
  <2> QED
    BY <2>3 DEF ClaimInv
<1>7. CASE Asks(t) /\ TakeBlob(t)
  <2>1. PICK i \in DOMAIN file.frames :
          ReturnBlob(i) /\ claimed' = [claimed EXCEPT ![t] = i]
    BY <1>7 DEF TakeBlob
  <2>2. /\ i = blob_index + 1 /\ blob_index' = i
        /\ offset' = Ends(i) /\ bytes_read' = Ends(i)
        /\ Readable(file.frames[i])
    BY <1>2, <2>1, NextFrame
  <2>3. /\ claimed[t] = 0 /\ claimed'[t] = i /\ claimed_idx'[t] = blob_index
        /\ phase = "Running" /\ UNCHANGED <<block[t], block_idx[t]>>
    BY <1>7, <2>1 DEF Asks, TakeBlob, parser, LocationInv, Located, TypeOK
  <2>4. blob_index \in Nat
    BY DEF TypeOK
  <2>5. ASSUME NEW j \in 2..blob_index', file.frames[j].corrupt
        PROVE  \E u \in Threads : claimed'[u] = j
    <3>1. CASE j = i
      BY <2>3, <3>1
    <3>2. CASE j # i
      <4>1. j \in 2..blob_index
        BY <2>2, <2>4, <3>2
      <4>2. PICK u \in Threads : claimed[u] = j
        BY <1>2, <2>5, <4>1 DEF Taken
      <4> QED
        BY <1>3, <2>3, <4>1, <4>2
    <3> QED
      BY <3>1, <3>2
  <2>6. \A j \in 1..blob_index' : Readable(file.frames[j])
    BY <1>2, <2>2, <2>4 DEF Taken
  <2>7. Taken'
    BY <1>1, <1>2, <2>2, <2>3, <2>4, <2>5, <2>6 DEF Taken, Ends, Readable
  <2>8. Numbered(t)'
    BY <1>2, <2>2, <2>3 DEF Numbered
  <2> QED
    BY <1>4, <2>7, <2>8 DEF ClaimInv
<1>8. CASE Opens(t)
  <2>1. /\ claimed'[t] = 0 /\ block'[t] = claimed[t] /\ block_idx'[t] = claimed_idx[t]
        /\ claimed[t] # 0 /\ ~file.frames[claimed[t]].corrupt
    BY <1>8 DEF Opens, SetBlock, ParserOK, Standing
  <2>2. Numbered(t)'
    BY <1>2, <2>1 DEF Numbered
  <2>3. ASSUME NEW j \in 2..blob_index, file.frames[j].corrupt
        PROVE  \E u \in Threads : claimed'[u] = j
    <3>1. PICK u \in Threads : claimed[u] = j
      BY <1>2, <2>3 DEF Taken
    <3> QED
      BY <1>3, <2>1, <2>3, <3>1
  <2>4. Taken'
    BY <1>1, <1>2, <1>8, <2>3 DEF Opens, globals, Taken, Ends, Readable
  <2> QED
    BY <1>4, <2>2, <2>4 DEF ClaimInv
<1>9. ~Stops(t) /\ ~(Asks(t) /\ ThrowBlob /\ pc'[t] = "Failed")
  BY DEF Stops, SomeFailed
<1>10. Asks(t) => ReturnNull \/ TakeBlob(t)
  BY <1>9 DEF Asks
<1> QED
  BY <1>5, <1>6, <1>7, <1>8, <1>9, <1>10, Moves
  DEF Parses, Leaves, Finishes, HandsOver, parser

LEMMA ClaimNext ==
  ASSUME TypeInv, LocationInv, ClaimInv, [Next]_vars
  PROVE  ClaimInv'
<1> SUFFICES ASSUME ~SomeFailed' PROVE ClaimInv'
  BY DEF ClaimInv
<1>1. ~SomeFailed
  BY FailureLasts DEF TypeInv
<1>2. CASE UNCHANGED vars
  BY <1>2 DEF vars, globals, parser, ClaimInv, Taken, Numbered, SomeFailed, Ends, Readable
<1>3. CASE InitGlobal
  BY <1>3, ClaimInitGlobal DEF TypeInv
<1>4. ASSUME NEW t \in Threads, ThreadStep(t) PROVE ClaimInv'
  BY <1>1, <1>4, ClaimThreadStep
<1> QED
  BY <1>2, <1>3, <1>4, Steps

ScanInv == TypeInv /\ LocationInv /\ ClaimInv

LEMMA ScanInvariant == Spec => []ScanInv
<1>1. Init => ScanInv
  BY InitType, LocationInit, ClaimInit DEF ScanInv, TypeInv
<1>2. ScanInv /\ [Next]_vars => ScanInv'
  BY NextType, LocationNext, ClaimNext DEF ScanInv
<1> QED
  BY <1>1, <1>2, PTL DEF Spec

(* Until something fails GetNextBlob reads the frames one after the other, *)
(* whichever threads ask, and every thread parses its frame under the      *)
(* frame's index in the file.                                              *)
THEOREM ClaimsFollow == Spec => []ClaimsFollowTheFile
<1>1. ScanInv => ClaimsFollowTheFile
  BY DEF ScanInv, ClaimInv, Taken, Numbered, Ends, ClaimsFollowTheFile
<1> QED
  BY <1>1, ScanInvariant, PTL

(* When every thread has finished, all frames of the file have been taken. *)
LEMMA AllTaken ==
  ASSUME ScanInv, AllFinished
  PROVE  /\ ~SomeFailed /\ Taken /\ phase = "Running" /\ done
         /\ blob_index = Len(file.frames) /\ bytes_read >= file.size
         /\ \A t \in Threads : claimed[t] = 0
<1> USE DEF ScanInv, TypeInv
<1>1. PICK t \in Threads : TRUE
  BY SizesAssumption
<1>2. done /\ phase = "Running"
  BY <1>1 DEF AllFinished, LocationInv, Located
<1>3. ~SomeFailed
  BY <1>2 DEF AllFinished, SomeFailed
<1>4. Taken /\ blob_index # 0 /\ blob_index \in DOMAIN file.frames
  BY <1>2, <1>3 DEF ClaimInv, Taken
<1>5. Ends(blob_index) >= file.size
  BY <1>2, <1>4 DEF LocationInv, Taken
<1>6. ~(blob_index < Len(file.frames))
  <2> SUFFICES ASSUME blob_index < Len(file.frames) PROVE FALSE
    OBVIOUS
  <2>1. /\ Len(file.frames) \in DOMAIN file.frames
        /\ file.frames[Len(file.frames)].start \in Nat
        /\ file.size \in Nat
        /\ file.size > file.frames[Len(file.frames)].start
        /\ Ends(blob_index) \in Nat
    BY <1>4, FramesOfFile
  <2>2. Ends(blob_index) <= file.frames[Len(file.frames)].start
    BY <1>4, <2>1, FramesOfFile
  <2> QED
    BY <1>5, <2>1, <2>2
<1>7. blob_index = Len(file.frames)
  BY <1>4, <1>6, FramesOfFile
<1>8. \A u \in Threads : claimed[u] = 0
  BY DEF AllFinished, LocationInv, Located
<1> QED
  BY <1>2, <1>3, <1>4, <1>5, <1>7, <1>8 DEF Taken

(* The bar of ReadOsmProgress never passes 100% and ends there.            *)
THEOREM Progress == Spec => []ProgressIsSound
<1>1. ScanInv => ProgressIsSound
  <2> SUFFICES ASSUME ScanInv PROVE ProgressIsSound
    OBVIOUS
  <2>1. bytes_read \in Nat /\ file.size \in Nat /\ bytes_read <= file.size
    BY FramesOfFile DEF ScanInv, TypeInv, TypeOK, LocationInv
  <2> QED
    BY <2>1, AllTaken DEF ProgressIsSound
<1> QED
  BY <1>1, ScanInvariant, PTL

(* Any number of threads: a scan that all of them end normally has met no  *)
(* frame that cannot be read and no blob that cannot be inflated.          *)
THEOREM FaultsShow == Spec => []FaultIsNeverSilent
<1>1. ScanInv => FaultIsNeverSilent
  <2> SUFFICES ASSUME ScanInv, AllFinished, NEW i \in DOMAIN file.frames
               PROVE  /\ Readable(file.frames[i])
                      /\ i > 1 => ~file.frames[i].corrupt
    BY DEF FaultIsNeverSilent
  <2>1. i \in 1..blob_index /\ (i > 1 => i \in 2..blob_index)
    BY AllTaken, FramesOfFile DEF ScanInv, TypeInv
  <2>2. i > 1 => i # 0
    BY <2>1, AllTaken, FramesOfFile DEF ScanInv, TypeInv
  <2> QED
    BY <2>1, <2>2, AllTaken DEF Taken
<1> QED
  BY <1>1, ScanInvariant, PTL

-----------------------------------------------------------------------------
(* A thread that has returned a short chunk has nothing left to do: its    *)
(* block is used up and no other will be given to it.                      *)
Spent(t) ==
  \A n \in DOMAIN chunks[t] :
    Len(chunks[t][n].rows) < Capacity =>
      /\ n = Len(chunks[t])
      /\ done
      /\ output[t] = <<>>
      /\ state[t] = "End"
      /\ pc[t] \in {"TryRead", "NextBlob", "Drained", "Finished", "Cancelled"}

ShortInv == \A t \in Threads : Spent(t)

LEMMA DoneLasts ==
  ASSUME [Next]_vars, done
  PROVE  done'
<1>1. ASSUME NEW t \in Threads, GetNextBlob(t) PROVE done'
  BY <1>1 DEF GetNextBlob, TakeBlob, ReturnBlob, ReturnNull, ThrowBlob
<1> QED
  BY <1>1, Steps, InitGlobalStays, SharedStay DEF vars, globals

LEMMA NotAtEnd ==
  ASSUME NEW t \in Threads, ParseStep(t)
  PROVE  state[t] \in {"Block", "Group", "DenseNodes"}
BY DEF ParseStep, EnterGroup, EndBlock, ScanElement, PrepareDenseNodes, SkipEntry, NextEntry,
       EndGroup, ScanDenseNodes, Reading

LEMMA ShortNext ==
  ASSUME ScanInv, ShortInv, [Next]_vars
  PROVE  ShortInv'
<1> USE DEF ScanInv, TypeInv
<1>1. CASE UNCHANGED vars
  BY <1>1 DEF vars, globals, parser, ShortInv, Spent
<1>2. CASE InitGlobal
  BY <1>2, InitGlobalStays DEF Local, ShortInv, Spent
<1>3. ASSUME NEW t \in Threads, ThreadStep(t) PROVE ShortInv'
  <2>1. done => done'
    BY DoneLasts
  <2>2. ASSUME NEW u \in Threads \ {t} PROVE Spent(u)'
    BY <1>3, <2>1, OthersStay DEF Local, ShortInv, Spent
  <2>3. SUFFICES Spent(t)'
    BY <2>2 DEF ShortInv
  <2>3a. Spent(t) /\ Located(t) /\ Standing(t)
    BY DEF ShortInv, LocationInv, ParserOK
  <2>4. CASE Asks(t)
    <3>1. done => ReturnNull /\ pc'[t] = "Drained"
      BY <2>4 DEF Asks, TakeBlob, ReturnBlob, ThrowBlob, AtEnd
    <3> QED
      BY <2>1, <2>3a, <2>4, <3>1 DEF Asks, parser, Spent
  <2>5. CASE Opens(t)
    BY <2>3a, <2>5 DEF Opens, Spent
  <2>6. CASE Stops(t)
    <3>1. pc'[t] = "Cancelled" \/ pc[t] = "Decompress"
      BY <2>6 DEF Stops, FailDecompress, Cancel, Goto, TypeOK
    <3> QED
      BY <2>1, <2>3a, <2>6, <3>1 DEF Stops, parser, Spent
  <2>7. CASE Parses(t)
    BY <2>3a, <2>7, NotAtEnd DEF Parses, Spent
  <2>8. CASE Leaves(t) \/ Finishes(t)
    BY <2>1, <2>3a, <2>8 DEF Leaves, Finishes, parser, Spent
  <2>9. CASE HandsOver(t)
    <3> DEFINE chunk == [batch |-> block_idx[t], rows |-> output[t]]
    <3>1. chunks[t] \in Seq(Chunk) /\ chunk \in Chunk
      BY DEF TypeOK, Chunk
    <3>2. chunks'[t] = Append(chunks[t], chunk)
      BY <2>9 DEF HandsOver
    <3>3. chunk.rows = output[t] /\ output[t] # <<>> /\ output'[t] = <<>> /\ pc'[t] = "TryRead"
      BY <2>9 DEF HandsOver
    <3> HIDE DEF chunk
    <3>4. /\ DOMAIN chunks'[t] = DOMAIN chunks[t] \cup {Len(chunks[t]) + 1}
          /\ \A n \in DOMAIN chunks[t] : chunks'[t][n] = chunks[t][n]
          /\ chunks'[t][Len(chunks[t]) + 1] = chunk
          /\ Len(chunks'[t]) = Len(chunks[t]) + 1
      BY <3>1, <3>2, Appended
    <3>5. \A n \in DOMAIN chunks[t] : ~(Len(chunks[t][n].rows) < Capacity)
      BY <2>3a, <3>3 DEF Spent
    <3>6. CASE pc[t] = "Drained"
      <4>1. done' /\ state'[t] = "End"
        BY <2>1, <2>3a, <2>9, <3>3, <3>6 DEF HandsOver, parser, Located, Standing
      <4> QED
        BY <3>3, <3>4, <3>5, <4>1 DEF Spent
    <3>7. CASE Len(output[t]) >= Capacity
      <4>1. ~(Len(output[t]) < Capacity)
        BY <3>7, SizesAssumption DEF TypeOK
      <4> QED
        BY <3>3, <3>4, <3>5, <4>1 DEF Spent
    <3> QED
      BY <2>9, <3>6, <3>7 DEF HandsOver
  <2> QED
    BY <1>3, <2>4, <2>5, <2>6, <2>7, <2>8, <2>9, Moves
<1> QED
  BY <1>1, <1>2, <1>3, Steps

(* Execute fills every chunk but the last of a thread, whose short chunk   *)
(* says that the file has been used up.                                    *)
THEOREM ShortChunks == Spec => []ShortChunkOnlyAtEnd
<1>1. Init => ShortInv
  BY DEF Init, ShortInv, Spent
<1>2. ScanInv /\ ShortInv /\ [Next]_vars => ShortInv'
  BY ShortNext
<1>3. ShortInv => ShortChunkOnlyAtEnd
  BY DEF ShortInv, Spent, ShortChunkOnlyAtEnd
<1> QED
  BY <1>1, <1>2, <1>3, ScanInvariant, PTL DEF Spec

-----------------------------------------------------------------------------
(* The rows of a thread and the place it has reached in its block.         *)

Behind(t, r) ==
  /\ state[t] = "Block" => r.field < block_reader[t]
  /\ state[t] = "Group" =>
       \/ r.field < group[t]
       \/ r.field = group[t] /\ r.entry < group_reader[t]
  /\ state[t] = "DenseNodes" =>
       \/ r.field < group[t]
       \/ /\ r.field = group[t]
          /\ \/ r.entry < group_reader[t] - 1
             \/ r.entry = group_reader[t] - 1 /\ r.item <= dense_index[t]

Passed(t, r) ==
  /\ r.frame # 0 /\ r.frame <= block[t]
  /\ r.frame = block[t] => Behind(t, r)

Ahead(r, s) ==
  \/ r.frame < s.frame
  \/ r.frame = s.frame /\ r.field < s.field
  \/ r.frame = s.frame /\ r.field = s.field /\ r.entry < s.entry
  \/ r.frame = s.frame /\ r.field = s.field /\ r.entry = s.entry /\ r.item < s.item

InGroupOrder(t) ==
  block[t] # 0 /\ state[t] \in {"Group", "DenseNodes"} => group[t] < block_reader[t]

LEMMA EarlierAhead ==
  ASSUME NEW r, NEW s
  PROVE  Ahead(r, s) => Earlier(Place(r), Place(s))
<1>1. CASE r.frame < s.frame
  <2>1. 1 \in 1..4 /\ \A m \in 1..1 - 1 : Place(r)[m] = Place(s)[m]
    OBVIOUS
  <2> QED
    BY <1>1, <2>1 DEF Earlier, Place
<1>2. CASE r.frame = s.frame /\ r.field < s.field
  <2>1. 2 \in 1..4 /\ \A m \in 1..2 - 1 : Place(r)[m] = Place(s)[m]
    BY <1>2 DEF Place
  <2> QED
    BY <1>2, <2>1 DEF Earlier, Place
<1>3. CASE r.frame = s.frame /\ r.field = s.field /\ r.entry < s.entry
  <2>1. 3 \in 1..4 /\ \A m \in 1..3 - 1 : Place(r)[m] = Place(s)[m]
    BY <1>3 DEF Place
  <2> QED
    BY <1>3, <2>1 DEF Earlier, Place
<1>4. CASE r.frame = s.frame /\ r.field = s.field /\ r.entry = s.entry /\ r.item < s.item
  <2>1. 4 \in 1..4 /\ \A m \in 1..4 - 1 : Place(r)[m] = Place(s)[m]
    BY <1>4 DEF Place
  <2> QED
    BY <1>4, <2>1 DEF Earlier, Place
<1> QED
  BY <1>1, <1>2, <1>3, <1>4 DEF Ahead

LEMMA AfterLater ==
  ASSUME NEW fields \in Seq(Field), NEW q \in DOMAIN fields, NEW pos \in Nat, pos > q, NEW tag
  PROVE  After(fields, pos, tag) \in Nat /\ After(fields, pos, tag) > q
<1>1. Matches(fields, pos, tag) \subseteq pos..Len(fields)
  BY DEF Matches
<1>2. q \in Nat /\ q <= Len(fields) /\ Len(fields) \in Nat
  OBVIOUS
<1>3. CASE Matches(fields, pos, tag) = {}
  BY <1>2, <1>3 DEF After
<1>4. CASE Matches(fields, pos, tag) # {}
  <2> DEFINE p == CHOOSE m \in Matches(fields, pos, tag) : TRUE
  <2>1. p \in pos..Len(fields)
    BY <1>1, <1>4
  <2>2. After(fields, pos, tag) = p + 1
    BY <1>4 DEF After
  <2> HIDE DEF p
  <2> QED
    BY <1>2, <2>1, <2>2
<1> QED
  BY <1>3, <1>4

(* What a step of the parser adds to the chunk: rows of its block that     *)
(* follow, in order, all it has passed, and that it has passed then.       *)
Extends(t, rows) ==
  /\ rows \in Seq(Row)
  /\ output'[t] = output[t] \o rows
  /\ \A n \in DOMAIN rows : rows[n].frame = block[t] /\ rows[n].decode = decode[t]
  /\ \A r \in Row : Passed(t, r) => Passed(t, r)' /\ \A n \in DOMAIN rows : Ahead(r, rows[n])
  /\ \A n \in DOMAIN rows : Passed(t, rows[n])'
  /\ \A m, n \in DOMAIN rows : m < n => Ahead(rows[m], rows[n])

LEMMA BlockNumbers ==
  ASSUME TypeOK, NEW t \in Threads
  PROVE  block[t] \in Nat /\ claimed[t] \in Nat
<1>1. /\ block \in [Threads -> {0} \cup DOMAIN file.frames]
      /\ claimed \in [Threads -> {0} \cup DOMAIN file.frames]
  BY DEF TypeOK
<1>2. DOMAIN file.frames \subseteq Nat
  BY FrameNumbers DEF TypeOK
<1> QED
  BY <1>1, <1>2

LEMMA NothingAdded ==
  ASSUME TypeInv, NEW t \in Threads, UNCHANGED output[t],
         \A r \in Row : Passed(t, r) => Passed(t, r)'
  PROVE  Extends(t, <<>>)
BY DEF Extends, TypeInv, TypeOK

LEMMA EnterGroupExtends ==
  ASSUME TypeInv, NEW t \in Threads, EnterGroup(t)
  PROVE  Extends(t, <<>>) /\ InGroupOrder(t)'
<1> USE DEF TypeInv
<1>1. block[t] # 0 /\ Fields(t) \in Seq(Field) /\ state[t] = "Block"
  BY FieldsShape DEF EnterGroup, Reading, ParserOK, Standing
<1>2. PICK q \in Matches(Fields(t), block_reader[t], 2) :
        /\ group' = [group EXCEPT ![t] = q]
        /\ block_reader' = [block_reader EXCEPT
             ![t] = After(Fields(t), After(Fields(t), After(Fields(t), q + 1, 17), 19), 20)]
  BY DEF EnterGroup
<1>3. q \in DOMAIN Fields(t) /\ q >= block_reader[t] /\ q \in Nat /\ block_reader[t] \in Nat
  BY <1>1 DEF Matches, TypeOK
<1> DEFINE p19 == After(Fields(t), q + 1, 17)
           p20 == After(Fields(t), p19, 19)
           end == After(Fields(t), p20, 20)
<1>4. p19 \in Nat /\ p19 > q
  <2>1. q + 1 \in Nat /\ q + 1 > q
    BY <1>3
  <2> QED
    BY <1>1, <1>3, <2>1, AfterLater
<1>5. p20 \in Nat /\ p20 > q
  <2> HIDE DEF p19
  <2> QED
    BY <1>1, <1>3, <1>4, AfterLater
<1>6. end \in Nat /\ end > q
  <2> HIDE DEF p20
  <2> QED
    BY <1>1, <1>3, <1>5, AfterLater
<1>7. block_reader'[t] = end /\ group'[t] = q /\ state'[t] = "Group" /\ UNCHANGED <<block, output>>
  BY <1>2 DEF EnterGroup, TypeOK
<1> HIDE DEF p19, p20, end
<1>8. ASSUME NEW r \in Row, Passed(t, r) PROVE Passed(t, r)'
  BY <1>1, <1>3, <1>7, <1>8 DEF Passed, Behind, Row
<1> QED
  BY <1>6, <1>7, <1>8, NothingAdded DEF InGroupOrder

LEMMA SilentExtends ==
  ASSUME TypeInv, NEW t \in Threads, InGroupOrder(t),
         EndBlock(t) \/ PrepareDenseNodes(t) \/ SkipEntry(t) \/ EndGroup(t)
  PROVE  Extends(t, <<>>) /\ InGroupOrder(t)'
<1> USE DEF TypeInv
<1>1. group[t] \in Nat /\ group_reader[t] \in Nat /\ block_reader[t] \in Nat /\ dense_index[t] \in Nat
      /\ block[t] # 0
  BY DEF TypeOK, EndBlock, PrepareDenseNodes, SkipEntry, EndGroup, NextEntry, Reading, ParserOK,
         Standing
<1>2. CASE EndBlock(t)
  <2>1. UNCHANGED <<block[t], output[t]>> /\ state'[t] = "End"
    BY <1>2 DEF EndBlock, TypeOK
  <2> QED
    BY <2>1, NothingAdded DEF Passed, Behind, InGroupOrder
<1>3. CASE PrepareDenseNodes(t)
  <2>1. /\ UNCHANGED <<block[t], output[t], group[t], block_reader[t]>>
        /\ state[t] = "Group" /\ state'[t] = "DenseNodes"
        /\ group_reader'[t] = group_reader[t] + 1
    BY <1>3 DEF PrepareDenseNodes, NextEntry, Reading, TypeOK
  <2>2. ASSUME NEW r \in Row, Passed(t, r) PROVE Passed(t, r)'
    BY <1>1, <2>1, <2>2 DEF Passed, Behind, Row
  <2> QED
    BY <2>1, <2>2, NothingAdded DEF InGroupOrder
<1>4. CASE SkipEntry(t)
  <2>1. /\ UNCHANGED <<block[t], output[t], group[t], block_reader[t], state[t]>>
        /\ state[t] = "Group"
        /\ group_reader'[t] = group_reader[t] + 1
    BY <1>4 DEF SkipEntry, NextEntry, Reading, TypeOK
  <2>2. ASSUME NEW r \in Row, Passed(t, r) PROVE Passed(t, r)'
    BY <1>1, <2>1, <2>2 DEF Passed, Behind, Row
  <2> QED
    BY <2>1, <2>2, NothingAdded DEF InGroupOrder
<1>5. CASE EndGroup(t)
  <2>1. /\ UNCHANGED <<block[t], output[t], group[t], block_reader[t]>>
        /\ state[t] = "Group" /\ state'[t] = "Block"
    BY <1>5 DEF EndGroup, Reading, TypeOK
  <2>2. ASSUME NEW r \in Row, Passed(t, r) PROVE Passed(t, r)'
    BY <1>1, <2>1, <2>2 DEF Passed, Behind, Row, InGroupOrder
  <2> QED
    BY <2>1, <2>2, NothingAdded DEF InGroupOrder
<1> QED
  BY <1>2, <1>3, <1>4, <1>5

LEMMA ScanElementExtends ==
  ASSUME TypeInv, NEW t \in Threads, InGroupOrder(t), ScanElement(t)
  PROVE  /\ InGroupOrder(t)'
         /\ \E rows \in Seq(Row) :
              rows = <<MakeRow(t, group_reader[t], 1)>> /\ Extends(t, rows)
<1> USE DEF TypeInv
<1>1. group[t] \in Nat /\ group_reader[t] \in Nat /\ block[t] # 0 /\ block[t] \in Nat
  BY InGroup, BlockNumbers DEF TypeOK, ScanElement, NextEntry
<1>2. MakeRow(t, group_reader[t], 1) \in Row
  BY <1>1, RowType
<1>3. PICK row \in Row : row = MakeRow(t, group_reader[t], 1)
  BY <1>2
<1>4. PICK rows \in Seq(Row) : rows = <<row>>
  <2>1. <<row>> \in Seq(Row)
    OBVIOUS
  <2> QED
    BY <2>1
<1>5. /\ UNCHANGED <<block[t], group[t], block_reader[t], state[t]>>
      /\ state[t] = "Group"
      /\ group_reader'[t] = group_reader[t] + 1
      /\ output'[t] = output[t] \o rows
  BY <1>3, <1>4 DEF ScanElement, NextEntry, Reading, Fill, TypeOK
<1>6. /\ row.frame = block[t] /\ row.decode = decode[t]
      /\ row.field = group[t] /\ row.entry = group_reader[t]
  BY <1>3 DEF MakeRow
<1>7. DOMAIN rows = {1} /\ rows[1] = row
  BY <1>4
<1>8. ASSUME NEW r \in Row, Passed(t, r) PROVE Passed(t, r)' /\ Ahead(r, row)
  <2>1. r.frame < block[t] \/ r.frame = block[t]
    BY <1>1, <1>8 DEF Passed, Row
  <2>2. Ahead(r, row)
    BY <1>1, <1>5, <1>6, <1>8, <2>1 DEF Passed, Behind, Ahead, Row
  <2>3. Passed(t, r)'
    BY <1>1, <1>5, <1>8 DEF Passed, Behind, Row
  <2> QED
    BY <2>2, <2>3
<1>9. Passed(t, row)'
  <2>1. block[t] <= block[t] /\ group_reader[t] < group_reader[t] + 1
    BY <1>1
  <2> QED
    BY <1>1, <1>5, <1>6, <2>1 DEF Passed, Behind
<1>10. Extends(t, rows)
  BY <1>5, <1>6, <1>7, <1>8, <1>9 DEF Extends
<1>11. InGroupOrder(t)'
  BY <1>5 DEF InGroupOrder
<1> QED
  BY <1>3, <1>4, <1>10, <1>11

LEMMA ScanDenseNodesExtends ==
  ASSUME TypeInv, NEW t \in Threads, InGroupOrder(t), ScanDenseNodes(t)
  PROVE  /\ InGroupOrder(t)'
         /\ \E n \in Nat, rows \in Seq(Row) :
              /\ rows = [i \in 1..n |-> MakeRow(t, group_reader[t] - 1, dense_index[t] + i)]
              /\ Extends(t, rows)
              /\ dense_index'[t] = dense_index[t] + n
              /\ dense_index[t] + n <= DenseSize(t)
              /\ state'[t] = "DenseNodes" \/ dense_index[t] + n >= DenseSize(t)
<1> USE DEF TypeInv
<1>1. /\ block[t] # 0 /\ Entries(t) \in Seq(Entry) /\ group_reader[t] - 1 \in DOMAIN Entries(t)
      /\ dense_index[t] <= DenseSize(t) /\ state[t] = "DenseNodes"
  BY InGroup DEF ScanDenseNodes, Reading, ParserOK, Standing
<1>2. /\ group_reader[t] \in Nat \ {0} /\ group[t] \in Nat
      /\ dense_index[t] \in Nat /\ block[t] \in Nat
  BY BlockNumbers DEF TypeOK
<1>3. PICK e \in Nat : e = group_reader[t] - 1
  BY <1>2
<1>4. Entries(t)[e] \in Entry
  BY <1>1, <1>3
<1>5. DenseSize(t) \in Nat
  BY <1>3, <1>4 DEF DenseSize, Entry
<1>6. Len(output[t]) \in Nat /\ Len(output[t]) < Capacity /\ Capacity \in Nat
  BY SizesAssumption DEF ScanDenseNodes, Reading, TypeOK
<1>7. Lesser(Capacity - Len(output[t]), DenseSize(t) - dense_index[t]) \in Nat
  BY <1>1, <1>2, <1>5, <1>6 DEF Lesser
<1>8. PICK n \in Nat : n = Lesser(Capacity - Len(output[t]), DenseSize(t) - dense_index[t])
  BY <1>7
<1>9. ASSUME NEW i \in 1..n
      PROVE  /\ MakeRow(t, e, dense_index[t] + i) \in Row
             /\ MakeRow(t, e, dense_index[t] + i).frame = block[t]
             /\ MakeRow(t, e, dense_index[t] + i).decode = decode[t]
             /\ MakeRow(t, e, dense_index[t] + i).field = group[t]
             /\ MakeRow(t, e, dense_index[t] + i).entry = e
             /\ MakeRow(t, e, dense_index[t] + i).item = dense_index[t] + i
  <2>1. dense_index[t] + i \in Nat
    BY <1>2, <1>8
  <2> QED
    BY <1>3, <2>1, RowType DEF MakeRow
<1>10. [i \in 1..n |-> MakeRow(t, e, dense_index[t] + i)] \in Seq(Row)
  BY <1>9
<1>11. PICK rows \in Seq(Row) : rows = [i \in 1..n |-> MakeRow(t, e, dense_index[t] + i)]
  BY <1>10
<1>12. /\ DOMAIN rows = 1..n
       /\ \A i \in DOMAIN rows :
            /\ rows[i] \in Row
            /\ rows[i].frame = block[t] /\ rows[i].decode = decode[t]
            /\ rows[i].field = group[t] /\ rows[i].entry = e
            /\ rows[i].item = dense_index[t] + i
  BY <1>9, <1>11
<1>13. /\ UNCHANGED <<block[t], group[t], group_reader[t], block_reader[t]>>
       /\ output'[t] = output[t] \o rows
       /\ dense_index'[t] = dense_index[t] + n
       /\ state'[t] = IF DenseDone(t, dense_index[t] + n) THEN "Group" ELSE "DenseNodes"
  BY <1>1, <1>3, <1>8, <1>11 DEF ScanDenseNodes, Fill, TypeOK
<1>14. group_reader[t] - 1 = e /\ e < group_reader[t]
  BY <1>2, <1>3
<1>15. ASSUME NEW r \in Row, Passed(t, r)
       PROVE  Passed(t, r)' /\ \A i \in DOMAIN rows : Ahead(r, rows[i])
  <2>1. r.frame < block[t] \/ r.frame = block[t]
    BY <1>2, <1>15 DEF Passed, Row
  <2>2. r.field \in Nat /\ r.entry \in Nat /\ r.item \in Nat
    BY DEF Row
  <2>3. ASSUME NEW i \in DOMAIN rows PROVE Ahead(r, rows[i])
    BY SMTT(30), <1>1, <1>2, <1>12, <1>14, <1>15, <2>1, <2>2, <2>3 DEF Passed, Behind, Ahead
  <2>4. Passed(t, r)'
    BY SMTT(30), <1>1, <1>2, <1>13, <1>14, <1>15, <2>2 DEF Passed, Behind
  <2> QED
    BY <2>3, <2>4
<1>16. \A i \in DOMAIN rows : Passed(t, rows[i])'
  <2> SUFFICES ASSUME NEW i \in DOMAIN rows PROVE Passed(t, rows[i])'
    OBVIOUS
  <2>1. block[t] <= block[t] /\ dense_index[t] + i <= dense_index[t] + n
    BY <1>2, <1>12
  <2> QED
    BY <1>1, <1>2, <1>12, <1>13, <1>14, <2>1 DEF Passed, Behind
<1>17. \A i, j \in DOMAIN rows : i < j => Ahead(rows[i], rows[j])
  BY <1>2, <1>12 DEF Ahead
<1>18. Extends(t, rows)
  BY <1>12, <1>13, <1>15, <1>16, <1>17 DEF Extends
<1>19. InGroupOrder(t)'
  BY <1>1, <1>13 DEF InGroupOrder
<1>20. state'[t] = "DenseNodes" \/ dense_index[t] + n >= DenseSize(t)
  BY <1>13 DEF DenseDone
<1>21. rows = [i \in 1..n |-> MakeRow(t, group_reader[t] - 1, dense_index[t] + i)]
  BY <1>3, <1>11
<1>22. dense_index[t] + n <= DenseSize(t)
  BY <1>1, <1>2, <1>5, <1>6, <1>8 DEF Lesser
<1> QED
  BY <1>13, <1>18, <1>19, <1>20, <1>21, <1>22

LEMMA ParseExtends ==
  ASSUME TypeInv, NEW t \in Threads, InGroupOrder(t), ParseStep(t)
  PROVE  (\E rows \in Seq(Row) : Extends(t, rows)) /\ InGroupOrder(t)'
<1>1. <<>> \in Seq(Row)
  OBVIOUS
<1>2. CASE EnterGroup(t)
  BY <1>1, <1>2, EnterGroupExtends
<1>3. CASE EndBlock(t) \/ PrepareDenseNodes(t) \/ SkipEntry(t) \/ EndGroup(t)
  BY <1>1, <1>3, SilentExtends
<1>4. CASE ScanElement(t)
  BY <1>4, ScanElementExtends
<1>5. CASE ScanDenseNodes(t)
  BY <1>5, ScanDenseNodesExtends
<1> QED
  BY <1>2, <1>3, <1>4, <1>5 DEF ParseStep

-----------------------------------------------------------------------------
(* Each thread's rows are in order and behind it; the frames it holds are  *)
(* its own and lie before the shared offset.                               *)

InOrder(t) ==
  \A j, k \in ChunkNumbers(t) :
    \A m \in DOMAIN ChunkRows(t, j), n \in DOMAIN ChunkRows(t, k) :
      j < k \/ (j = k /\ m < n) =>
        Earlier(Place(ChunkRows(t, j)[m]), Place(ChunkRows(t, k)[n]))

Holds(t, i) ==
  \/ claimed[t] = i
  \/ block[t] = i
  \/ \E r \in Produced(t) : r.frame = i

InPlace(t) ==
  /\ \A r \in Produced(t) : Passed(t, r)
  /\ InGroupOrder(t)
  /\ claimed[t] # 0 => block[t] < claimed[t]
  /\ InOrder(t)

Exclusive ==
  /\ \A t \in Threads : \A i \in DOMAIN file.frames : Holds(t, i) => Ends(i) <= offset
  /\ \A t, u \in Threads : t # u =>
       \A i \in DOMAIN file.frames : ~(Holds(t, i) /\ Holds(u, i))

RowsInv == Exclusive /\ \A t \in Threads : InPlace(t)

(* The rows of a thread, whichever chunk they are in. *)
LEMMA ProducedRows ==
  ASSUME TypeOK, NEW t \in Threads
  PROVE  /\ Produced(t) \subseteq Row
         /\ \A j \in ChunkNumbers(t) :
              /\ ChunkRows(t, j) \in Seq(Row)
              /\ \A m \in DOMAIN ChunkRows(t, j) : ChunkRows(t, j)[m] \in Produced(t)
<1>1. \A j \in DOMAIN chunks[t] : chunks[t][j].rows \in Seq(Row)
  <2> TAKE j \in DOMAIN chunks[t]
  <2>1. chunks[t] \in Seq(Chunk)
    BY DEF TypeOK
  <2>2. chunks[t][j] \in Chunk
    BY <2>1
  <2> QED
    BY <2>2 DEF Chunk
<1>2. output[t] \in Seq(Row)
  BY DEF TypeOK
<1>3. \A s \in Seq(Row) : ToSet(s) = {s[m] : m \in DOMAIN s} /\ ToSet(s) \subseteq Row
  BY DEF ToSet
<1>4. HandedOver(t) \subseteq Row
  BY <1>1, <1>3 DEF HandedOver
<1>5. Produced(t) \subseteq Row
  BY <1>2, <1>3, <1>4 DEF Produced
<1>6. ASSUME NEW j \in ChunkNumbers(t)
      PROVE  /\ ChunkRows(t, j) \in Seq(Row)
             /\ \A m \in DOMAIN ChunkRows(t, j) : ChunkRows(t, j)[m] \in Produced(t)
  <2>1. CASE j \in DOMAIN chunks[t]
    <3>1. ChunkRows(t, j) = chunks[t][j].rows
      BY <2>1 DEF ChunkRows
    <3>2. \A m \in DOMAIN chunks[t][j].rows : chunks[t][j].rows[m] \in ToSet(chunks[t][j].rows)
      BY DEF ToSet
    <3> QED
      BY <1>1, <2>1, <3>1, <3>2 DEF Produced, HandedOver
  <2>2. CASE j \notin DOMAIN chunks[t]
    <3>1. ChunkRows(t, j) = output[t]
      BY <2>2 DEF ChunkRows
    <3> QED
      BY <1>2, <1>3, <3>1 DEF Produced
  <2> QED
    BY <2>1, <2>2
<1> QED
  BY <1>5, <1>6

(* Rows that go to the end of the chunk. *)
LEMMA FillKeepsOrder ==
  ASSUME TypeOK, NEW t \in Threads, NEW rows \in Seq(Row), UNCHANGED chunks[t],
         output'[t] = output[t] \o rows
  PROVE  /\ Produced(t)' = Produced(t) \cup {rows[n] : n \in DOMAIN rows}
         /\ /\ InOrder(t)
            /\ \A r \in Produced(t) : \A n \in DOMAIN rows : Ahead(r, rows[n])
            /\ \A m, n \in DOMAIN rows : m < n => Ahead(rows[m], rows[n])
            => InOrder(t)'
<1>1. output[t] \in Seq(Row) /\ Len(output[t]) \in Nat /\ Len(rows) \in Nat
  BY DEF TypeOK
<1>2. /\ DOMAIN output'[t] = 1..Len(output[t]) + Len(rows)
      /\ DOMAIN output[t] = 1..Len(output[t]) /\ DOMAIN rows = 1..Len(rows)
      /\ \A n \in DOMAIN output[t] : output'[t][n] = output[t][n]
      /\ \A n \in DOMAIN output'[t] : n \notin DOMAIN output[t] =>
           n - Len(output[t]) \in DOMAIN rows /\ output'[t][n] = rows[n - Len(output[t])]
      /\ \A n \in DOMAIN rows :
           n + Len(output[t]) \in DOMAIN output'[t] /\ output'[t][n + Len(output[t])] = rows[n]
  BY SMTT(30), <1>1
<1>3. ASSUME NEW x
      PROVE  x \in {output'[t][n] : n \in DOMAIN output'[t]} <=>
               x \in {output[t][n] : n \in DOMAIN output[t]} \cup {rows[n] : n \in DOMAIN rows}
  <2>1. ASSUME NEW n \in DOMAIN output'[t], x = output'[t][n]
        PROVE  x \in {output[t][k] : k \in DOMAIN output[t]} \cup {rows[k] : k \in DOMAIN rows}
    BY <1>2, <2>1
  <2>2. ASSUME NEW n \in DOMAIN output[t], x = output[t][n]
        PROVE  x \in {output'[t][k] : k \in DOMAIN output'[t]}
    <3>1. n \in DOMAIN output'[t]
      BY <1>1, <1>2
    <3> QED
      BY <1>2, <2>2, <3>1
  <2>3. ASSUME NEW n \in DOMAIN rows, x = rows[n]
        PROVE  x \in {output'[t][k] : k \in DOMAIN output'[t]}
    BY <1>2, <2>3
  <2> QED
    BY <2>1, <2>2, <2>3
<1>4. Produced(t)' = Produced(t) \cup {rows[n] : n \in DOMAIN rows}
  <2>1. ToSet(output[t])' = ToSet(output[t]) \cup {rows[n] : n \in DOMAIN rows}
    BY <1>3 DEF ToSet
  <2>2. HandedOver(t)' = HandedOver(t)
    BY DEF HandedOver
  <2> QED
    BY <2>1, <2>2 DEF Produced
<1>5. ASSUME InOrder(t),
             \A r \in Produced(t) : \A n \in DOMAIN rows : Ahead(r, rows[n]),
             \A m, n \in DOMAIN rows : m < n => Ahead(rows[m], rows[n])
      PROVE  InOrder(t)'
  <2>1. /\ ChunkNumbers(t)' = ChunkNumbers(t)
        /\ \A j \in DOMAIN chunks[t] : ChunkRows(t, j)' = ChunkRows(t, j)
        /\ \A j \in ChunkNumbers(t) : j \notin DOMAIN chunks[t] =>
             ChunkRows(t, j)' = output'[t] /\ ChunkRows(t, j) = output[t]
    BY DEF ChunkNumbers, ChunkRows
  <2>2. \A j \in ChunkNumbers(t) : j \notin DOMAIN chunks[t] => j = Len(chunks[t]) + 1
    <3>1. chunks[t] \in Seq(Chunk)
      BY DEF TypeOK
    <3> QED
      BY <3>1 DEF ChunkNumbers
  <2>3. SUFFICES ASSUME NEW j \in ChunkNumbers(t), NEW k \in ChunkNumbers(t),
                        NEW m \in DOMAIN ChunkRows(t, j)', NEW n \in DOMAIN ChunkRows(t, k)',
                        j < k \/ (j = k /\ m < n)
                 PROVE  Earlier(Place(ChunkRows(t, j)'[m]), Place(ChunkRows(t, k)'[n]))
    BY <2>1 DEF InOrder
  <2>4. CASE n \in DOMAIN ChunkRows(t, k) /\ ChunkRows(t, k)'[n] = ChunkRows(t, k)[n]
    <3>1. m \in DOMAIN ChunkRows(t, j) /\ ChunkRows(t, j)'[m] = ChunkRows(t, j)[m]
      <4>1. CASE j \in DOMAIN chunks[t]
        BY <2>1, <4>1
      <4>2. CASE j \notin DOMAIN chunks[t]
        <5>1. j = Len(chunks[t]) + 1 /\ k = j /\ m < n
          <6>1. chunks[t] \in Seq(Chunk)
            BY DEF TypeOK
          <6>2. Len(chunks[t]) \in Nat
            BY <6>1
          <6> QED
            BY <2>2, <2>3, <4>2, <6>2 DEF ChunkNumbers
        <5>2. m \in DOMAIN output'[t] /\ n \in DOMAIN output[t]
          BY <2>1, <2>3, <2>4, <4>2, <5>1
        <5>3. m \in DOMAIN output[t]
          BY <1>1, <1>2, <5>1, <5>2
        <5> QED
          BY <1>2, <2>1, <4>2, <5>3
      <4> QED
        BY <4>1, <4>2
    <3> QED
      BY <1>5, <2>3, <2>4, <3>1 DEF InOrder
  <2>5. CASE ~(n \in DOMAIN ChunkRows(t, k) /\ ChunkRows(t, k)'[n] = ChunkRows(t, k)[n])
    <3>1. k \notin DOMAIN chunks[t] /\ n \in DOMAIN output'[t] /\ n \notin DOMAIN output[t]
      BY <1>2, <2>1, <2>3, <2>5
    <3> DEFINE nn == n - Len(output[t])
    <3>2. nn \in DOMAIN rows /\ ChunkRows(t, k)'[n] = rows[nn]
      BY <1>2, <2>1, <3>1
    <3>3. CASE m \in DOMAIN ChunkRows(t, j) /\ ChunkRows(t, j)'[m] = ChunkRows(t, j)[m]
      BY <1>5, <3>2, <3>3, ProducedRows, EarlierAhead
    <3>4. CASE ~(m \in DOMAIN ChunkRows(t, j) /\ ChunkRows(t, j)'[m] = ChunkRows(t, j)[m])
      <4>1. j \notin DOMAIN chunks[t] /\ m \in DOMAIN output'[t] /\ m \notin DOMAIN output[t]
        BY <1>2, <2>1, <2>3, <3>4
      <4> DEFINE mm == m - Len(output[t])
      <4>2. mm \in DOMAIN rows /\ ChunkRows(t, j)'[m] = rows[mm]
        BY <1>2, <2>1, <4>1
      <4>3. j = k /\ m < n
        BY <2>2, <2>3, <3>1, <4>1
      <4>4. mm < nn
        BY <1>1, <1>2, <3>1, <4>1, <4>3
      <4> QED
        BY <1>5, <3>2, <4>2, <4>4, EarlierAhead
    <3> QED
      BY <3>3, <3>4
  <2> QED
    BY <2>4, <2>5
<1> QED
  BY <1>4, <1>5

(* A chunk that is handed over. *)
LEMMA HandingOverKeepsOrder ==
  ASSUME TypeOK, NEW t \in Threads, HandsOver(t)
  PROVE  Produced(t)' = Produced(t) /\ (InOrder(t) => InOrder(t)')
<1> DEFINE chunk == [batch |-> block_idx[t], rows |-> output[t]]
<1>1. chunks[t] \in Seq(Chunk) /\ chunk \in Chunk /\ output[t] \in Seq(Row)
  BY DEF TypeOK, Chunk
<1>2. chunks'[t] = Append(chunks[t], chunk) /\ output'[t] = <<>> /\ chunk.rows = output[t]
  BY DEF HandsOver
<1> HIDE DEF chunk
<1>3. /\ DOMAIN chunks[t] = 1..Len(chunks[t]) /\ Len(chunks[t]) \in Nat
      /\ DOMAIN chunks'[t] = DOMAIN chunks[t] \cup {Len(chunks[t]) + 1}
      /\ \A n \in DOMAIN chunks[t] : chunks'[t][n] = chunks[t][n]
      /\ chunks'[t][Len(chunks[t]) + 1] = chunk
      /\ Len(chunks'[t]) = Len(chunks[t]) + 1
  BY <1>1, <1>2, Appended
<1>4. Produced(t)' = Produced(t)
  <2>1. HandedOver(t)' = HandedOver(t) \cup ToSet(output[t])
    BY <1>2, <1>3 DEF HandedOver
  <2>2. ToSet(output'[t]) = {}
    BY <1>2 DEF ToSet
  <2> QED
    BY <2>1, <2>2 DEF Produced
<1>5. \A j \in ChunkNumbers(t) : ChunkRows(t, j)' = ChunkRows(t, j)
  BY <1>2, <1>3 DEF ChunkNumbers, ChunkRows
<1>6. \A j \in ChunkNumbers(t)' : j \in ChunkNumbers(t) \/ ChunkRows(t, j)' = <<>>
  BY <1>2, <1>3 DEF ChunkNumbers, ChunkRows
<1>7. InOrder(t) => InOrder(t)'
  BY <1>5, <1>6 DEF InOrder
<1> QED
  BY <1>4, <1>7

(* What InPlace and Holds look at. *)
RowState(u) ==
  <<claimed[u], block[u], state[u], block_reader[u], group[u], group_reader[u], dense_index[u],
    output[u], chunks[u]>>

LEMMA RowsStay ==
  ASSUME NEW u \in Threads, UNCHANGED RowState(u)
  PROVE  /\ Produced(u)' = Produced(u)
         /\ InPlace(u)' <=> InPlace(u)
         /\ \A i : Holds(u, i)' <=> Holds(u, i)
<1>1. Produced(u)' = Produced(u)
  BY DEF RowState, Produced, HandedOver
<1>2. InOrder(u)' <=> InOrder(u)
  BY DEF RowState, InOrder, ChunkNumbers, ChunkRows
<1>3. \A r : Passed(u, r)' <=> Passed(u, r)
  BY DEF RowState, Passed, Behind
<1>4. InPlace(u)' <=> InPlace(u)
  BY <1>1, <1>2, <1>3 DEF RowState, InPlace, InGroupOrder
<1>5. \A i : Holds(u, i)' <=> Holds(u, i)
  BY <1>1 DEF RowState, Holds
<1> QED
  BY <1>1, <1>4, <1>5

(* A step that gives its thread no frame it did not hold. *)
LEMMA StillExclusive ==
  ASSUME TypeInv, RowsInv, NEW t \in Threads, ThreadStep(t), [Next]_vars,
         \A i \in DOMAIN file.frames : Holds(t, i)' => Holds(t, i)
  PROVE  Exclusive'
<1>1. UNCHANGED file
  BY SharedStay
<1>2. \A u \in Threads : \A i \in DOMAIN file.frames : Holds(u, i)' => Holds(u, i)
  <2>1. ASSUME NEW u \in Threads \ {t} PROVE UNCHANGED RowState(u)
    BY OthersStay DEF TypeInv, Local, RowState
  <2> QED
    BY <2>1, RowsStay
<1>3. offset \in Nat /\ offset' \in Nat /\ offset' >= offset
  BY OffsetGrows, NextType DEF TypeInv, TypeOK
<1>4. \A i \in DOMAIN file.frames : Ends(i) \in Nat /\ Ends(i)' = Ends(i)
  BY <1>1, FramesOfFile DEF TypeInv, Ends
<1>5. \A u \in Threads : \A i \in DOMAIN file.frames : Holds(u, i)' => Ends(i)' <= offset'
  BY <1>2, <1>3, <1>4 DEF RowsInv, Exclusive
<1>6. \A u, v \in Threads : u # v =>
        \A i \in DOMAIN file.frames : ~(Holds(u, i)' /\ Holds(v, i)')
  BY <1>2 DEF RowsInv, Exclusive
<1> QED
  BY <1>1, <1>5, <1>6 DEF Exclusive

LEMMA ClaimRows ==
  ASSUME TypeInv, RowsInv, NEW t \in Threads, Asks(t), TakeBlob(t), ThreadStep(t)
  PROVE  RowsInv'
<1> USE DEF TypeInv
<1>1. UNCHANGED file
  BY SharedStay
<1>2. PICK i \in DOMAIN file.frames :
        ReturnBlob(i) /\ claimed' = [claimed EXCEPT ![t] = i]
  BY DEF TakeBlob
<1>3. /\ file.frames[i].start = offset /\ offset' = Ends(i)
      /\ Ends(i) \in Nat /\ Ends(i) > offset /\ offset \in Nat
  BY <1>2, FramesOfFile DEF ReturnBlob, FramesHere, Ends, TypeOK
<1>4. /\ claimed'[t] = i
      /\ UNCHANGED <<block[t], state[t], block_reader[t], group[t], group_reader[t],
                     dense_index[t], output[t], chunks[t]>>
  BY <1>2 DEF Asks, parser, TypeOK
<1>5. \A u \in Threads \ {t} : UNCHANGED RowState(u)
  BY OthersStay DEF Local, RowState
<1>6. /\ Produced(t)' = Produced(t)
      /\ \A r \in Produced(t) : Passed(t, r)' <=> Passed(t, r)
  BY <1>4 DEF Produced, HandedOver, Passed, Behind
<1>7. InOrder(t)' <=> InOrder(t)
  BY <1>4 DEF InOrder, ChunkNumbers, ChunkRows
<1>8. \A u \in Threads : \A j \in DOMAIN file.frames :
        Holds(u, j)' => Holds(u, j) \/ (u = t /\ j = i)
  BY SMTT(30), <1>4, <1>5, <1>6, RowsStay DEF Holds
<1>9. \A u \in Threads : \A j \in DOMAIN file.frames :
        Holds(u, j) => j # i /\ Ends(j) <= offset
  BY <1>3 DEF RowsInv, Exclusive
<1>10. block[t] < i
  <2>1. block[t] \in Nat /\ i \in Nat /\ i > 0
    BY BlockNumbers, FrameNumbers
  <2>2. CASE block[t] = 0
    BY <2>1, <2>2
  <2>3. CASE block[t] # 0
    <3>1. block[t] \in DOMAIN file.frames
      BY <2>3 DEF TypeOK
    <3>2. block[t] # i /\ Ends(block[t]) <= offset
      BY <1>9, <3>1 DEF Holds
    <3>3. Ends(block[t]) \in Nat
      BY <3>1, FramesOfFile
    <3>4. ~(i < block[t])
      <4> SUFFICES ASSUME i < block[t] PROVE FALSE
        OBVIOUS
      <4>1. Ends(i) < Ends(block[t])
        BY <3>1, FramesOfFile
      <4> QED
        BY <1>3, <3>2, <3>3, <4>1
    <3> QED
      BY <2>1, <3>2, <3>4
  <2> QED
    BY <2>2, <2>3
<1>11. InPlace(t)'
  BY <1>4, <1>6, <1>7, <1>10 DEF RowsInv, InPlace, InGroupOrder
<1>12. \A u \in Threads : InPlace(u)'
  BY <1>5, <1>11, RowsStay DEF RowsInv
<1>13. \A j \in DOMAIN file.frames : Ends(j) \in Nat /\ Ends(j)' = Ends(j)
  BY <1>1, FramesOfFile DEF Ends
<1>14. \A u \in Threads : \A j \in DOMAIN file.frames : Holds(u, j)' => Ends(j)' <= offset'
  BY <1>3, <1>8, <1>9, <1>13
<1>15. \A u, v \in Threads : u # v =>
         \A j \in DOMAIN file.frames : ~(Holds(u, j)' /\ Holds(v, j)')
  BY <1>8, <1>9 DEF RowsInv, Exclusive
<1> QED
  BY <1>1, <1>12, <1>14, <1>15 DEF RowsInv, Exclusive

LEMMA RowsThreadStep ==
  ASSUME TypeInv, RowsInv, NEW t \in Threads, ThreadStep(t), [Next]_vars
  PROVE  RowsInv'
<1> USE DEF TypeInv
<1>1. InPlace(t)
  BY DEF RowsInv
<1>2. \A u \in Threads \ {t} : InPlace(u)'
  <2>1. ASSUME NEW u \in Threads \ {t} PROVE UNCHANGED RowState(u)
    BY OthersStay DEF Local, RowState
  <2> QED
    BY <2>1, RowsStay DEF RowsInv
<1>3. SUFFICES ASSUME ~(Asks(t) /\ TakeBlob(t))
               PROVE  InPlace(t)' /\ \A i \in DOMAIN file.frames : Holds(t, i)' => Holds(t, i)
  BY <1>2, ClaimRows, StillExclusive DEF RowsInv
<1>4. CASE UNCHANGED RowState(t)
  BY <1>1, <1>4, RowsStay
<1>5. CASE Opens(t)
  <2>1. /\ claimed[t] # 0 /\ block'[t] = claimed[t] /\ claimed'[t] = 0 /\ state'[t] = "Block"
        /\ UNCHANGED <<output[t], chunks[t]>>
        /\ block[t] < claimed[t] /\ block[t] \in Nat /\ claimed[t] \in Nat
    BY <1>1, <1>5, BlockNumbers DEF Opens, ParserOK, Standing, InPlace
  <2>2. Produced(t)' = Produced(t)
    BY <2>1 DEF Produced, HandedOver
  <2>3. ASSUME NEW r \in Produced(t) PROVE Passed(t, r)'
    <3>1. Passed(t, r) /\ r \in Row
      BY <1>1, ProducedRows DEF InPlace
    <3>2. r.frame < block'[t] /\ r.frame # 0
      BY <2>1, <3>1 DEF Passed, Row
    <3>3. r.frame <= block'[t] /\ r.frame # block'[t]
      BY <2>1, <3>1, <3>2 DEF Row
    <3> QED
      BY <3>2, <3>3 DEF Passed
  <2>4. InOrder(t)'
    BY <1>1, <2>1 DEF InPlace, InOrder, ChunkNumbers, ChunkRows
  <2>5. InPlace(t)'
    BY <2>1, <2>2, <2>3, <2>4 DEF InPlace, InGroupOrder
  <2>6. \A i \in DOMAIN file.frames : Holds(t, i)' => Holds(t, i)
    BY <2>1, <2>2, FrameNumbers DEF Holds
  <2> QED
    BY <2>5, <2>6
<1>6. CASE Parses(t)
  <2>1. (\E rows \in Seq(Row) : Extends(t, rows)) /\ InGroupOrder(t)'
    BY <1>1, <1>6, ParseExtends DEF InPlace, Parses
  <2>2. PICK rows \in Seq(Row) : Extends(t, rows)
    BY <2>1
  <2>3. UNCHANGED <<claimed[t], block[t], chunks[t]>> /\ block[t] # 0
    BY <1>6 DEF Parses, ParserOK, Standing
  <2>4. /\ output'[t] = output[t] \o rows
        /\ \A r \in Produced(t) : r \in Row /\ Passed(t, r)
    BY <1>1, <2>2, ProducedRows DEF Extends, InPlace
  <2>5. \A r \in Produced(t) : Passed(t, r)' /\ \A n \in DOMAIN rows : Ahead(r, rows[n])
    BY <2>2, <2>4 DEF Extends
  <2>6. \A m, n \in DOMAIN rows : m < n => Ahead(rows[m], rows[n])
    BY <2>2 DEF Extends
  <2>7. Produced(t)' = Produced(t) \cup {rows[n] : n \in DOMAIN rows} /\ InOrder(t)'
    BY <1>1, <2>3, <2>4, <2>5, <2>6, FillKeepsOrder DEF InPlace
  <2>8. \A n \in DOMAIN rows : Passed(t, rows[n])' /\ rows[n].frame = block[t]
    BY <2>2 DEF Extends
  <2>9. \A r \in Produced(t)' : Passed(t, r)'
    BY <2>5, <2>7, <2>8
  <2>10. InPlace(t)'
    BY <1>1, <2>1, <2>3, <2>7, <2>9 DEF InPlace
  <2>11. \A i \in DOMAIN file.frames : Holds(t, i)' => Holds(t, i)
    BY <2>3, <2>7, <2>8 DEF Holds
  <2> QED
    BY <2>10, <2>11
<1>7. CASE HandsOver(t)
  <2>1. Produced(t)' = Produced(t) /\ InOrder(t)'
    BY <1>1, <1>7, HandingOverKeepsOrder DEF InPlace
  <2>2. UNCHANGED <<claimed, parser>>
    BY <1>7 DEF HandsOver
  <2>3. \A r : Passed(t, r)' <=> Passed(t, r)
    BY <2>2 DEF parser, Passed, Behind
  <2>4. InPlace(t)'
    BY <1>1, <2>1, <2>2, <2>3 DEF parser, InPlace, InGroupOrder
  <2>5. \A i \in DOMAIN file.frames : Holds(t, i)' => Holds(t, i)
    BY <2>1, <2>2 DEF parser, Holds
  <2> QED
    BY <2>4, <2>5
<1>8. CASE Asks(t) \/ Stops(t) \/ Leaves(t) \/ Finishes(t)
  <2>1. UNCHANGED <<claimed, parser, output, chunks>>
    BY <1>3, <1>8 DEF Asks, Stops, Leaves, Finishes
  <2> QED
    BY <1>4, <2>1 DEF parser, RowState
<1> QED
  BY <1>5, <1>6, <1>7, <1>8, Moves

LEMMA RowsNext ==
  ASSUME TypeInv, RowsInv, [Next]_vars
  PROVE  RowsInv'
<1> USE DEF TypeInv
<1>1. ASSUME UNCHANGED file, \A u \in Threads : UNCHANGED RowState(u)
      PROVE  RowsInv'
  <2>1. offset \in Nat /\ offset' \in Nat /\ offset' >= offset
    BY OffsetGrows, NextType DEF TypeOK
  <2>2. \A i \in DOMAIN file.frames : Ends(i) \in Nat /\ Ends(i)' = Ends(i)
    BY <1>1, FramesOfFile DEF Ends
  <2>3. \A u \in Threads : InPlace(u)' /\ \A i : Holds(u, i)' <=> Holds(u, i)
    BY <1>1, RowsStay DEF RowsInv
  <2> QED
    BY <1>1, <2>1, <2>2, <2>3 DEF RowsInv, Exclusive
<1>2. CASE UNCHANGED vars
  BY <1>1, <1>2 DEF vars, parser, RowState
<1>3. CASE InitGlobal
  BY <1>1, <1>3, InitGlobalStays DEF Local, RowState
<1>4. ASSUME NEW t \in Threads, ThreadStep(t) PROVE RowsInv'
  BY <1>4, RowsThreadStep
<1> QED
  BY <1>2, <1>3, <1>4, Steps

LEMMA RowsInit == TypeOK /\ Init => RowsInv
<1> SUFFICES ASSUME TypeOK, Init PROVE RowsInv
  OBVIOUS
<1>1. \A t \in Threads :
        claimed[t] = 0 /\ block[t] = 0 /\ output[t] = <<>> /\ chunks[t] = <<>>
  BY DEF Init
<1>2. \A t \in Threads : Produced(t) = {}
  BY <1>1 DEF Produced, HandedOver, ToSet
<1>3. \A t \in Threads : InOrder(t)
  BY <1>1 DEF InOrder, ChunkNumbers, ChunkRows
<1>4. \A t \in Threads : \A i \in DOMAIN file.frames : ~Holds(t, i)
  BY <1>1, <1>2, FrameNumbers DEF Holds
<1> QED
  BY <1>1, <1>2, <1>3, <1>4 DEF RowsInv, Exclusive, InPlace, InGroupOrder

LEMMA OnceNow ==
  ASSUME TypeInv, RowsInv PROVE OnceAndInOrder
<1>1. \A t \in Threads : InOrder(t)
  BY DEF RowsInv, InPlace
<1>2. ASSUME NEW t \in Threads, NEW u \in Threads, t # u,
             NEW r \in Produced(t), NEW s \in Produced(u), Place(r) = Place(s)
      PROVE  FALSE
  <2>1. r.frame = s.frame
    BY <1>2 DEF Place
  <2>2. r \in Row /\ Passed(t, r) /\ block[t] \in {0} \cup DOMAIN file.frames
    BY ProducedRows DEF RowsInv, InPlace, TypeInv, TypeOK
  <2>3. r.frame \in DOMAIN file.frames
    BY <2>2, FrameNumbers DEF Passed, Row, TypeInv
  <2>4. Holds(t, r.frame) /\ Holds(u, r.frame)
    BY <2>1 DEF Holds
  <2> QED
    BY <1>2, <2>3, <2>4 DEF RowsInv, Exclusive
<1> QED
  BY <1>1, <1>2 DEF OnceAndInOrder, InOrder

(* Any number of threads and any chunk size: no row leaves the scan twice, *)
(* and the rows of a thread keep the order of the file across the chunks   *)
(* and blocks it has worked on.                                            *)
THEOREM OnceInOrder == Spec => []OnceAndInOrder
<1>1. TypeInv /\ RowsInv => OnceAndInOrder
  BY OnceNow
<1>2. Init => TypeInv /\ RowsInv
  BY InitType, RowsInit DEF TypeInv
<1>3. TypeInv /\ RowsInv /\ [Next]_vars => (TypeInv /\ RowsInv)'
  BY NextType, RowsNext
<1> QED
  BY <1>1, <1>2, <1>3, PTL DEF Spec

-----------------------------------------------------------------------------
(* Blocks laid out as writers lay them out: next(tag) finds the one field  *)
(* with the tag from wherever before it the reader stands.                 *)

LEMMA TagsIncrease ==
  ASSUME NEW fields \in Seq(Field), PlainBlock(fields),
         NEW p \in DOMAIN fields, NEW q \in DOMAIN fields
  PROVE  /\ p < q <=> fields[p].tag < fields[q].tag
         /\ fields[p].tag = fields[q].tag => p = q
<1>0. fields[p] \in Field /\ fields[q] \in Field
  OBVIOUS
<1>1. /\ p \in Nat /\ q \in Nat
      /\ fields[p].tag \in Nat /\ fields[q].tag \in Nat
  BY <1>0 DEF Field
<1>2. /\ p < q => fields[p].tag < fields[q].tag
      /\ q < p => fields[q].tag < fields[p].tag
  BY DEF PlainBlock
<1> QED
  BY <1>1, <1>2

LEMMA IsMatch ==
  ASSUME NEW fields \in Seq(Field), PlainBlock(fields),
         NEW p \in DOMAIN fields, NEW pos \in Nat \ {0}, pos <= p
  PROVE  p \in Matches(fields, pos, fields[p].tag)
<1>1. p \in Nat /\ p <= Len(fields) /\ DOMAIN fields = 1..Len(fields) /\ Len(fields) \in Nat
  OBVIOUS
<1>2. ASSUME NEW r \in pos..p - 1 PROVE fields[r].tag # fields[p].tag
  <2>1. r \in DOMAIN fields /\ r # p
    BY <1>1
  <2> QED
    BY <2>1, TagsIncrease
<1> QED
  BY <1>1, <1>2 DEF Matches

LEMMA FindsIt ==
  ASSUME NEW fields \in Seq(Field), PlainBlock(fields),
         NEW tag, NEW p \in DOMAIN fields, fields[p].tag = tag,
         NEW pos \in Nat \ {0}, pos <= p, NEW old
  PROVE  /\ After(fields, pos, tag) = p + 1
         /\ ValueOr(fields, pos, tag, old) = Declared(fields, tag, old)
<1>1. p \in Nat /\ p <= Len(fields) /\ DOMAIN fields = 1..Len(fields) /\ Len(fields) \in Nat
  OBVIOUS
<1>2. \A q \in DOMAIN fields : fields[q].tag = tag => q = p
  BY TagsIncrease
<1>3. \A r \in pos..p - 1 : r \in DOMAIN fields /\ r # p
  BY <1>1
<1>4. p \in Matches(fields, pos, tag)
  BY <1>1, <1>2, <1>3 DEF Matches
<1>5. \A q \in Matches(fields, pos, tag) : q = p
  BY <1>1, <1>2 DEF Matches
<1>6. (CHOOSE q \in Matches(fields, pos, tag) : TRUE) = p
  BY <1>4, <1>5
<1>7. (CHOOSE q \in DOMAIN fields : fields[q].tag = tag) = p
  <2>1. /\ (CHOOSE q \in DOMAIN fields : fields[q].tag = tag) \in DOMAIN fields
        /\ fields[CHOOSE q \in DOMAIN fields : fields[q].tag = tag].tag = tag
    OBVIOUS
  <2> QED
    BY <1>2, <2>1
<1>8. Declared(fields, tag, old) = fields[p].value
  BY <1>7 DEF Declared
<1> QED
  BY <1>4, <1>6, <1>8 DEF After, ValueOr

LEMMA MatchNone ==
  ASSUME NEW fields \in Seq(Field), NEW pos \in Nat \ {0}, NEW tag, NEW old,
         \A q \in DOMAIN fields : fields[q].tag # tag
  PROVE  /\ Matches(fields, pos, tag) = {}
         /\ ValueOr(fields, pos, tag, old) = Declared(fields, tag, old)
<1>1. Matches(fields, pos, tag) = {}
  BY DEF Matches
<1> QED
  BY <1>1 DEF ValueOr, Declared

(* The optional fields EnterGroup looks for after the group at q. *)
LEMMA OptionalFields ==
  ASSUME NEW fields \in Seq(Field), PlainBlock(fields),
         NEW q \in DOMAIN fields, fields[q].tag = 2, NEW a, NEW b, NEW c
  PROVE  LET p19 == After(fields, q + 1, 17)
             p20 == After(fields, p19, 19)
         IN  /\ ValueOr(fields, q + 1, 17, a) = Declared(fields, 17, a)
             /\ ValueOr(fields, p19, 19, b) = Declared(fields, 19, b)
             /\ ValueOr(fields, p20, 20, c) = Declared(fields, 20, c)
<1> DEFINE Has(tag) == \E p \in DOMAIN fields : fields[p].tag = tag
<1>1. q \in Nat /\ q + 1 \in Nat \ {0} /\ DOMAIN fields \subseteq Nat \ {0}
  OBVIOUS
<1>2. (Has(19) => Has(17)) /\ (Has(20) => Has(19))
  BY DEF PlainBlock
<1>3. PICK p19 \in Nat \ {0} : p19 = After(fields, q + 1, 17)
  BY <1>1, AfterType
<1>3a. PICK p20 \in Nat \ {0} : p20 = After(fields, p19, 19)
  BY <1>3, AfterType
<1>4. ASSUME NEW p \in DOMAIN fields, fields[p].tag > 2 PROVE q + 1 <= p
  BY <1>1, <1>4, TagsIncrease
<1>5. /\ ValueOr(fields, q + 1, 17, a) = Declared(fields, 17, a)
      /\ \A p \in DOMAIN fields : fields[p].tag = 17 => p19 = p + 1
  <2>1. CASE ~Has(17)
    BY <1>1, <2>1, MatchNone
  <2>2. CASE Has(17)
    <3>1. PICK p \in DOMAIN fields : fields[p].tag = 17
      BY <2>2
    <3>2. q + 1 <= p
      BY <1>4, <3>1
    <3>3. \A r \in DOMAIN fields : fields[r].tag = 17 => r = p
      BY <3>1, TagsIncrease
    <3>4. PICK pos \in Nat \ {0} : pos = q + 1
      BY <1>1
    <3>5. pos <= p
      BY <3>2, <3>4
    <3>6. After(fields, pos, 17) = p + 1 /\ ValueOr(fields, pos, 17, a) = Declared(fields, 17, a)
      BY <3>1, <3>5, FindsIt
    <3> QED
      BY <1>3, <3>1, <3>3, <3>4, <3>6
  <2> QED
    BY <2>1, <2>2
<1>6. ASSUME NEW r \in DOMAIN fields, fields[r].tag > 17, Has(17) PROVE p19 <= r
  <2>1. PICK p \in DOMAIN fields : fields[p].tag = 17
    BY <1>6
  <2>2. p < r
    BY <1>6, <2>1, TagsIncrease
  <2> QED
    BY <1>1, <1>5, <2>1, <2>2
<1>7. /\ ValueOr(fields, p19, 19, b) = Declared(fields, 19, b)
      /\ \A p \in DOMAIN fields : fields[p].tag = 19 => p20 = p + 1
  <2>1. CASE ~Has(19)
    BY <2>1, MatchNone
  <2>2. CASE Has(19)
    <3>1. PICK p \in DOMAIN fields : fields[p].tag = 19
      BY <2>2
    <3>2. p19 <= p
      BY <1>2, <1>6, <3>1
    <3>3. \A r \in DOMAIN fields : fields[r].tag = 19 => r = p
      BY <3>1, TagsIncrease
    <3>4. After(fields, p19, 19) = p + 1 /\ ValueOr(fields, p19, 19, b) = Declared(fields, 19, b)
      BY <3>1, <3>2, FindsIt
    <3> QED
      BY <1>3a, <3>1, <3>3, <3>4
  <2> QED
    BY <2>1, <2>2
<1>8. ValueOr(fields, p20, 20, c) = Declared(fields, 20, c)
  <2>1. CASE ~Has(20)
    BY <2>1, MatchNone
  <2>2. CASE Has(20)
    <3>1. PICK p \in DOMAIN fields : fields[p].tag = 20
      BY <2>2
    <3>2. PICK r \in DOMAIN fields : fields[r].tag = 19
      BY <1>2, <2>2
    <3>3. r < p /\ p20 = r + 1
      BY <1>7, <3>1, <3>2, TagsIncrease
    <3>4. p20 <= p
      BY <1>1, <3>3
    <3>5. ValueOr(fields, p20, 20, c) = Declared(fields, 20, c)
      BY ZenonT(40), <3>1, <3>4, FindsIt
    <3> QED
      BY <3>1, <3>5
  <2> QED
    BY <2>1, <2>2
<1> QED
  BY <1>3, <1>3a, <1>5, <1>7, <1>8

-----------------------------------------------------------------------------
(* In such a file a thread about to enter a group still has the parameters *)
(* Reset gave it, and within the group those its block declares.           *)
Faithful(t) ==
  /\ \A r \in Produced(t) : r.decode = DeclaredDecode(r.frame)
  /\ block[t] # 0 /\ state[t] = "Block" /\ Matches(Fields(t), block_reader[t], 2) # {} =>
       decode[t] = FreshDecode(block[t])
  /\ block[t] # 0 /\ state[t] \in {"Group", "DenseNodes"} =>
       Fields(t)[group[t]].tag = 2 /\ decode[t] = DeclaredDecode(block[t])
  /\ block[t] # 0 /\ state[t] = "DenseNodes" =>
       Entries(t)[group_reader[t] - 1].kind = "dense"

DecodeInv == PlainBlocks => \A t \in Threads : Faithful(t)

(* The block of a thread, and the fields its parser looks for in it. *)
LEMMA PlainFields ==
  ASSUME TypeInv, PlainBlocks, NEW t \in Threads, block[t] # 0
  PROVE  /\ Fields(t) \in Seq(Field) /\ PlainBlock(Fields(t))
         /\ block[t] \in DOMAIN file.frames
BY FieldsShape DEF TypeInv, PlainBlocks, Fields

LEMMA MatchIs ==
  ASSUME NEW fields \in Seq(Field), NEW pos \in Nat \ {0}, NEW tag,
         NEW q \in Matches(fields, pos, tag)
  PROVE  q \in DOMAIN fields /\ q \in Nat /\ q >= pos /\ fields[q].tag = tag
BY DEF Matches

LEMMA EnterGroupFaithful ==
  ASSUME TypeInv, PlainBlocks, NEW t \in Threads, Faithful(t), EnterGroup(t)
  PROVE  Faithful(t)'
<1> USE DEF TypeInv
<1>1. /\ block[t] # 0 /\ state[t] = "Block" /\ Fields(t) \in Seq(Field) /\ PlainBlock(Fields(t))
      /\ block_reader[t] \in Nat \ {0}
  BY PlainFields DEF EnterGroup, Reading, ParserOK, Standing, TypeOK
<1>2. PICK q \in Matches(Fields(t), block_reader[t], 2) :
        LET p17 == q + 1
            p19 == After(Fields(t), p17, 17)
            p20 == After(Fields(t), p19, 19)
            old == decode[t]
        IN /\ group' = [group EXCEPT ![t] = q]
           /\ decode' = [decode EXCEPT ![t] =
               [strings     |-> old.strings,
                granularity |-> ValueOr(Fields(t), p17, 17, old.granularity),
                lat_offset  |-> ValueOr(Fields(t), p19, 19, old.lat_offset),
                lon_offset  |-> ValueOr(Fields(t), p20, 20, old.lon_offset)]]
  BY DEF EnterGroup
<1>3. q \in DOMAIN Fields(t) /\ Fields(t)[q].tag = 2
  BY <1>1, MatchIs
<1>4. decode[t] = FreshDecode(block[t])
  BY <1>1 DEF Faithful
<1>5. PICK fields \in Seq(Field) : fields = Fields(t)
  BY <1>1
<1>6. LET p19 == After(fields, q + 1, 17)
          p20 == After(fields, p19, 19)
      IN  /\ ValueOr(fields, q + 1, 17, DefaultGranularity)
               = Declared(fields, 17, DefaultGranularity)
          /\ ValueOr(fields, p19, 19, 0) = Declared(fields, 19, 0)
          /\ ValueOr(fields, p20, 20, 0) = Declared(fields, 20, 0)
  BY <1>1, <1>3, <1>5, OptionalFields
<1>7. /\ group'[t] = q /\ state'[t] = "Group"
      /\ UNCHANGED <<file, block, output, chunks>>
      /\ decode'[t] = [strings     |-> block[t],
                       granularity |-> Declared(fields, 17, DefaultGranularity),
                       lat_offset  |-> Declared(fields, 19, 0),
                       lon_offset  |-> Declared(fields, 20, 0)]
  BY <1>2, <1>4, <1>5, <1>6 DEF EnterGroup, FreshDecode, TypeOK
<1>8. decode'[t] = DeclaredDecode(block[t])
  BY <1>5, <1>7 DEF DeclaredDecode, Fields
<1>9. /\ Produced(t)' = Produced(t) /\ Fields(t)' = Fields(t)
      /\ \A i : DeclaredDecode(i)' = DeclaredDecode(i)
  BY <1>7 DEF Produced, HandedOver, Fields, DeclaredDecode
<1> QED
  BY <1>3, <1>7, <1>8, <1>9 DEF Faithful

(* Past its one group a block has no other. *)
LEMMA NoSecondGroup ==
  ASSUME NEW fields \in Seq(Field), PlainBlock(fields),
         NEW q \in DOMAIN fields, fields[q].tag = 2, NEW pos \in Nat \ {0}, pos > q
  PROVE  Matches(fields, pos, 2) = {}
<1> SUFFICES ASSUME NEW p \in Matches(fields, pos, 2) PROVE FALSE
  OBVIOUS
<1>1. p \in DOMAIN fields /\ p >= pos /\ fields[p].tag = 2 /\ p \in Nat
  BY MatchIs
<1>2. p = q
  BY <1>1, TagsIncrease
<1> QED
  BY <1>1, <1>2

LEMMA ParseFaithful ==
  ASSUME TypeInv, PlainBlocks, NEW t \in Threads, Faithful(t), InGroupOrder(t), ParseStep(t)
  PROVE  Faithful(t)'
<1> USE DEF TypeInv
<1>1. /\ block[t] # 0 /\ Fields(t) \in Seq(Field) /\ PlainBlock(Fields(t))
      /\ UNCHANGED <<file, block, chunks>>
  BY ParseLeaves, PlainFields DEF ParserOK, Standing
<1>2. /\ Fields(t)' = Fields(t) /\ HandedOver(t)' = HandedOver(t)
      /\ \A i : DeclaredDecode(i)' = DeclaredDecode(i)
  BY <1>1 DEF Fields, HandedOver, DeclaredDecode
<1>3. CASE EnterGroup(t)
  BY <1>3, EnterGroupFaithful
<1>4. CASE EndBlock(t)
  <2>1. UNCHANGED output /\ state'[t] = "End"
    BY <1>4 DEF EndBlock, TypeOK
  <2> QED
    BY <1>2, <2>1 DEF Faithful, Produced
<1>5. CASE EndGroup(t)
  <2>1. /\ UNCHANGED <<output, decode, group, block_reader>>
        /\ state[t] = "Group" /\ state'[t] = "Block"
    BY <1>5 DEF EndGroup, Reading, TypeOK
  <2>2. group[t] \in DOMAIN Fields(t) /\ Fields(t)[group[t]].tag = 2 /\ block_reader[t] > group[t]
        /\ block_reader[t] \in Nat \ {0} /\ group[t] \in Nat
    BY <1>1, <2>1 DEF Faithful, InGroupOrder, ParserOK, Standing, TypeOK
  <2>3. Matches(Fields(t), block_reader[t], 2) = {}
    BY <1>1, <2>2, NoSecondGroup
  <2>4. Matches(Fields(t), block_reader[t], 2)' = {}
    BY <1>2, <2>1, <2>3
  <2> QED
    BY <1>2, <2>1, <2>4 DEF Faithful, Produced
<1>6. CASE PrepareDenseNodes(t)
  <2>1. /\ UNCHANGED <<output, decode, group>>
        /\ state[t] = "Group" /\ state'[t] = "DenseNodes"
        /\ group_reader'[t] = group_reader[t] + 1 /\ group_reader[t] \in Nat
        /\ Entries(t)[group_reader[t]].kind = "dense"
    BY <1>6 DEF PrepareDenseNodes, NextEntry, Reading, TypeOK
  <2>2. Entries(t)' = Entries(t) /\ group_reader'[t] - 1 = group_reader[t]
    BY SMTT(30), <1>2, <2>1 DEF Entries, Fields
  <2> QED
    BY <1>1, <1>2, <2>1, <2>2 DEF Faithful, Produced
<1>7. CASE SkipEntry(t)
  <2>1. UNCHANGED <<output, decode, group, state>> /\ state[t] = "Group"
    BY <1>7 DEF SkipEntry, NextEntry, Reading
  <2> QED
    BY <1>1, <1>2, <2>1 DEF Faithful, Produced
<1>8. ASSUME NEW rows \in Seq(Row), Extends(t, rows),
             UNCHANGED <<decode, group, group_reader>> \/ state'[t] = "Group",
             UNCHANGED <<decode, group>>,
             state[t] \in {"Group", "DenseNodes"}, state'[t] = state[t] \/ state'[t] = "Group"
      PROVE  Faithful(t)'
  <2>1. output'[t] = output[t] \o rows
    BY <1>8 DEF Extends
  <2>2. Produced(t)' = Produced(t) \cup {rows[n] : n \in DOMAIN rows}
    BY <1>1, <2>1, FillKeepsOrder
  <2>3. decode[t] = DeclaredDecode(block[t])
    BY <1>1, <1>8 DEF Faithful
  <2>4. \A n \in DOMAIN rows : rows[n].decode = DeclaredDecode(rows[n].frame)
    BY <1>8, <2>3 DEF Extends
  <2>5. \A r \in Produced(t)' : r.decode = DeclaredDecode(r.frame)'
    BY <1>2, <2>2, <2>4 DEF Faithful
  <2>6. state'[t] = "DenseNodes" => Entries(t)' = Entries(t) /\ UNCHANGED group_reader
    BY <1>1, <1>8 DEF Entries, Fields
  <2> QED
    BY <1>1, <1>2, <1>8, <2>5, <2>6 DEF Faithful
<1>9. CASE ScanElement(t)
  <2>1. UNCHANGED <<decode, group, state>> /\ state[t] = "Group"
    BY <1>9 DEF ScanElement, NextEntry, Reading
  <2> QED
    BY <1>8, <1>9, <2>1, ScanElementExtends
<1>10. CASE ScanDenseNodes(t)
  <2>1. /\ UNCHANGED <<decode, group, group_reader>> /\ state[t] = "DenseNodes"
        /\ state'[t] = "Group" \/ state'[t] = state[t]
    BY <1>10 DEF ScanDenseNodes, Reading, TypeOK
  <2> QED
    BY <1>8, <1>10, <2>1, ScanDenseNodesExtends
<1> QED
  BY <1>3, <1>4, <1>5, <1>6, <1>7, <1>9, <1>10 DEF ParseStep

LEMMA OpensPlainly ==
  ASSUME TypeInv, NEW t \in Threads, Opens(t)
  PROVE  /\ claimed[t] # 0 /\ block'[t] = claimed[t] /\ claimed'[t] = 0 /\ state'[t] = "Block"
         /\ decode'[t] = FreshDecode(claimed[t])
         /\ block_reader'[t] = After(file.frames[claimed[t]].fields, 1, 1)
         /\ Produced(t)' = Produced(t)
<1>1. UNCHANGED <<output, chunks>>
  BY DEF Opens
<1>2. Produced(t)' = Produced(t)
  BY <1>1 DEF Produced, HandedOver
<1>3. claimed[t] # 0
  BY DEF Opens, TypeInv, ParserOK, Standing
<1> QED
  BY <1>2, <1>3 DEF Opens, SetBlock, ResetDecode, TypeInv, TypeOK

LEMMA DecodeNext ==
  ASSUME TypeInv, RowsInv, DecodeInv, [Next]_vars
  PROVE  DecodeInv'
<1> USE DEF TypeInv
<1>1. UNCHANGED file
  BY Steps, InitGlobalStays, SharedStay DEF vars
<1>2. SUFFICES ASSUME PlainBlocks PROVE \A u \in Threads : Faithful(u)'
  BY <1>1 DEF DecodeInv, PlainBlocks
<1>3. \A i : DeclaredDecode(i)' = DeclaredDecode(i)
  BY <1>1 DEF DeclaredDecode
<1>4. ASSUME NEW u \in Threads, UNCHANGED <<RowState(u), decode[u]>> PROVE Faithful(u)'
  <2>1. Produced(u)' = Produced(u)
    BY <1>4, RowsStay
  <2>2. Faithful(u)
    BY <1>2 DEF DecodeInv
  <2> QED
    BY <1>1, <1>3, <1>4, <2>1, <2>2 DEF Faithful, RowState, Fields, Entries
<1>5. CASE UNCHANGED vars
  BY <1>4, <1>5 DEF vars, parser, RowState
<1>6. CASE InitGlobal
  BY <1>4, <1>6, InitGlobalStays DEF Local, RowState
<1>7. ASSUME NEW t \in Threads, ThreadStep(t) PROVE \A u \in Threads : Faithful(u)'
  <2>1. \A u \in Threads \ {t} : Faithful(u)'
    BY <1>4, <1>7, OthersStay DEF Local, RowState
  <2>2. SUFFICES Faithful(t)'
    BY <2>1
  <2>3. Faithful(t)
    BY <1>2 DEF DecodeInv
  <2>4. CASE Opens(t)
    BY <1>3, <2>3, <2>4, OpensPlainly DEF Faithful
  <2>5. CASE Parses(t)
    BY <1>2, <2>3, <2>5, ParseFaithful DEF Parses, RowsInv, InPlace
  <2>6. CASE HandsOver(t)
    <3>1. Produced(t)' = Produced(t)
      BY <2>6, HandingOverKeepsOrder
    <3>2. UNCHANGED parser
      BY <2>6 DEF HandsOver
    <3> QED
      BY <1>1, <1>3, <2>3, <3>1, <3>2 DEF parser, Faithful, Fields, Entries
  <2>7. CASE Asks(t)
    <3>1. UNCHANGED <<parser, output, chunks>>
      BY <2>7 DEF Asks
    <3>2. Produced(t)' = Produced(t)
      BY <3>1 DEF Produced, HandedOver
    <3> QED
      BY <1>1, <1>3, <2>3, <3>1, <3>2 DEF parser, Faithful, Fields, Entries
  <2>8. CASE Stops(t) \/ Leaves(t) \/ Finishes(t)
    BY <1>4, <2>8 DEF Stops, Leaves, Finishes, parser, RowState
  <2> QED
    BY <1>7, <2>4, <2>5, <2>6, <2>7, <2>8, Moves
<1> QED
  BY <1>5, <1>6, <1>7, Steps

DeliveryInv == ScanInv /\ RowsInv /\ DecodeInv

LEMMA DeliveryInvariant == Spec => []DeliveryInv
<1>1. Init => DecodeInv
  <2> SUFFICES ASSUME Init, NEW t \in Threads PROVE Faithful(t)
    BY DEF DecodeInv
  <2>1. block[t] = 0 /\ output[t] = <<>> /\ chunks[t] = <<>>
    BY DEF Init
  <2>2. Produced(t) = {}
    BY <2>1 DEF Produced, HandedOver, ToSet
  <2> QED
    BY <2>1, <2>2 DEF Faithful
<1>2. Init => TypeInv /\ RowsInv
  BY InitType, RowsInit DEF TypeInv
<1>3. ScanInv /\ RowsInv /\ DecodeInv /\ [Next]_vars => RowsInv' /\ DecodeInv'
  BY RowsNext, DecodeNext DEF ScanInv
<1> QED
  BY <1>1, <1>2, <1>3, ScanInvariant, PTL DEF Spec, DeliveryInv

(* In files whose blocks are laid out in the order of their tags, a row    *)
(* has the string table, granularity and offsets of its own block, though  *)
(* the parser finds them only as it meets them and keeps what it has.      *)
THEOREM OwnBlock == Spec => [](PlainBlocks => DecodedWithOwnBlock)
<1>1. DeliveryInv => (PlainBlocks => DecodedWithOwnBlock)
  BY DEF DeliveryInv, DecodeInv, Faithful, DecodedWithOwnBlock
<1> QED
  BY <1>1, DeliveryInvariant, PTL

-----------------------------------------------------------------------------
(* As long as nothing has failed, a row of a frame that has been taken is  *)
(* still to be parsed by the thread that took it, or has been produced.    *)
Accounted(i, r) ==
  \/ \E t \in Threads : claimed[t] = i
  \/ \E t \in Threads : block[t] = i /\ ~Behind(t, r)
  \/ \E t \in Threads : \E d \in Produced(t) : Place(d) = Place(r)

CompleteInv ==
  ~SomeFailed /\ PlainBlocks =>
    \A i \in 2..blob_index : \A r \in RowsOfFrame(i) : Accounted(i, r)

LEMMA RowOfFrame ==
  ASSUME TypeOK, NEW i \in DOMAIN file.frames, NEW r \in RowsOfFrame(i)
  PROVE  /\ r.frame = i
         /\ r.field \in DOMAIN file.frames[i].fields
         /\ file.frames[i].fields[r.field].tag = 2
         /\ r.entry \in DOMAIN file.frames[i].fields[r.field].entries
         /\ r.item \in Nat \ {0}
         /\ file.frames[i].fields[r.field].entries[r.entry].kind # "changeset"
         /\ file.frames[i].fields[r.field].entries[r.entry].kind = "dense" =>
              r.item <= file.frames[i].fields[r.field].entries[r.entry].size
         /\ file.frames[i].fields[r.field].entries[r.entry].kind # "dense" => r.item = 1
<1>1. file.frames[i] \in Frame /\ file.frames[i].fields \in Seq(Field)
  BY FramesOfFile, FrameShape
<1>1a. PICK q \in DOMAIN file.frames[i].fields :
         /\ file.frames[i].fields[q].tag = 2
         /\ \E e \in DOMAIN file.frames[i].fields[q].entries : r \in RowsOfEntry(i, q, e)
  BY DEF RowsOfFrame
<1>2. PICK e \in DOMAIN file.frames[i].fields[q].entries : r \in RowsOfEntry(i, q, e)
  BY <1>1a
<1> DEFINE entry == file.frames[i].fields[q].entries[e]
           size  == CASE entry.kind = "changeset" -> 0
                      [] entry.kind = "dense"     -> entry.size
                      [] OTHER                    -> 1
<1>3. entry \in Entry
  <2>1. file.frames[i].fields[q] \in Field
    BY <1>1, <1>1a
  <2>2. file.frames[i].fields[q].entries \in Seq(Entry)
    BY <2>1 DEF Field
  <2> QED
    BY <1>2, <2>2
<1>4. entry.size \in Nat
  BY <1>3 DEF Entry
<1>5. PICK k \in 1..size : r = [frame |-> i, field |-> q, entry |-> e, item |-> k,
                                decode |-> DeclaredDecode(i)]
  BY <1>2 DEF RowsOfEntry
<1>6. r.frame = i /\ r.field = q /\ r.entry = e /\ r.item = k
  BY <1>5
<1> HIDE DEF entry
<1>7. /\ entry.kind # "changeset" /\ k \in Nat \ {0}
      /\ entry.kind = "dense" => k <= entry.size
      /\ entry.kind # "dense" => k = 1
  <2>1. CASE entry.kind = "changeset"
    BY <1>4, <1>5, <2>1
  <2>2. CASE entry.kind = "dense"
    BY <1>4, <1>5, <2>2
  <2>3. CASE entry.kind # "changeset" /\ entry.kind # "dense"
    BY <1>4, <1>5, <2>3
  <2> QED
    BY <2>1, <2>2, <2>3
<1> QED
  BY <1>1a, <1>2, <1>6, <1>7 DEF entry

(* A row ahead of the parser stays ahead of it or is produced. *)
LEMMA NoneSkipped ==
  ASSUME TypeInv, PlainBlocks, NEW t \in Threads, Faithful(t), InGroupOrder(t), ParseStep(t),
         block[t] # 0, NEW r \in RowsOfFrame(block[t]), ~Behind(t, r), Behind(t, r)'
  PROVE  \E d \in Produced(t)' : Place(d) = Place(r)
<1> USE DEF TypeInv
<1>1. /\ Fields(t) \in Seq(Field) /\ PlainBlock(Fields(t)) /\ block[t] \in DOMAIN file.frames
      /\ Fields(t) = file.frames[block[t]].fields
      /\ UNCHANGED <<file, block, chunks>>
  BY ParseLeaves, PlainFields DEF Fields
<1>2. /\ r.frame = block[t] /\ r.field \in DOMAIN Fields(t) /\ Fields(t)[r.field].tag = 2
      /\ r.entry \in DOMAIN Fields(t)[r.field].entries /\ r.item \in Nat \ {0}
      /\ Fields(t)[r.field].entries[r.entry].kind # "changeset"
      /\ Fields(t)[r.field].entries[r.entry].kind = "dense" =>
           r.item <= Fields(t)[r.field].entries[r.entry].size
      /\ Fields(t)[r.field].entries[r.entry].kind # "dense" => r.item = 1
  <2>1. TypeOK /\ block[t] \in DOMAIN file.frames /\ r \in RowsOfFrame(block[t])
    BY <1>1
  <2> QED
    BY ZenonT(40), <2>1, RowOfFrame DEF Fields
<1>2a. Fields(t)[r.field] \in Field /\ r.field \in Nat \ {0}
  <2>1. /\ DOMAIN Fields(t) = 1..Len(Fields(t)) /\ Len(Fields(t)) \in Nat
        /\ \A q \in DOMAIN Fields(t) : Fields(t)[q] \in Field
    BY <1>1, Elements
  <2>2. r.field \in DOMAIN Fields(t)
    BY <1>2
  <2> QED
    BY <2>1, <2>2
<1>3. /\ block_reader[t] \in Nat \ {0} /\ group[t] \in Nat /\ group_reader[t] \in Nat \ {0}
      /\ dense_index[t] \in Nat
      /\ r.field \in Nat \ {0}
  BY <1>2a DEF TypeOK
<1>4. Fields(t)[r.field].entries \in Seq(Entry)
  BY <1>2a DEF Field
<1>5. /\ r.entry \in Nat \ {0} /\ r.entry <= Len(Fields(t)[r.field].entries)
      /\ Len(Fields(t)[r.field].entries) \in Nat
      /\ \A e \in Nat \ {0} :
           e <= Len(Fields(t)[r.field].entries) => e \in DOMAIN Fields(t)[r.field].entries
  BY <1>2, <1>4
<1>6. state[t] \in {"Group", "DenseNodes"} =>
        /\ r.field = group[t]
        /\ Entries(t) = Fields(t)[r.field].entries
  <2> SUFFICES ASSUME state[t] \in {"Group", "DenseNodes"}
               PROVE  r.field = group[t]
    BY DEF Entries
  <2>1. group[t] \in DOMAIN Fields(t) /\ Fields(t)[group[t]].tag = 2
    BY DEF Faithful, ParserOK, Standing
  <2> QED
    BY <1>1, <1>2, <2>1, TagsIncrease
<1>7. CASE EnterGroup(t)
  <2>1. state[t] = "Block" /\ state'[t] = "Group" /\ group_reader'[t] = 1
        /\ group'[t] \in Matches(Fields(t), block_reader[t], 2)
    BY <1>7 DEF EnterGroup, Reading, TypeOK
  <2>2. group'[t] = r.field
    <3>1. PICK q \in Matches(Fields(t), block_reader[t], 2) : q = group'[t]
      BY <2>1
    <3>2. q \in DOMAIN Fields(t) /\ Fields(t)[q].tag = 2
      BY <1>1, <1>3, MatchIs
    <3> QED
      BY <1>1, <1>2, <3>1, <3>2, TagsIncrease
  <2>3. ~Behind(t, r)'
    BY <1>3, <1>5, <2>1, <2>2 DEF Behind
  <2> QED
    BY <2>3
<1>8. CASE EndBlock(t)
  <2>1. state[t] = "Block" /\ Matches(Fields(t), block_reader[t], 2) = {}
    BY <1>8 DEF EndBlock, Reading
  <2>2. block_reader[t] <= r.field
    BY <1>3, <2>1 DEF Behind
  <2>3. r.field \in Matches(Fields(t), block_reader[t], Fields(t)[r.field].tag)
    BY <1>1, <1>2, <1>3, <2>2, IsMatch
  <2> QED
    BY <1>2, <2>1, <2>3
<1>9. CASE EndGroup(t)
  <2>1. state[t] = "Group" /\ group_reader[t] > Len(Entries(t))
    BY <1>9 DEF EndGroup, Reading
  <2>2. r.entry >= group_reader[t]
    BY <1>3, <1>5, <1>6, <2>1 DEF Behind
  <2> QED
    BY <1>3, <1>5, <1>6, <2>1, <2>2
<1>10. CASE PrepareDenseNodes(t) \/ SkipEntry(t)
  <2>1. /\ state[t] = "Group" /\ group_reader'[t] = group_reader[t] + 1
        /\ UNCHANGED group
    BY <1>10 DEF PrepareDenseNodes, SkipEntry, NextEntry, Reading, TypeOK
  <2>2. r.entry >= group_reader[t]
    BY <1>3, <1>5, <1>6, <2>1 DEF Behind
  <2>3. CASE PrepareDenseNodes(t)
    <3>1. state'[t] = "DenseNodes" /\ dense_index'[t] = 0
      BY <2>3 DEF PrepareDenseNodes, TypeOK
    <3>2. ~(r.entry < group_reader'[t] - 1) /\ ~(r.item <= dense_index'[t])
      BY <1>2, <1>3, <1>5, <2>1, <2>2, <3>1
    <3>3. ~(r.field < group'[t])
      BY <1>3, <1>6, <2>1
    <3> QED
      BY <3>1, <3>2, <3>3 DEF Behind
  <2>4. CASE SkipEntry(t)
    <3>1. state'[t] = "Group" /\ Entries(t)[group_reader[t]].kind = "changeset"
      BY <2>1, <2>4 DEF SkipEntry, NextEntry
    <3>2. r.entry # group_reader[t]
      BY <1>2, <1>6, <2>1, <3>1
    <3>3. ~(r.entry < group_reader'[t]) /\ ~(r.field < group'[t])
      BY <1>3, <1>5, <1>6, <2>1, <2>2, <3>2
    <3> QED
      BY <3>1, <3>3 DEF Behind
  <2> QED
    BY <1>10, <2>3, <2>4
<1>11. CASE ScanElement(t)
  <2>1. /\ state[t] = "Group" /\ state'[t] = "Group" /\ group_reader'[t] = group_reader[t] + 1
        /\ UNCHANGED group
        /\ Entries(t)[group_reader[t]].kind \in {"node", "way", "relation"}
    BY <1>11 DEF ScanElement, NextEntry, Reading, TypeOK
  <2>2. r.entry = group_reader[t]
    BY <1>3, <1>5, <1>6, <2>1 DEF Behind
  <2>3. r.item = 1
    BY <1>2, <1>6, <2>1, <2>2
  <2>4. PICK rows \in Seq(Row) :
          rows = <<MakeRow(t, group_reader[t], 1)>> /\ Extends(t, rows)
    BY <1>11, ScanElementExtends
  <2>5. Produced(t)' = Produced(t) \cup {rows[n] : n \in DOMAIN rows}
    BY <1>1, <2>4, FillKeepsOrder DEF Extends
  <2>6. 1 \in DOMAIN rows /\ rows[1] = MakeRow(t, group_reader[t], 1)
    BY <2>4
  <2>7. Place(rows[1]) = Place(r)
    BY <1>2, <1>6, <2>1, <2>2, <2>3, <2>6 DEF Place, MakeRow
  <2> QED
    BY <2>5, <2>6, <2>7
<1>12. CASE ScanDenseNodes(t)
  <2>1. /\ state[t] = "DenseNodes" /\ UNCHANGED <<group, group_reader>>
        /\ state'[t] = "Group" \/ state'[t] = "DenseNodes"
        /\ Entries(t)[group_reader[t] - 1].kind = "dense"
    BY <1>12 DEF ScanDenseNodes, Reading, Faithful, TypeOK
  <2>2. PICK n \in Nat, rows \in Seq(Row) :
          /\ rows = [i \in 1..n |-> MakeRow(t, group_reader[t] - 1, dense_index[t] + i)]
          /\ Extends(t, rows)
          /\ dense_index'[t] = dense_index[t] + n
          /\ state'[t] = "DenseNodes" \/ dense_index[t] + n >= DenseSize(t)
    BY <1>12, ScanDenseNodesExtends
  <2>3. Produced(t)' = Produced(t) \cup {rows[k] : k \in DOMAIN rows}
    BY <1>1, <2>2, FillKeepsOrder DEF Extends
  <2>4. r.entry = group_reader[t] - 1 /\ r.item > dense_index[t] /\ r.item <= dense_index[t] + n
    <3>1. /\ r.entry >= group_reader[t] - 1
          /\ r.entry = group_reader[t] - 1 => r.item > dense_index[t]
      BY SMTT(30), <1>2, <1>3, <1>5, <1>6, <2>1 DEF Behind
    <3>2. /\ state'[t] = "Group" => r.entry < group_reader[t]
          /\ state'[t] = "DenseNodes" =>
               /\ r.entry < group_reader[t] - 1 \/ r.entry = group_reader[t] - 1
               /\ r.entry = group_reader[t] - 1 => r.item <= dense_index[t] + n
      BY <1>3, <1>5, <1>6, <2>1, <2>2 DEF Behind
    <3>3. r.entry = group_reader[t] - 1
      BY <1>3, <1>5, <2>1, <3>1, <3>2
    <3>4. r.item <= DenseSize(t)
      BY <1>2, <1>6, <2>1, <3>3 DEF DenseSize
    <3>5. DenseSize(t) \in Nat
      <4>1. Fields(t)[r.field].entries[r.entry] \in Entry
        BY <1>2, <1>4
      <4> QED
        BY <1>6, <2>1, <3>3, <4>1 DEF DenseSize, Entry
    <3> QED
      BY <1>2, <1>3, <2>1, <2>2, <3>1, <3>2, <3>3, <3>4, <3>5
  <2> DEFINE k == r.item - dense_index[t]
  <2>5. k \in 1..n /\ dense_index[t] + k = r.item
    BY SMTT(30), <1>2, <1>3, <2>4
  <2> HIDE DEF k
  <2>6. k \in DOMAIN rows /\ rows[k] = MakeRow(t, group_reader[t] - 1, dense_index[t] + k)
    BY <2>2, <2>5
  <2>7. Place(rows[k]) = Place(r)
    BY <1>2, <1>6, <2>1, <2>4, <2>5, <2>6 DEF Place, MakeRow
  <2> QED
    BY <2>3, <2>6, <2>7
<1> QED
  BY <1>7, <1>8, <1>9, <1>10, <1>11, <1>12 DEF ParseStep

LEMMA ProducedLasts ==
  ASSUME TypeInv, RowsInv, NEW t \in Threads, ThreadStep(t), NEW u \in Threads
  PROVE  Produced(u) \subseteq Produced(u)'
<1> USE DEF TypeInv
<1>1. CASE u # t
  <2>1. UNCHANGED RowState(u)
    BY <1>1, OthersStay DEF Local, RowState
  <2> QED
    BY <2>1, RowsStay
<1>2. CASE u = t /\ Parses(t)
  <2>1. PICK rows \in Seq(Row) : Extends(t, rows)
    BY <1>2, ParseExtends DEF Parses, RowsInv, InPlace
  <2>2. output'[t] = output[t] \o rows /\ UNCHANGED chunks
    BY <1>2, <2>1 DEF Extends, Parses
  <2>3. Produced(t)' = Produced(t) \cup {rows[n] : n \in DOMAIN rows}
    BY <2>2, FillKeepsOrder
  <2> QED
    BY <1>2, <2>3
<1>3. CASE u = t /\ HandsOver(t)
  BY <1>3, HandingOverKeepsOrder
<1>4. CASE u = t /\ ~Parses(t) /\ ~HandsOver(t)
  <2>1. UNCHANGED <<output, chunks>>
    BY <1>4, Moves DEF Asks, Opens, Stops, Leaves, Finishes
  <2> QED
    BY <2>1 DEF Produced, HandedOver
<1> QED
  BY <1>1, <1>2, <1>3, <1>4

LEMMA OpensBeforeGroups ==
  ASSUME TypeInv, PlainBlocks, NEW t \in Threads, Opens(t), NEW r \in RowsOfFrame(claimed[t])
  PROVE  block'[t] = claimed[t] /\ ~Behind(t, r)'
<1> USE DEF TypeInv
<1>1. /\ claimed[t] \in DOMAIN file.frames /\ block'[t] = claimed[t] /\ state'[t] = "Block"
      /\ block_reader'[t] = After(file.frames[claimed[t]].fields, 1, 1)
  BY OpensPlainly DEF TypeOK
<1>2. PICK fields \in Seq(Field) : fields = file.frames[claimed[t]].fields
  BY <1>1, FramesOfFile, FrameShape
<1>3. PlainBlock(fields)
  BY <1>1, <1>2 DEF PlainBlocks
<1>4. r.field \in DOMAIN fields /\ fields[r.field].tag = 2
  BY <1>1, <1>2, RowOfFrame
<1>5. PICK p \in DOMAIN fields : fields[p].tag = 1
  BY <1>3, <1>4 DEF PlainBlock
<1>6. p \in Nat /\ 1 <= p /\ r.field \in Nat
  BY <1>4
<1>7. p < r.field
  BY <1>3, <1>4, <1>5, TagsIncrease
<1>8. After(fields, 1, 1) = p + 1
  <2>1. PICK pos \in Nat \ {0} : pos = 1
    OBVIOUS
  <2>2. pos <= p
    BY <1>6, <2>1
  <2>3. After(fields, pos, 1) = p + 1
    BY <1>3, <1>5, <2>2, FindsIt
  <2> QED
    BY <2>1, <2>3
<1>9. ~(r.field < block_reader'[t])
  BY <1>1, <1>2, <1>6, <1>7, <1>8
<1> QED
  BY <1>1, <1>9 DEF Behind

LEMMA AccountedStep ==
  ASSUME DeliveryInv, PlainBlocks, NEW t \in Threads, ThreadStep(t),
         NEW i \in DOMAIN file.frames, NEW r \in RowsOfFrame(i), Accounted(i, r)
  PROVE  Accounted(i, r)'
<1> USE DEF DeliveryInv, ScanInv, TypeInv
<1>1. i # 0 /\ \A u \in Threads \ {t} : UNCHANGED Local(u)
  BY FrameNumbers, OthersStay
<1>2. Located(t) /\ Faithful(t) /\ InGroupOrder(t)
  BY DEF LocationInv, DecodeInv, RowsInv, InPlace
<1>3. ASSUME NEW u \in Threads, claimed[u] = i PROVE Accounted(i, r)'
  <2>1. CASE u # t
    BY <1>1, <1>3, <2>1 DEF Local, Accounted
  <2>2. CASE u = t /\ Opens(t)
    BY <1>3, <2>2, OpensBeforeGroups DEF Accounted
  <2>3. CASE u = t /\ ~Opens(t)
    <3>1. ~Asks(t)
      BY <1>1, <1>2, <1>3, <2>3 DEF Asks, Located
    <3>2. UNCHANGED claimed
      BY <2>3, <3>1, Moves DEF Stops, Parses, Leaves, Finishes, HandsOver
    <3> QED
      BY <1>3, <3>2 DEF Accounted
  <2> QED
    BY <2>1, <2>2, <2>3
<1>4. ASSUME NEW u \in Threads, block[u] = i, ~Behind(u, r) PROVE Accounted(i, r)'
  <2>1. CASE u # t
    BY <1>1, <1>4, <2>1 DEF Local, Accounted, Behind
  <2>2. CASE u = t /\ Parses(t)
    <3>1. UNCHANGED block
      BY <2>2 DEF Parses
    <3>2. CASE Behind(t, r)'
      BY <1>1, <1>2, <1>4, <2>2, <3>2, NoneSkipped DEF Parses, Accounted
    <3>3. CASE ~Behind(t, r)'
      BY <1>4, <2>2, <3>1, <3>3 DEF Accounted
    <3> QED
      BY <3>2, <3>3
  <2>3. CASE u = t /\ ~Parses(t)
    <3>1. ~Opens(t)
      BY <1>1, <1>2, <1>4, <2>3 DEF Opens, Located, Behind
    <3>2. UNCHANGED parser
      BY <2>3, <3>1, Moves DEF Asks, Stops, Leaves, Finishes, HandsOver
    <3> QED
      BY <1>4, <3>2 DEF parser, Accounted, Behind
  <2> QED
    BY <2>1, <2>2, <2>3
<1>5. ASSUME NEW u \in Threads, NEW d \in Produced(u), Place(d) = Place(r)
      PROVE  Accounted(i, r)'
  BY <1>5, ProducedLasts DEF Accounted
<1> QED
  BY <1>3, <1>4, <1>5 DEF Accounted

LEMMA CompleteNext ==
  ASSUME DeliveryInv, CompleteInv, [Next]_vars
  PROVE  CompleteInv'
<1> USE DEF DeliveryInv, ScanInv, TypeInv
<1>1. UNCHANGED file
  BY Steps, InitGlobalStays, SharedStay DEF vars
<1>2. \A i : RowsOfFrame(i)' = RowsOfFrame(i)
  BY <1>1 DEF RowsOfFrame, RowsOfEntry, DeclaredDecode
<1>3. SUFFICES ASSUME ~SomeFailed', PlainBlocks, NEW i \in 2..blob_index', NEW r \in RowsOfFrame(i)
               PROVE  Accounted(i, r)'
  BY <1>1, <1>2 DEF CompleteInv, PlainBlocks
<1>4. ~SomeFailed /\ Taken
  BY <1>3, FailureLasts DEF ClaimInv
<1>5. blob_index \in Nat /\ i \in Nat
  BY DEF TypeOK
<1>6. ASSUME i \in 2..blob_index PROVE Accounted(i, r) /\ i \in DOMAIN file.frames
  <2>1. i \in DOMAIN file.frames
    BY <1>4, <1>5, <1>6, FrameNumbers DEF Taken
  <2> QED
    BY <1>3, <1>4, <1>6, <2>1 DEF CompleteInv
<1>7. CASE UNCHANGED vars
  <2>1. i \in 2..blob_index /\ \A u \in Threads : UNCHANGED RowState(u)
    BY <1>7 DEF vars, globals, parser, RowState
  <2>2. \A u \in Threads : Produced(u)' = Produced(u)
    BY <2>1, RowsStay
  <2> QED
    BY <1>6, <2>1, <2>2 DEF RowState, Accounted, Behind
<1>8. CASE InitGlobal
  <2>1. blob_index = 0
    BY <1>4, <1>8, InitGlobalStays DEF Taken
  <2>2. blob_index' = 0 \/ blob_index' = 1
    BY <1>8, <2>1 DEF InitGlobal, ReturnBlob, ThrowBlob
  <2> QED
    BY <1>3, <2>2
<1>9. ASSUME NEW t \in Threads, ThreadStep(t) PROVE Accounted(i, r)'
  <2>1. CASE i \in 2..blob_index
    BY <1>3, <1>6, <1>9, <2>1, AccountedStep
  <2>2. CASE i \notin 2..blob_index
    <3>1. GetNextBlob(t)
      BY <1>9, <2>2, SharedStay DEF globals
    <3>2. TakeBlob(t)
      BY <2>2, <3>1 DEF GetNextBlob, ReturnNull, ThrowBlob
    <3>3. PICK j \in DOMAIN file.frames :
            ReturnBlob(j) /\ claimed' = [claimed EXCEPT ![t] = j]
      BY <3>2 DEF TakeBlob
    <3>4. blob_index' = j /\ j = blob_index + 1
      BY <1>4, <3>3, NextFrame
    <3>5. i = j
      BY <1>5, <2>2, <3>4
    <3>6. claimed'[t] = i
      BY <3>3, <3>5 DEF TypeOK
    <3> QED
      BY <3>6 DEF Accounted
  <2> QED
    BY <2>1, <2>2
<1> QED
  BY <1>7, <1>8, <1>9, Steps

LEMMA CompleteNow ==
  ASSUME DeliveryInv, CompleteInv, PlainBlocks PROVE SuccessMeansComplete
<1> SUFFICES ASSUME AllFinished, NEW r \in RowsOfFile
             PROVE  \E d \in Delivered : Place(d) = Place(r)
  BY DEF SuccessMeansComplete
<1> USE DEF DeliveryInv, ScanInv, TypeInv
<1>1. /\ ~SomeFailed /\ Taken /\ phase = "Running" /\ blob_index = Len(file.frames)
      /\ \A t \in Threads : claimed[t] = 0
  BY AllTaken
<1>2. PICK i \in DOMAIN file.frames : file.frames[i].type = "OSMData" /\ r \in RowsOfFrame(i)
  BY DEF RowsOfFile
<1>3. i \in 2..blob_index /\ i # 0
  BY <1>1, <1>2, FrameNumbers DEF Taken
<1>4. Accounted(i, r)
  BY <1>1, <1>2, <1>3 DEF CompleteInv
<1>5. ASSUME NEW t \in Threads, block[t] = i PROVE Behind(t, r)
  BY <1>3, <1>5 DEF AllFinished, LocationInv, Located, Behind
<1>6. PICK t \in Threads : \E d \in Produced(t) : Place(d) = Place(r)
  BY <1>1, <1>3, <1>4, <1>5 DEF Accounted
<1>7. output[t] = <<>>
  BY DEF AllFinished, LocationInv, Located
<1>8. Produced(t) = HandedOver(t)
  BY <1>7 DEF Produced, ToSet
<1> QED
  BY <1>6, <1>8 DEF Delivered

(* In files whose blocks are laid out in the order of their tags, a scan   *)
(* that all threads end normally has delivered every row: no frame between *)
(* two claims, no group, entry or dense node at the end of a chunk is lost.*)
THEOREM SuccessComplete == Spec => [](PlainBlocks => SuccessMeansComplete)
<1>1. DeliveryInv /\ CompleteInv => (PlainBlocks => SuccessMeansComplete)
  BY CompleteNow
<1>2. Init => CompleteInv
  BY DEF Init, CompleteInv
<1>3. DeliveryInv /\ CompleteInv /\ [Next]_vars => CompleteInv'
  BY CompleteNext
<1> QED
  BY <1>1, <1>2, <1>3, DeliveryInvariant, PTL DEF Spec

-----------------------------------------------------------------------------
(* Finite sets that are images of others.                                  *)
ImageOf(T, f, S) == T = {f[x] : x \in S}

LEMMA FiniteImage ==
  ASSUME NEW S, IsFiniteSet(S), NEW f, NEW T, ImageOf(T, f, S)
  PROVE  IsFiniteSet(T)
<1> DEFINE g == [x \in S |-> f[x]]
<1>1. g \in Surjection(S, T)
  BY DEF Surjection, ImageOf
<1> QED
  BY <1>1, FS_Surjection

(* As many as the places of a sequence that has no element twice.          *)
LEMMA DistinctElements ==
  ASSUME NEW n \in Nat, NEW f, \A i, j \in 1..n : i < j => f[i] # f[j],
         NEW T, ImageOf(T, f, 1..n)
  PROVE  IsFiniteSet(T) /\ Cardinality(T) = n
<1> DEFINE g == [i \in 1..n |-> f[i]]
<1>1. g \in Surjection(1..n, T)
  BY DEF Surjection, ImageOf
<1>2. \A i, j \in 1..n : i # j => i < j \/ j < i
  OBVIOUS
<1>3. g \in Injection(1..n, T)
  <2>1. g \in [1..n -> T]
    BY DEF ImageOf
  <2>2. \A i, j \in 1..n : g[i] = g[j] => i = j
    BY <1>2
  <2> HIDE DEF g
  <2> QED
    BY <2>1, <2>2 DEF Injection, IsInjective
<1>4. IsFiniteSet(1..n) /\ Cardinality(1..n) = n
  BY FS_Interval
<1> QED
  BY <1>1, <1>3, <1>4, FS_Surjection

LEMMA FiniteUnion ==
  ASSUME NEW S, IsFiniteSet(S), NEW f, \A x \in S : IsFiniteSet(f[x]),
         NEW T, ImageOf(T, f, S)
  PROVE  IsFiniteSet(UNION T)
<1>1. IsFiniteSet(T)
  BY FiniteImage
<1>2. \A X \in T : IsFiniteSet(X)
  BY DEF ImageOf
<1> QED
  BY <1>1, <1>2, FS_UNION

-----------------------------------------------------------------------------
(* The rows of a file.                                                     *)
Items(entry) ==
  CASE entry.kind = "changeset" -> 0
    [] entry.kind = "dense"     -> entry.size
    [] OTHER                    -> 1

LEMMA ItemsType ==
  ASSUME NEW entry \in Entry
  PROVE  Items(entry) \in Nat
BY DEF Items, Entry

Groups(i) ==
  {p \in DOMAIN file.frames[i].fields : file.frames[i].fields[p].tag = 2}

LEMMA EntryShape ==
  ASSUME TypeOK, NEW i \in DOMAIN file.frames, NEW q \in DOMAIN file.frames[i].fields
  PROVE  /\ file.frames[i].fields \in Seq(Field)
         /\ file.frames[i].fields[q].entries \in Seq(Entry)
         /\ \A e \in DOMAIN file.frames[i].fields[q].entries :
              file.frames[i].fields[q].entries[e] \in Entry
<1>1. file.frames[i].fields \in Seq(Field)
  BY FramesOfFile, FrameShape
<1>2. file.frames[i].fields[q] \in Field
  BY <1>1
<1>3. file.frames[i].fields[q].entries \in Seq(Entry)
  BY <1>2 DEF Field
<1> QED
  BY <1>1, <1>3

LEMMA FiniteEntry ==
  ASSUME TypeOK, NEW i \in DOMAIN file.frames, NEW q \in DOMAIN file.frames[i].fields,
         NEW e \in DOMAIN file.frames[i].fields[q].entries
  PROVE  IsFiniteSet(RowsOfEntry(i, q, e))
<1> PICK entry \in Entry : entry = file.frames[i].fields[q].entries[e]
  BY EntryShape
<1> PICK n \in Nat : n = Items(entry)
  BY ItemsType
<1> DEFINE f == [k \in 1..n |-> [frame |-> i, field |-> q, entry |-> e, item |-> k,
                                 decode |-> DeclaredDecode(i)]]
<1>1. ImageOf(RowsOfEntry(i, q, e), f, 1..n)
  BY DEF RowsOfEntry, Items, ImageOf
<1>2. IsFiniteSet(1..n)
  BY FS_Interval
<1> HIDE DEF f
<1> QED
  BY <1>1, <1>2, FiniteImage

LEMMA FiniteFrame ==
  ASSUME TypeOK, NEW i \in DOMAIN file.frames
  PROVE  IsFiniteSet(RowsOfFrame(i))
<1>1. PICK fields \in Seq(Field) : fields = file.frames[i].fields
  BY FramesOfFile, FrameShape
<1>2. IsFiniteSet(DOMAIN fields)
  BY FS_Interval
<1>3. IsFiniteSet(Groups(i))
  BY <1>1, <1>2, FS_Subset DEF Groups
<1>4. ASSUME NEW q \in DOMAIN file.frames[i].fields
      PROVE  IsFiniteSet(UNION {RowsOfEntry(i, q, e) :
                                  e \in DOMAIN file.frames[i].fields[q].entries})
  <2>1. PICK entries \in Seq(Entry) : entries = file.frames[i].fields[q].entries
    BY <1>4, EntryShape
  <2>2. IsFiniteSet(DOMAIN entries)
    BY FS_Interval
  <2> DEFINE f == [e \in DOMAIN entries |-> RowsOfEntry(i, q, e)]
  <2>3. \A e \in DOMAIN entries : IsFiniteSet(f[e])
    BY <1>4, <2>1, FiniteEntry
  <2>4. ImageOf({RowsOfEntry(i, q, e) : e \in DOMAIN file.frames[i].fields[q].entries},
                f, DOMAIN entries)
    BY <2>1 DEF ImageOf
  <2> HIDE DEF f
  <2> QED
    BY <2>2, <2>3, <2>4, FiniteUnion
<1> DEFINE g == [q \in Groups(i) |-> UNION {RowsOfEntry(i, q, e) :
                                  e \in DOMAIN file.frames[i].fields[q].entries}]
<1>5. \A q \in Groups(i) : IsFiniteSet(g[q])
  BY <1>4 DEF Groups
<1>6. ImageOf({UNION {RowsOfEntry(i, q, e) : e \in DOMAIN file.frames[i].fields[q].entries} :
                 q \in Groups(i)}, g, Groups(i))
  BY Zenon DEF ImageOf
<1> HIDE DEF g
<1> QED
  BY <1>3, <1>5, <1>6, FiniteUnion DEF RowsOfFrame, Groups

Data(i) == file.frames[i].type = "OSMData"

LEMMA FileFinite == TypeOK => IsFiniteSet(RowsOfFile)
<1> SUFFICES ASSUME TypeOK PROVE IsFiniteSet(RowsOfFile)
  OBVIOUS
<1> DEFINE S == {i \in DOMAIN file.frames : Data(i)}
           f == [i \in S |-> RowsOfFrame(i)]
<1>1. IsFiniteSet(DOMAIN file.frames)
  BY FrameNumbers, FS_Interval
<1>2. IsFiniteSet(S)
  BY <1>1, FS_Subset
<1>3. \A i \in S : IsFiniteSet(f[i])
  BY FiniteFrame
<1>4. ImageOf({RowsOfFrame(i) : i \in S}, f, S) /\ RowsOfFile = UNION {RowsOfFrame(i) : i \in S}
  BY DEF RowsOfFile, Data, ImageOf
<1> HIDE DEF f, S
<1> QED
  BY <1>2, <1>3, <1>4, FiniteUnion

-----------------------------------------------------------------------------
(* What is produced is in the file.                                        *)
Stands(r) ==
  /\ r.frame \in DOMAIN file.frames /\ Data(r.frame)
  /\ r.field \in Groups(r.frame)
  /\ r.entry \in DOMAIN file.frames[r.frame].fields[r.field].entries
  /\ r.item \in 1..Items(file.frames[r.frame].fields[r.field].entries[r.entry])

(* Only InitGlobal takes the header, and all else that is taken is data.   *)
DataInv ==
  /\ phase = "Running" => offset > 0
  /\ \A t \in Threads :
       /\ claimed[t] # 0 => Data(claimed[t])
       /\ block[t] # 0 => Data(block[t])

RealInv == PlainBlocks => \A t \in Threads : \A r \in Produced(t) : Stands(r)

LEMMA ItemsIs ==
  ASSUME NEW i, NEW q, NEW e
  PROVE  RowsOfEntry(i, q, e)
           = {[frame |-> i, field |-> q, entry |-> e, item |-> k, decode |-> DeclaredDecode(i)] :
                k \in 1..Items(file.frames[i].fields[q].entries[e])}
BY DEF RowsOfEntry, Items

LEMMA StandsInFile ==
  ASSUME TypeOK, NEW r \in Row, Stands(r), r.decode = DeclaredDecode(r.frame)
  PROVE  r \in RowsOfFile
<1>1. r = [frame |-> r.frame, field |-> r.field, entry |-> r.entry, item |-> r.item,
           decode |-> DeclaredDecode(r.frame)]
  BY DEF Row
<1>2. r \in RowsOfEntry(r.frame, r.field, r.entry)
  BY <1>1, ItemsIs DEF Stands
<1>3. r \in RowsOfFrame(r.frame)
  <2>1. r \in UNION {RowsOfEntry(r.frame, r.field, e) :
                       e \in DOMAIN file.frames[r.frame].fields[r.field].entries}
    BY Zenon, <1>2 DEF Stands
  <2> QED
    BY Zenon, <2>1 DEF RowsOfFrame, Stands, Groups
<1> QED
  BY <1>3 DEF RowsOfFile, Stands, Data

LEMMA DataInit == Init => DataInv /\ RealInv
<1> SUFFICES ASSUME Init PROVE DataInv /\ RealInv
  OBVIOUS
<1>1. \A t \in Threads :
        claimed[t] = 0 /\ block[t] = 0 /\ output[t] = <<>> /\ chunks[t] = <<>>
  BY DEF Init
<1>2. \A t \in Threads : Produced(t) = {}
  BY <1>1 DEF Produced, HandedOver, ToSet
<1>3. phase # "Running"
  BY DEF Init
<1> QED
  BY <1>1, <1>2, <1>3 DEF DataInv, RealInv

LEMMA DataNext ==
  ASSUME TypeInv, LocationInv, DataInv, [Next]_vars
  PROVE  DataInv'
<1> USE DEF TypeInv
<1>1. UNCHANGED file
  BY Steps, InitGlobalStays, SharedStay DEF vars
<1>2. offset \in Nat /\ offset' \in Nat /\ offset' >= offset
  BY OffsetGrows, NextType DEF TypeOK
<1>3. \A i : Data(i)' <=> Data(i)
  BY <1>1 DEF Data
<1>4. CASE UNCHANGED vars
  BY <1>3, <1>4 DEF vars, globals, parser, DataInv
<1>5. CASE InitGlobal
  <2>1. \A u \in Threads : UNCHANGED <<claimed[u], block[u]>>
    BY <1>5, InitGlobalStays DEF Local
  <2>2. phase' = "Running" => offset' > 0
    <3> SUFFICES ASSUME phase' = "Running" PROVE offset' > 0
      OBVIOUS
    <3>1. PICK i \in DOMAIN file.frames : ReturnBlob(i)
      BY <1>5 DEF InitGlobal
    <3>2. offset' = Ends(i)
      BY <3>1 DEF ReturnBlob, Ends
    <3> QED
      BY <3>2, FramesOfFile
  <2> QED
    BY <1>3, <2>1, <2>2 DEF DataInv
<1>6. ASSUME NEW t \in Threads, ThreadStep(t) PROVE DataInv'
  <2>1. UNCHANGED phase
    BY <1>6, SharedStay
  <2>2. \A u \in Threads \ {t} : UNCHANGED <<claimed[u], block[u]>>
    BY <1>6, OthersStay DEF Local
  <2>3. CASE Asks(t) /\ TakeBlob(t)
    <3>1. PICK i \in DOMAIN file.frames :
            ReturnBlob(i) /\ claimed' = [claimed EXCEPT ![t] = i]
      BY <2>3 DEF TakeBlob
    <3>2. file.frames[i].start = offset /\ Readable(file.frames[i])
      BY <3>1 DEF ReturnBlob, FramesHere
    <3>3. offset > 0
      BY <2>3 DEF Asks, DataInv
    <3>4. i # 1 /\ i \in Nat /\ i >= 1 /\ i \in 2..Len(file.frames)
      BY <1>2, <3>2, <3>3, FramesOfFile
    <3>5. file.frames[i].type # "OSMHeader"
      BY <3>4, FilesAssumption DEF TypeOK
    <3>6. Data(i)
      BY <3>2, <3>5 DEF Readable, Data
    <3>7. claimed'[t] = i /\ UNCHANGED block[t]
      BY <2>3, <3>1 DEF Asks, parser, TypeOK
    <3> QED
      BY <1>2, <1>3, <2>1, <2>2, <3>6, <3>7 DEF DataInv
  <2>4. CASE Opens(t)
    <3>1. claimed[t] # 0 /\ block'[t] = claimed[t] /\ claimed'[t] = 0
      BY <2>4, OpensPlainly
    <3> QED
      BY <1>2, <1>3, <2>1, <2>2, <3>1 DEF DataInv
  <2>5. CASE ~(Asks(t) /\ TakeBlob(t)) /\ ~Opens(t)
    <3>1. UNCHANGED <<claimed[t], block[t]>>
      BY <1>6, <2>5, Moves DEF Asks, Stops, Parses, Leaves, Finishes, HandsOver, parser
    <3> QED
      BY <1>2, <1>3, <2>1, <2>2, <3>1 DEF DataInv
  <2> QED
    BY <2>3, <2>4, <2>5
<1> QED
  BY <1>4, <1>5, <1>6, Steps

(* A row that is made of an item of the entry at which the parser stands.  *)
LEMMA MadeStands ==
  ASSUME TypeInv, DataInv, NEW t \in Threads, block[t] # 0, group[t] \in Groups(block[t]),
         NEW e \in DOMAIN Entries(t), NEW k \in 1..Items(Entries(t)[e])
  PROVE  Stands(MakeRow(t, e, k))
<1>1. block[t] \in DOMAIN file.frames /\ Data(block[t])
  BY FieldsShape DEF TypeInv, DataInv
<1>2. Entries(t) = file.frames[block[t]].fields[group[t]].entries
  BY DEF Entries, Fields
<1>3. PICK r : r = MakeRow(t, e, k)
  OBVIOUS
<1>4. r.frame = block[t] /\ r.field = group[t] /\ r.entry = e /\ r.item = k
  BY <1>3 DEF MakeRow
<1>5. Stands(r)
  BY <1>1, <1>2, <1>4 DEF Stands
<1> QED
  BY <1>3, <1>5

LEMMA ParseStands ==
  ASSUME TypeInv, DataInv, PlainBlocks, NEW t \in Threads, Faithful(t), InGroupOrder(t),
         ParseStep(t), NEW r \in Produced(t)'
  PROVE  r \in Produced(t) \/ Stands(r)
<1> USE DEF TypeInv
<1>1. UNCHANGED chunks
  BY ParseLeaves
<1>2. ASSUME NEW rows \in Seq(Row), Extends(t, rows),
             \A n \in DOMAIN rows : Stands(rows[n])
      PROVE  r \in Produced(t) \/ Stands(r)
  <2>1. Produced(t)' = Produced(t) \cup {rows[n] : n \in DOMAIN rows}
    BY <1>1, <1>2, FillKeepsOrder DEF Extends
  <2> QED
    BY <1>2, <2>1
<1>3. CASE ScanElement(t)
  <2>1. PICK rows \in Seq(Row) :
          rows = <<MakeRow(t, group_reader[t], 1)>> /\ Extends(t, rows)
    BY <1>3, ScanElementExtends
  <2>2. /\ block[t] # 0 /\ group[t] \in Groups(block[t])
        /\ group_reader[t] \in DOMAIN Entries(t)
        /\ 1 \in 1..Items(Entries(t)[group_reader[t]])
    <3>1. /\ state[t] = "Group" /\ group_reader[t] <= Len(Entries(t))
          /\ Entries(t)[group_reader[t]].kind \in {"node", "way", "relation"}
      BY <1>3 DEF ScanElement, NextEntry, Reading
    <3>2. block[t] # 0 /\ group[t] \in DOMAIN Fields(t) /\ Entries(t) \in Seq(Entry)
      BY <1>3, InGroup DEF ScanElement, NextEntry
    <3>3. group_reader[t] \in Nat \ {0}
      BY DEF TypeOK
    <3>4. group[t] \in Groups(block[t])
      BY <3>1, <3>2 DEF Faithful, Groups, Fields
    <3>5. group_reader[t] \in DOMAIN Entries(t)
      BY <3>1, <3>2, <3>3
    <3>6. Items(Entries(t)[group_reader[t]]) = 1
      BY <3>1 DEF Items
    <3> QED
      BY <3>2, <3>4, <3>5, <3>6
  <2>3. Stands(MakeRow(t, group_reader[t], 1))
    BY <2>2, MadeStands
  <2>4. \A n \in DOMAIN rows : rows[n] = MakeRow(t, group_reader[t], 1)
    BY <2>1
  <2> QED
    BY <1>2, <2>1, <2>3, <2>4
<1>4. CASE ScanDenseNodes(t)
  <2>1. PICK n \in Nat, rows \in Seq(Row) :
          /\ rows = [i \in 1..n |-> MakeRow(t, group_reader[t] - 1, dense_index[t] + i)]
          /\ Extends(t, rows)
          /\ dense_index[t] + n <= DenseSize(t)
    BY <1>4, ScanDenseNodesExtends
  <2>2. PICK e \in Int : e = group_reader[t] - 1
    BY DEF TypeOK
  <2>3. /\ block[t] # 0 /\ group[t] \in DOMAIN Fields(t) /\ Entries(t) \in Seq(Entry)
        /\ state[t] = "DenseNodes"
    BY <1>4, InGroup DEF ScanDenseNodes, Reading
  <2>4. /\ e \in DOMAIN Entries(t) /\ Entries(t)[e] \in Entry
        /\ Entries(t)[e].kind = "dense" /\ group[t] \in Groups(block[t])
    BY <2>2, <2>3 DEF Faithful, Groups, Fields, ParserOK, Standing
  <2>5. Items(Entries(t)[e]) = DenseSize(t) /\ DenseSize(t) \in Nat
    BY <2>2, <2>4 DEF Items, DenseSize, Entry
  <2>6. dense_index[t] \in Nat
    BY DEF TypeOK
  <2>8. \A i \in 1..n : dense_index[t] + i \in 1..Items(Entries(t)[e])
    BY <2>1, <2>5, <2>6
  <2>9. \A i \in 1..n : Stands(MakeRow(t, e, dense_index[t] + i))
    BY <2>3, <2>4, <2>8, MadeStands
  <2>10. \A i \in DOMAIN rows : Stands(rows[i])
    BY <2>1, <2>2, <2>9
  <2> QED
    BY <1>2, <2>1, <2>10
<1>5. CASE ~ScanElement(t) /\ ~ScanDenseNodes(t)
  <2>1. PICK rows \in Seq(Row) : rows = <<>>
    <3>1. <<>> \in Seq(Row)
      OBVIOUS
    <3> QED
      BY <3>1
  <2>2. Extends(t, rows)
    BY <1>5, <2>1, EnterGroupExtends, SilentExtends DEF ParseStep
  <2>3. DOMAIN rows = {}
    BY <2>1
  <2> QED
    BY <1>2, <2>2, <2>3
<1> QED
  BY <1>3, <1>4, <1>5

LEMMA RealNext ==
  ASSUME DeliveryInv, DataInv, RealInv, [Next]_vars
  PROVE  RealInv'
<1> USE DEF DeliveryInv, ScanInv, TypeInv
<1>1. UNCHANGED file
  BY Steps, InitGlobalStays, SharedStay DEF vars
<1>2. \A r : Stands(r)' <=> Stands(r)
  BY <1>1 DEF Stands, Data, Groups
<1>3. SUFFICES ASSUME PlainBlocks, NEW u \in Threads, NEW r \in Produced(u)'
               PROVE  r \in Produced(u) \/ Stands(r)
  BY <1>1, <1>2 DEF RealInv, PlainBlocks
<1>4. CASE UNCHANGED <<output, chunks>>
  <2>1. Produced(u)' = Produced(u)
    BY <1>4 DEF Produced, HandedOver
  <2> QED
    BY <1>3, <2>1
<1>5. ASSUME NEW t \in Threads, ThreadStep(t) PROVE r \in Produced(u) \/ Stands(r)
  <2>1. CASE u # t
    <3>1. UNCHANGED RowState(u)
      BY <1>5, <2>1, OthersStay DEF Local, RowState
    <3> QED
      BY <1>3, <3>1, RowsStay
  <2>2. CASE u = t /\ Parses(t)
    <3>1. Faithful(t) /\ InGroupOrder(t)
      BY <1>3 DEF DecodeInv, RowsInv, InPlace
    <3> QED
      BY <1>3, <2>2, <3>1, ParseStands DEF Parses
  <2>3. CASE u = t /\ HandsOver(t)
    BY <1>3, <2>3, HandingOverKeepsOrder
  <2>4. CASE ~Parses(t) /\ ~HandsOver(t)
    BY <1>4, <1>5, <2>4, Moves DEF Asks, Opens, Stops, Leaves, Finishes
  <2> QED
    BY <2>1, <2>2, <2>3, <2>4
<1> QED
  BY <1>3, <1>4, <1>5, Steps DEF InitGlobal, vars

-----------------------------------------------------------------------------
(* How many rows have been handed over.                                    *)
LEMMA HandedIs ==
  ASSUME NEW x
  PROVE  x \in RowsHanded <=>
           \E t \in Threads : \E j \in DOMAIN chunks[t] : \E m \in DOMAIN chunks[t][j].rows :
             x = <<t, j, m>>
BY DEF RowsHanded

(* The places of the rows that a step of t hands over.                     *)
Handed(t) == {<<t, Len(chunks[t]) + 1, m>> : m \in DOMAIN output[t]}

LEMMA HandedGrows ==
  ASSUME TypeOK, NEW t \in Threads, HandsOver(t), ThreadStep(t)
  PROVE  /\ RowsHanded' = RowsHanded \cup Handed(t)
         /\ RowsHanded \cap Handed(t) = {}
<1> DEFINE chunk == [batch |-> block_idx[t], rows |-> output[t]]
<1>1. chunks[t] \in Seq(Chunk) /\ chunk \in Chunk
  BY DEF TypeOK, Chunk
<1>2. chunks'[t] = Append(chunks[t], chunk) /\ chunk.rows = output[t]
  BY DEF HandsOver
<1>3. \A u \in Threads \ {t} : chunks'[u] = chunks[u]
  BY OthersStay DEF Local
<1> HIDE DEF chunk
<1> PICK n \in Nat : n = Len(chunks[t])
  BY <1>1
<1>4. /\ DOMAIN chunks[t] = 1..n /\ DOMAIN chunks'[t] = DOMAIN chunks[t] \cup {n + 1}
      /\ n + 1 \notin DOMAIN chunks[t]
      /\ \A j \in DOMAIN chunks[t] : chunks'[t][j] = chunks[t][j]
      /\ chunks'[t][n + 1] = chunk
  BY <1>1, <1>2, Appended
<1>5. ASSUME NEW x PROVE x \in RowsHanded' <=> x \in RowsHanded \cup Handed(t)
  <2>1. x \in RowsHanded' <=>
          \E u \in Threads : \E j \in DOMAIN chunks'[u] : \E m \in DOMAIN chunks'[u][j].rows :
            x = <<u, j, m>>
    BY DEF RowsHanded
  <2>2. ASSUME x \in RowsHanded' PROVE x \in RowsHanded \cup Handed(t)
    <3>a. PICK u \in Threads :
            \E j \in DOMAIN chunks'[u] : \E m \in DOMAIN chunks'[u][j].rows : x = <<u, j, m>>
      BY <2>1, <2>2
    <3>b. PICK j \in DOMAIN chunks'[u] : \E m \in DOMAIN chunks'[u][j].rows : x = <<u, j, m>>
      BY <3>a
    <3>1. PICK m \in DOMAIN chunks'[u][j].rows : x = <<u, j, m>>
      BY <3>b
    <3>2. CASE u # t \/ j # n + 1
      <4>1. j \in DOMAIN chunks[u] /\ chunks'[u][j] = chunks[u][j]
        BY <1>3, <1>4, <3>2
      <4> QED
        BY <3>1, <4>1, HandedIs
    <3>3. CASE u = t /\ j = n + 1
      <4>1. m \in DOMAIN output[t]
        BY <1>2, <1>4, <3>3
      <4> QED
        BY <3>1, <3>3, <4>1 DEF Handed
    <3> QED
      BY <3>2, <3>3
  <2>3. ASSUME x \in RowsHanded PROVE x \in RowsHanded'
    <3>a. PICK u \in Threads :
            \E j \in DOMAIN chunks[u] : \E m \in DOMAIN chunks[u][j].rows : x = <<u, j, m>>
      BY <2>3, HandedIs
    <3>b. PICK j \in DOMAIN chunks[u] : \E m \in DOMAIN chunks[u][j].rows : x = <<u, j, m>>
      BY <3>a
    <3>1. PICK m \in DOMAIN chunks[u][j].rows : x = <<u, j, m>>
      BY <3>b
    <3>2. j \in DOMAIN chunks'[u] /\ chunks'[u][j] = chunks[u][j]
      BY <1>3, <1>4
    <3> QED
      BY <2>1, <3>1, <3>2
  <2>4. ASSUME x \in Handed(t) PROVE x \in RowsHanded'
    <3>1. PICK m \in DOMAIN output[t] : x = <<t, n + 1, m>>
      BY <2>4 DEF Handed
    <3>2. n + 1 \in DOMAIN chunks'[t] /\ m \in DOMAIN chunks'[t][n + 1].rows
      BY <1>2, <1>4
    <3> QED
      BY <2>1, <3>1, <3>2
  <2> QED
    BY <2>2, <2>3, <2>4
<1>6. ASSUME NEW x \in RowsHanded, x \in Handed(t) PROVE FALSE
  <2>1. PICK m \in DOMAIN output[t] : x = <<t, n + 1, m>>
    BY <1>6 DEF Handed
  <2>2. PICK u \in Threads :
          \E j \in DOMAIN chunks[u] : \E k \in DOMAIN chunks[u][j].rows : x = <<u, j, k>>
    BY HandedIs
  <2>3. PICK j \in DOMAIN chunks[u] : \E k \in DOMAIN chunks[u][j].rows : x = <<u, j, k>>
    BY <2>2
  <2> QED
    BY <1>4, <2>1, <2>3
<1> QED
  BY <1>5, <1>6

LEMMA HandedNumber ==
  ASSUME TypeOK, NEW t \in Threads
  PROVE  IsFiniteSet(Handed(t)) /\ Cardinality(Handed(t)) = Len(output[t])
<1>0. output[t] \in Seq(Row)
  BY DEF TypeOK
<1> PICK n \in Nat : n = Len(output[t]) /\ DOMAIN output[t] = 1..n
  BY <1>0
<1> PICK k : k = Len(chunks[t]) + 1
  OBVIOUS
<1> DEFINE f == [m \in 1..n |-> <<t, k, m>>]
<1>1. \A i, j \in 1..n : i < j => f[i] # f[j]
  OBVIOUS
<1>2. ImageOf(Handed(t), f, 1..n)
  BY DEF Handed, ImageOf
<1> HIDE DEF f
<1> QED
  BY <1>1, <1>2, DistinctElements

LEMMA OutputRows ==
  ASSUME TypeOK, NEW t \in Threads
  PROVE  ToSet(output[t]) \subseteq Row /\ \A i \in DOMAIN output[t] : output[t][i] \in Row
<1>1. output[t] \in Seq(Row)
  BY DEF TypeOK
<1> QED
  BY <1>1 DEF ToSet

LEMMA NotEarlierThanItself ==
  ASSUME NEW r \in Row
  PROVE  ~Earlier(Place(r), Place(r))
<1>1. /\ Place(r)[1] = r.frame /\ Place(r)[2] = r.field
      /\ Place(r)[3] = r.entry /\ Place(r)[4] = r.item
      /\ r.frame \in Nat /\ r.field \in Nat /\ r.entry \in Nat /\ r.item \in Nat
  BY DEF Place, Row
<1>2. \A n \in 1..4 : n = 1 \/ n = 2 \/ n = 3 \/ n = 4
  OBVIOUS
<1>3. \A n \in 1..4 : Place(r)[n] \in Nat
  BY <1>1, <1>2
<1>4. \A n \in 1..4 : ~(Place(r)[n] < Place(r)[n])
  BY <1>3
<1> QED
  BY <1>4 DEF Earlier

(* The rows of a chunk are different ones, none of which has been          *)
(* delivered before.                                                       *)
LEMMA OutputIsNew ==
  ASSUME TypeInv, RowsInv, NEW t \in Threads
  PROVE  /\ ToSet(output[t]) \cap Delivered = {}
         /\ IsFiniteSet(ToSet(output[t])) /\ Cardinality(ToSet(output[t])) = Len(output[t])
<1> USE DEF TypeInv
<1>1. OnceAndInOrder
  BY OnceNow
<1>0. output[t] \in Seq(Row)
  BY DEF TypeOK
<1> PICK n \in Nat : n = Len(output[t]) /\ DOMAIN output[t] = 1..n
  BY <1>0
<1>2. /\ Len(chunks[t]) \in Nat /\ DOMAIN chunks[t] = 1..Len(chunks[t])
  BY DEF TypeOK
<1>3. PICK k \in ChunkNumbers(t) : /\ ChunkRows(t, k) = output[t] /\ k \notin DOMAIN chunks[t]
                                   /\ \A j \in DOMAIN chunks[t] : j \in ChunkNumbers(t) /\ j < k
  <2>1. Len(chunks[t]) + 1 \in ChunkNumbers(t) /\ Len(chunks[t]) + 1 \notin DOMAIN chunks[t]
        /\ \A j \in DOMAIN chunks[t] : j \in ChunkNumbers(t) /\ j < Len(chunks[t]) + 1
    BY <1>2 DEF ChunkNumbers
  <2> QED
    BY <2>1 DEF ChunkRows
<1>4. \A i, j \in 1..n : i < j => output[t][i] # output[t][j]
  <2> SUFFICES ASSUME NEW i \in 1..n, NEW j \in 1..n, i < j, output[t][i] = output[t][j]
               PROVE  FALSE
    OBVIOUS
  <2>1. Earlier(Place(output[t][i]), Place(output[t][j]))
    BY <1>1, <1>3 DEF OnceAndInOrder
  <2> QED
    BY <2>1, NotEarlierThanItself, OutputRows
<1>5. ASSUME NEW r \in ToSet(output[t]), r \in Delivered PROVE FALSE
  <2>1. PICK u \in Threads : r \in HandedOver(u)
    BY <1>5 DEF Delivered
  <2>2. r \in Produced(t) /\ r \in Produced(u)
    BY <2>1 DEF Produced
  <2>3. u = t
    BY <1>1, <2>2 DEF OnceAndInOrder
  <2>4. PICK j \in DOMAIN chunks[t] : r \in ToSet(chunks[t][j].rows)
    BY <2>1, <2>3 DEF HandedOver
  <2>5. PICK m \in DOMAIN ChunkRows(t, j) : r = ChunkRows(t, j)[m]
    BY <2>4 DEF ToSet, ChunkRows
  <2>6. PICK i \in DOMAIN ChunkRows(t, k) : r = ChunkRows(t, k)[i]
    BY <1>3 DEF ToSet
  <2>7. Earlier(Place(r), Place(r))
    BY <1>1, <1>3, <2>5, <2>6 DEF OnceAndInOrder
  <2> QED
    BY <1>5, <2>7, NotEarlierThanItself, OutputRows
<1>6. ImageOf(ToSet(output[t]), output[t], 1..n)
  BY DEF ToSet, ImageOf
<1> QED
  BY <1>4, <1>5, <1>6, DistinctElements

-----------------------------------------------------------------------------
(* What OsmDelivery sees of the scan.                                      *)
Pending == RowsOfFile \ Delivered

Outcome ==
  IF SomeFailed THEN "failed" ELSE IF AllFinished THEN "complete" ELSE "running"

(* The instance has the finite sets of its own module: they are the same.  *)
LEMMA SameCardinality ==
  ASSUME NEW S
  PROVE  Delivery!Cardinality(S) = Cardinality(S)
BY DEF Delivery!Cardinality, Cardinality

LEMMA SameFinite ==
  ASSUME NEW S
  PROVE  Delivery!IsFiniteSet(S) <=> IsFiniteSet(S)
BY DEF Delivery!IsFiniteSet, IsFiniteSet

LEMMA DeliveryVars ==
  /\ Delivery!deliveryVars = <<Pending, Cardinality(RowsHanded), Outcome>>
  /\ Delivery!deliveryVars' = <<Pending', Cardinality(RowsHanded)', Outcome'>>
BY DEF Delivery!deliveryVars, Pending, Outcome

CountInv == IsFiniteSet(RowsHanded)

ImplementationInv == DeliveryInv /\ CompleteInv /\ DataInv /\ RealInv /\ CountInv

LEMMA ProducedInFile ==
  ASSUME DeliveryInv, RealInv, PlainBlocks, NEW t \in Threads, NEW r \in Produced(t)
  PROVE  r \in RowsOfFile
<1> USE DEF DeliveryInv, ScanInv, TypeInv
<1>1. r \in Row
  BY ProducedRows
<1>2. Stands(r) /\ r.decode = DeclaredDecode(r.frame)
  BY DEF RealInv, DecodeInv, Faithful
<1> QED
  BY <1>1, <1>2, StandsInFile

(* A row of the file is known by its place.                                *)
LEMMA RowAtPlace ==
  ASSUME TypeOK, NEW r \in RowsOfFile, NEW d \in Row, d.decode = DeclaredDecode(d.frame),
         Place(d) = Place(r)
  PROVE  r = d
<1>1. PICK i \in DOMAIN file.frames : r \in RowsOfFrame(i)
  BY DEF RowsOfFile
<1>2. PICK q \in Groups(i) :
        r \in UNION {RowsOfEntry(i, q, e) : e \in DOMAIN file.frames[i].fields[q].entries}
  BY <1>1 DEF RowsOfFrame, Groups
<1>3. PICK e : r \in RowsOfEntry(i, q, e)
  BY <1>2
<1>4. PICK k : r = [frame |-> i, field |-> q, entry |-> e, item |-> k,
                    decode |-> DeclaredDecode(i)]
  BY <1>3 DEF RowsOfEntry
<1>5. d.frame = i /\ d.field = q /\ d.entry = e /\ d.item = k
  BY <1>4 DEF Place
<1> QED
  BY <1>4, <1>5 DEF Row

FinishInv == PlainBlocks /\ AllFinished => Pending = {}

LEMMA AllDelivered ==
  ASSUME DeliveryInv, CompleteInv
  PROVE  FinishInv
<1> USE DEF DeliveryInv, ScanInv, TypeInv
<1> SUFFICES ASSUME PlainBlocks, AllFinished, NEW r \in RowsOfFile PROVE r \in Delivered
  BY DEF FinishInv, Pending
<1>1. PICK d \in Delivered : Place(d) = Place(r)
  BY CompleteNow DEF SuccessMeansComplete
<1>2. PICK t \in Threads : d \in HandedOver(t)
  BY DEF Delivered
<1>3. d \in Produced(t)
  BY <1>2 DEF Produced
<1>4. d \in Row /\ d.decode = DeclaredDecode(d.frame)
  BY <1>3, ProducedRows DEF DecodeInv, Faithful
<1> QED
  BY <1>1, <1>4, RowAtPlace

LEMMA SameFile ==
  ASSUME [Next]_vars
  PROVE  UNCHANGED file /\ RowsOfFile' = RowsOfFile /\ (PlainBlocks' <=> PlainBlocks)
<1>1. UNCHANGED file
  BY Steps, InitGlobalStays, SharedStay DEF vars
<1> QED
  BY <1>1 DEF RowsOfFile, RowsOfFrame, RowsOfEntry, DeclaredDecode, PlainBlocks

LEMMA DeliveredGrows ==
  ASSUME TypeOK, NEW t \in Threads, HandsOver(t), ThreadStep(t)
  PROVE  Delivered' = Delivered \cup ToSet(output[t])
<1> DEFINE chunk == [batch |-> block_idx[t], rows |-> output[t]]
<1>1. chunks[t] \in Seq(Chunk) /\ chunk \in Chunk
  BY DEF TypeOK, Chunk
<1>2. chunks'[t] = Append(chunks[t], chunk) /\ chunk.rows = output[t]
  BY DEF HandsOver
<1> HIDE DEF chunk
<1>3. /\ DOMAIN chunks'[t] = DOMAIN chunks[t] \cup {Len(chunks[t]) + 1}
      /\ \A n \in DOMAIN chunks[t] : chunks'[t][n] = chunks[t][n]
      /\ chunks'[t][Len(chunks[t]) + 1] = chunk
  BY <1>1, <1>2, Appended
<1>4. HandedOver(t)' = HandedOver(t) \cup ToSet(output[t])
  BY <1>2, <1>3 DEF HandedOver
<1>5. \A u \in Threads \ {t} : chunks'[u] = chunks[u]
  BY OthersStay DEF Local
<1>6. \A u \in Threads \ {t} : HandedOver(u)' = HandedOver(u)
  BY <1>5 DEF HandedOver
<1> QED
  BY <1>4, <1>6 DEF Delivered

(* Chunks change only when one is handed over.                             *)
LEMMA ChunksStay ==
  ASSUME TypeOK, [Next]_vars
  PROVE  UNCHANGED chunks \/ \E t \in Threads : ThreadStep(t) /\ HandsOver(t)
<1>1. ASSUME NEW t \in Threads, ThreadStep(t) PROVE UNCHANGED chunks \/ HandsOver(t)
  BY <1>1, Moves DEF Asks, Opens, Stops, Parses, Leaves, Finishes
<1> QED
  BY <1>1, Steps DEF vars, InitGlobal

LEMMA CountNext ==
  ASSUME TypeOK, CountInv, [Next]_vars
  PROVE  CountInv'
<1>1. CASE UNCHANGED chunks
  BY <1>1 DEF CountInv, RowsHanded
<1>2. ASSUME NEW t \in Threads, ThreadStep(t), HandsOver(t) PROVE CountInv'
  <2>1. RowsHanded' = RowsHanded \cup Handed(t)
    BY <1>2, HandedGrows
  <2>2. IsFiniteSet(RowsHanded) /\ IsFiniteSet(Handed(t))
    BY HandedNumber DEF CountInv
  <2> QED
    BY <2>1, <2>2, FS_Union DEF CountInv
<1> QED
  BY <1>1, <1>2, ChunksStay

LEMMA HandsOverDelivers ==
  ASSUME ImplementationInv, PlainBlocks, NEW t \in Threads, ThreadStep(t), [Next]_vars,
         HandsOver(t)
  PROVE  Delivery!Deliver
<1> USE DEF ImplementationInv, DeliveryInv, ScanInv, TypeInv
<1>1. /\ RowsHanded' = RowsHanded \cup Handed(t) /\ RowsHanded \cap Handed(t) = {}
      /\ IsFiniteSet(RowsHanded) /\ IsFiniteSet(Handed(t))
      /\ Cardinality(Handed(t)) = Len(output[t])
  BY HandedGrows, HandedNumber DEF CountInv
<1>2. /\ Cardinality(RowsHanded) \in Nat
      /\ IsFiniteSet(RowsHanded') /\ Cardinality(RowsHanded') = Cardinality(RowsHanded) + Len(output[t])
  BY <1>1, FS_Union, FS_EmptySet, FS_CardinalityType
<1>3. Delivered' = Delivered \cup ToSet(output[t])
  BY DeliveredGrows
<1>4. RowsOfFile' = RowsOfFile
  BY SameFile
<1>5. /\ ToSet(output[t]) \subseteq RowsOfFile
      /\ ToSet(output[t]) \cap Delivered = {}
      /\ Cardinality(ToSet(output[t])) = Len(output[t])
  BY ProducedInFile, OutputIsNew DEF Produced
<1>6. Pending' \subseteq Pending /\ Pending \ Pending' = ToSet(output[t])
  BY <1>3, <1>4, <1>5 DEF Pending
<1>7. Len(output[t]) \in 1..Capacity
  <2>1. output[t] \in Seq(Row) /\ output[t] # <<>> /\ Len(output[t]) <= Capacity
    BY DEF TypeOK, HandsOver
  <2> QED
    BY <2>1, SizesAssumption
<1>8. Outcome # "complete" /\ Outcome' = Outcome
  <2>1. pc[t] \notin {"Finished", "Failed"} /\ pc'[t] = "TryRead"
    BY DEF HandsOver
  <2>2. UNCHANGED phase /\ \A u \in Threads \ {t} : pc'[u] = pc[u]
    BY SharedStay, OthersStay DEF Local
  <2> QED
    BY <2>1, <2>2 DEF Outcome, SomeFailed, AllFinished
<1>9. Cardinality(RowsHanded') \in Cardinality(RowsHanded) + 1..Cardinality(RowsHanded) + Capacity
  BY <1>2, <1>7, SizesAssumption
<1>10. Cardinality(RowsHanded') = Cardinality(RowsHanded) + Cardinality(Pending \ Pending')
  BY <1>2, <1>5, <1>6
<1>11. Delivery!Cardinality(Pending \ Pending') = Cardinality(Pending \ Pending')
  BY SameCardinality
<1> QED
  BY <1>6, <1>8, <1>9, <1>10, <1>11 DEF Delivery!Deliver, Pending, Outcome

(* A step that hands nothing over changes at most the outcome.             *)
LEMMA OthersDecide ==
  ASSUME ImplementationInv, PlainBlocks, FinishInv', [Next]_vars, UNCHANGED chunks
  PROVE  [Delivery!Succeed \/ Delivery!Fail]_(Delivery!deliveryVars)
<1> USE DEF ImplementationInv, DeliveryInv, ScanInv, TypeInv
<1>1. RowsHanded' = RowsHanded /\ Pending' = Pending
  BY SameFile DEF RowsHanded, Pending, Delivered, HandedOver
<1>2. Cardinality(RowsHanded)' = Cardinality(RowsHanded)
  BY <1>1
<1>3. SomeFailed => SomeFailed'
  BY FailureLasts
<1>4. CASE Outcome' = Outcome
  BY <1>1, <1>2, <1>4, DeliveryVars
<1>5. CASE Outcome' # Outcome
  <2>1. Outcome = "running"
    <3>1. ~SomeFailed
      BY <1>3, <1>5 DEF Outcome
    <3>2. ASSUME AllFinished PROVE FALSE
      <4>1. phase = "Running"
        BY <3>2, AllTaken
      <4>2. \A t \in Threads : ~ThreadStep(t)
        BY <3>2, Moves
        DEF AllFinished, Asks, Opens, Stops, Stopped, Parses, Leaves, Finishes, HandsOver
      <4>3. UNCHANGED vars
        BY <4>1, <4>2, Steps DEF InitGlobal
      <4> QED
        BY <1>5, <4>3 DEF vars, Outcome, SomeFailed, AllFinished
    <3> QED
      BY <3>1, <3>2 DEF Outcome
  <2>2. CASE SomeFailed'
    <3>1. Outcome' = "failed"
      BY <2>2 DEF Outcome
    <3>2. Delivery!Fail
      BY <1>1, <1>2, <2>1, <3>1 DEF Delivery!Fail, Pending, Outcome
    <3> QED
      BY <3>2
  <2>3. CASE ~SomeFailed'
    <3>1. AllFinished' /\ Outcome' = "complete"
      BY <1>5, <2>1, <2>3 DEF Outcome
    <3>2. Pending' = {}
      BY <3>1, SameFile DEF FinishInv
    <3>3. Delivery!Succeed
      BY <1>1, <1>2, <2>1, <3>1, <3>2 DEF Delivery!Succeed, Pending, Outcome
    <3> QED
      BY <3>3
  <2> QED
    BY <2>2, <2>3
<1> QED
  BY <1>4, <1>5

LEMMA ImplementationNext ==
  ASSUME ImplementationInv, DeliveryInv', [Next]_vars
  PROVE  ImplementationInv'
BY CompleteNext, DataNext, RealNext, CountNext
DEF ImplementationInv, DeliveryInv, ScanInv, TypeInv

LEMMA ImplementationInit ==
  ASSUME Init, DeliveryInv
  PROVE  ImplementationInv /\ Delivery!Init
<1> USE DEF DeliveryInv, ScanInv, TypeInv
<1>1. \A t \in Threads : chunks[t] = <<>> /\ pc[t] = "InitLocal"
  BY DEF Init
<1>2. RowsHanded = {}
  BY <1>1 DEF RowsHanded
<1>3. CountInv /\ Cardinality(RowsHanded) = 0
  BY <1>2, FS_EmptySet DEF CountInv
<1>4. IsFiniteSet(Pending)
  BY FileFinite, FS_Subset DEF Pending
<1>5. Outcome = "running"
  BY <1>1, SizesAssumption DEF Init, Outcome, SomeFailed, AllFinished
<1>6. CompleteInv
  BY DEF Init, CompleteInv
<1>7. Delivery!IsFiniteSet(Pending)
  BY <1>4, SameFinite
<1>8. Delivery!Init
  BY <1>3, <1>5, <1>7 DEF Delivery!Init, Pending, Outcome
<1> QED
  BY <1>3, <1>6, <1>8, DataInit DEF ImplementationInv

LEMMA StepDelivers ==
  ASSUME ImplementationInv, PlainBlocks, FinishInv', [Next]_vars
  PROVE  PlainBlocks' /\ [Delivery!Next]_(Delivery!deliveryVars)
<1>1. PlainBlocks'
  BY SameFile
<1>2. CASE UNCHANGED chunks
  BY <1>1, <1>2, OthersDecide DEF Delivery!Next
<1>3. ASSUME NEW t \in Threads, ThreadStep(t), HandsOver(t)
      PROVE  [Delivery!Next]_(Delivery!deliveryVars)
  BY <1>3, HandsOverDelivers DEF Delivery!Next
<1> QED
  BY <1>1, <1>2, <1>3, ChunksStay DEF ImplementationInv, DeliveryInv, ScanInv, TypeInv

(* Any number of threads, in files whose blocks are laid out in the order  *)
(* of their tags: whatever the threads of st_read_osm do, the query above  *)
(* sees OsmDelivery.  The file's finitely many rows arrive in chunks of at *)
(* least one and at most Capacity rows, as many rows as are then no longer *)
(* missing, so that none comes twice; the query succeeds only when none is *)
(* missing, and nothing arrives after that; once failed it stays failed.   *)
THEOREM ScanDelivers == Spec => (PlainBlocks => Delivery!Deliveries)
<1>1. Init /\ DeliveryInv => ImplementationInv /\ Delivery!Init
  BY ImplementationInit
<1>2. ImplementationInv /\ DeliveryInv' /\ [Next]_vars => ImplementationInv'
  BY ImplementationNext
<1>3. ImplementationInv => FinishInv
  BY AllDelivered DEF ImplementationInv
<1>4. ImplementationInv /\ PlainBlocks /\ FinishInv' /\ [Next]_vars
        => PlainBlocks' /\ [Delivery!Next]_(Delivery!deliveryVars)
  BY StepDelivers
<1> QED
  BY <1>1, <1>2, <1>3, <1>4, DeliveryInvariant, PTL DEF Spec, Delivery!Deliveries

(* A scan that has come to its end is decided, one way or the other.       *)
LEMMA EndsDecided ==
  ASSUME LocationInv
  PROVE  (phase = "Failed" \/ \A t \in Threads : pc[t] \in Stopped)
           => (IF SomeFailed THEN "failed" ELSE IF AllFinished THEN "complete" ELSE "running")
                # "running"
BY DEF LocationInv, Located, SomeFailed, AllFinished, Stopped

(* With Termination, which is about fairness and which TLC checks, the     *)
(* scan of st_read_osm implements all of OsmDelivery.                      *)
THEOREM ScanImplementsDelivery ==
  Spec /\ PlainBlocks /\ Termination => DeliversEveryRowOnce
<1>1. /\ DeliveryInv
      /\ phase = "Failed" \/ \A t \in Threads : pc[t] \in Stopped
      => (IF SomeFailed THEN "failed" ELSE IF AllFinished THEN "complete" ELSE "running")
           # "running"
  BY EndsDecided DEF DeliveryInv, ScanInv
<1> QED
  BY <1>1, ScanDelivers, DeliveryInvariant, PTL DEF Termination, DeliversEveryRowOnce, Delivery!Spec

=============================================================================
