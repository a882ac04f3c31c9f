------------------------------ MODULE OsmScan ------------------------------
(***************************************************************************)
(* The parallel table function ST_ReadOSM.                                 *)
(*                                                                         *)
(* A .osm.pbf file is a run of frames: a length prefix, a blob header and  *)
(* a compressed blob.  All threads of the scan share one GlobalState and   *)
(* take frames from it under its lock (GetNextBlob); each thread then      *)
(* decompresses and parses its block alone, with the state machine of      *)
(* LocalState::TryRead, filling output chunks of at most Capacity rows.    *)
(* A chunk may end in the middle of a block (the parser resumes at the     *)
(* next Execute) and may hold rows of several blocks.                      *)
(*                                                                         *)
(* A row is known by its place in the file and by the decoding parameters  *)
(* (string table, granularity, offsets) it was produced with.              *)
(***************************************************************************)
EXTENDS Integers, Sequences, FiniteSets

CONSTANTS
  Threads,            \* threads DuckDB runs the scan on
  Capacity,           \* STANDARD_VECTOR_SIZE
  Prefix,             \* bytes of the length prefix of a frame
  DefaultGranularity, \* granularity of a block that declares none
  Files               \* the files a scan may be given

ASSUME SizesAssumption ==
  /\ Threads # {}
  /\ Capacity \in Nat \ {0}
  /\ Prefix \in Nat \ {0}
  /\ DefaultGranularity \in Int

FrameTypes == {"OSMHeader", "OSMData", "Other"}

(* Protobuf fields of a PrimitiveBlock: 1 string table, 2 primitive group, *)
(* 17 granularity, 19 and 20 latitude and longitude offset.                *)
Kinds  == {"node", "way", "relation", "dense", "changeset"}
Entry  == [kind : Kinds, size : Nat]
Field  == [tag : Nat, value : Int, entries : Seq(Entry)]
Frame  == [start : Nat, header : Nat \ {0}, length : Nat, type : FrameTypes,
           corrupt : BOOLEAN, fields : Seq(Field)]
File   == [size : Nat \ {0}, frames : Seq(Frame)]

FrameEnd(frame) == frame.start + Prefix + frame.header + frame.length

(* Frames lie end to end from byte 0, in the order of their numbers.  The  *)
(* file may be cut short within its last frame; no byte follows it.        *)
ASSUME FilesAssumption ==
  /\ Files \subseteq File
  /\ \A f \in Files : LET n == Len(f.frames) IN
       /\ n > 0
       /\ f.frames[1].start = 0
       /\ \A i \in 1..n - 1 : f.frames[i + 1].start = FrameEnd(f.frames[i])
       /\ \A i, j \in 1..n : i < j => FrameEnd(f.frames[i]) <= f.frames[j].start
       /\ f.size \in f.frames[n].start + 1 .. FrameEnd(f.frames[n])
       /\ \A i \in 2..n : f.frames[i].type # "OSMHeader"

-----------------------------------------------------------------------------
VARIABLES
  file,         \* the file being read, named by BindData
  phase,        \* whether InitGlobal has run
  offset, done, blob_index, bytes_read,   \* GlobalState
  pc,           \* where each thread is
  claimed,      \* frame a thread holds but has not decompressed, 0 for none
  claimed_idx,  \* blob_idx of that frame
  block,        \* frame of LocalState::block, 0 for a null local state
  block_idx,    \* block_idx of LocalState::block
  state,        \* ParseState
  block_reader, \* next unread field of the block
  group,        \* field group_reader runs over
  group_reader, \* next unread entry of that group
  dense_index,  \* dense_node_index
  decode,       \* string table, granularity and offsets of LocalState
  output,       \* rows of the chunk being filled; row_id is its length
  chunks        \* chunks handed to DuckDB by each thread, with their batch

globals == <<offset, done, blob_index, bytes_read>>
parser  == <<block, block_idx, state, block_reader, group, group_reader,
             dense_index, decode>>
vars == <<file, phase, globals, pc, claimed, claimed_idx, parser, output,
          chunks>>

Phases      == {"Bound", "Running", "Failed"}
Stopped     == {"Finished", "Failed", "Cancelled"}
Locations   == {"InitLocal", "Decompress", "TryRead", "NextBlob", "Drained"}
                 \cup Stopped
ParseStates == {"Block", "Group", "DenseNodes", "End"}

Decode == [strings : Nat, granularity : Int, lat_offset : Int, lon_offset : Int]
FreshDecode(frame) ==
  [strings |-> frame, granularity |-> DefaultGranularity,
   lat_offset |-> 0, lon_offset |-> 0]

Row   == [frame : Nat, field : Nat, entry : Nat, item : Nat, decode : Decode]
Chunk == [batch : Nat, rows : Seq(Row)]

Fields(t)  == file.frames[block[t]].fields
Entries(t) == Fields(t)[group[t]].entries

Init ==
  /\ file \in Files
  /\ phase = "Bound"
  /\ offset = 0 /\ done = FALSE /\ blob_index = 0 /\ bytes_read = 0
  /\ pc = [t \in Threads |-> "InitLocal"]
  /\ claimed = [t \in Threads |-> 0]
  /\ claimed_idx = [t \in Threads |-> 0]
  /\ block = [t \in Threads |-> 0]
  /\ block_idx = [t \in Threads |-> 0]
  /\ state = [t \in Threads |-> "Block"]
  /\ block_reader = [t \in Threads |-> 1]
  /\ group = [t \in Threads |-> 1]
  /\ group_reader = [t \in Threads |-> 1]
  /\ dense_index = [t \in Threads |-> 0]
  /\ decode = [t \in Threads |-> FreshDecode(0)]
  /\ output = [t \in Threads |-> <<>>]
  /\ chunks = [t \in Threads |-> <<>>]

-----------------------------------------------------------------------------
(* GlobalState::GetNextBlob, one critical section with three outcomes.     *)

AtEnd == done \/ offset >= file.size

(* The frame that starts at the shared offset; none once an earlier failed *)
(* call has left the offset inside a frame.                                *)
FramesHere == {i \in DOMAIN file.frames : file.frames[i].start = offset}

Readable(frame) ==
  frame.type \in {"OSMHeader", "OSMData"} /\ FrameEnd(frame) <= file.size

ReturnNull ==
  /\ AtEnd
  /\ done' = TRUE
  /\ UNCHANGED <<offset, blob_index, bytes_read>>

BugIndexNotAdvanced(i) ==
  /\ ~AtEnd
  /\ i \in FramesHere
  /\ Readable(file.frames[i])
  /\ offset' = FrameEnd(file.frames[i])
  /\ bytes_read' = offset'
  /\ UNCHANGED <<done, blob_index>>

BugBytesReadEarly(i) ==
  /\ ~AtEnd
  /\ i \in FramesHere
  /\ Readable(file.frames[i])
  /\ bytes_read' = offset
  /\ offset' = FrameEnd(file.frames[i])
  /\ blob_index' = blob_index + 1
  /\ UNCHANGED done

ReturnBlob(i) ==
  /\ ~AtEnd
  /\ i \in FramesHere
  /\ Readable(file.frames[i])
  /\ offset' = FrameEnd(file.frames[i])
  /\ bytes_read' = offset'
  /\ blob_index' = blob_index + 1
  /\ UNCHANGED done

(* Where the offset stays when the call throws: a short read throws before *)
(* the offset moves over what was to be read, a bad type throws after the  *)
(* prefix.  Inside a frame the bytes read as a prefix are garbage and one  *)
(* of the first two steps throws.                                          *)
OffsetsAfterThrow ==
  IF FramesHere = {} THEN {offset, offset + Prefix}
  ELSE {LET frame == file.frames[i] IN
        IF offset + Prefix > file.size THEN offset
        ELSE IF \/ offset + Prefix + frame.header > file.size
                \/ frame.type = "Other"
             THEN offset + Prefix
        ELSE offset + Prefix + frame.header : i \in FramesHere}

ThrowBlob ==
  /\ ~AtEnd
  /\ \A i \in FramesHere : ~Readable(file.frames[i])
  /\ offset' \in OffsetsAfterThrow
  /\ UNCHANGED <<done, blob_index, bytes_read>>

(* InitGlobal takes the first blob and requires it to be the header.       *)
InitGlobal ==
  /\ phase = "Bound"
  /\ \/ \E i \in DOMAIN file.frames :
          /\ ReturnBlob(i)
          /\ phase' = IF file.frames[i].type = "OSMHeader" THEN "Running"
                                                           ELSE "Failed"
     \/ ThrowBlob /\ phase' = "Failed"
  /\ UNCHANGED <<file, pc, claimed, claimed_idx, parser, output, chunks>>

-----------------------------------------------------------------------------
(* A thread asks for a blob, in InitLocal and again in Execute whenever    *)
(* its block is used up.  A thread that gets none in InitLocal has a null  *)
(* local state; in Execute it returns the chunk it has.                    *)

Goto(t, location) == pc' = [pc EXCEPT ![t] = location]

TakeBlob(t) ==
  /\ \E i \in DOMAIN file.frames :
       /\ ReturnBlob(i)
       /\ claimed' = [claimed EXCEPT ![t] = i]
  /\ claimed_idx' = [claimed_idx EXCEPT ![t] = blob_index]
  /\ Goto(t, "Decompress")

GetNextBlob(t) ==
  /\ phase = "Running"
  /\ pc[t] \in {"InitLocal", "NextBlob"}
  /\ \/ TakeBlob(t)
     \/ ReturnNull /\ Goto(t, "Drained") /\ UNCHANGED <<claimed, claimed_idx>>
     \/ ThrowBlob /\ Goto(t, "Failed") /\ UNCHANGED <<claimed, claimed_idx>>
  /\ UNCHANGED <<file, phase, parser, output, chunks>>

(* The position after the next field with this tag: protozero's next(tag)  *)
(* skips every other field, to the end of the message if there is none.    *)
Matches(fields, pos, tag) ==
  {q \in pos..Len(fields) : /\ fields[q].tag = tag
                            /\ \A r \in pos..q - 1 : fields[r].tag # tag}

After(fields, pos, tag) ==
  IF Matches(fields, pos, tag) = {} THEN Len(fields) + 1
  ELSE (CHOOSE q \in Matches(fields, pos, tag) : TRUE) + 1

ValueOr(fields, pos, tag, old) ==
  IF Matches(fields, pos, tag) = {} THEN old
  ELSE fields[CHOOSE q \in Matches(fields, pos, tag) : TRUE].value

(* DecompressBlob, then SetBlock and Reset: the string table of the new    *)
(* block replaces the old one and the decoding parameters return to their  *)
(* defaults.                                                               *)
BugGranularityKept(t) ==
  decode' = [decode EXCEPT ![t].strings = claimed[t], ![t].lat_offset = 0,
                           ![t].lon_offset = 0]

ResetDecode(t) == decode' = [decode EXCEPT ![t] = FreshDecode(claimed[t])]

SetBlock(t) ==
  /\ pc[t] = "Decompress"
  /\ ~file.frames[claimed[t]].corrupt
  /\ block' = [block EXCEPT ![t] = claimed[t]]
  /\ block_idx' = [block_idx EXCEPT ![t] = claimed_idx[t]]
  /\ claimed' = [claimed EXCEPT ![t] = 0]
  /\ ResetDecode(t)
  /\ block_reader' = [block_reader EXCEPT
       ![t] = After(file.frames[claimed[t]].fields, 1, 1)]
  /\ state' = [state EXCEPT ![t] = "Block"]
  /\ Goto(t, "TryRead")
  /\ UNCHANGED <<file, phase, globals, claimed_idx, group, group_reader,
                 dense_index, output, chunks>>

BugCorruptBlobSkipped(t) ==
  /\ pc[t] = "Decompress"
  /\ file.frames[claimed[t]].corrupt
  /\ claimed' = [claimed EXCEPT ![t] = 0]
  /\ Goto(t, "NextBlob")
  /\ UNCHANGED <<file, phase, globals, claimed_idx, parser, output, chunks>>

FailDecompress(t) ==
  /\ pc[t] = "Decompress"
  /\ file.frames[claimed[t]].corrupt
  /\ Goto(t, "Failed")
  /\ UNCHANGED <<file, phase, globals, claimed, claimed_idx, parser, output,
                 chunks>>

-----------------------------------------------------------------------------
(* LocalState::TryRead: one action per state of the machine.               *)

Reading(t, s) ==
  pc[t] = "TryRead" /\ state[t] = s /\ Len(output[t]) < Capacity

(* ParseState::Block: enter the next group, then look for the optional     *)
(* fields, in this order, in what follows it.                              *)
EnterGroup(t) ==
  /\ Reading(t, "Block")
  /\ \E q \in Matches(Fields(t), block_reader[t], 2) :
       LET p17 == q + 1
           p19 == After(Fields(t), p17, 17)
           p20 == After(Fields(t), p19, 19)
           old == decode[t]
       IN /\ group' = [group EXCEPT ![t] = q]
          /\ group_reader' = [group_reader EXCEPT ![t] = 1]
          /\ decode' = [decode EXCEPT ![t] =
               [strings     |-> old.strings,
                granularity |-> ValueOr(Fields(t), p17, 17, old.granularity),
                lat_offset  |-> ValueOr(Fields(t), p19, 19, old.lat_offset),
                lon_offset  |-> ValueOr(Fields(t), p20, 20, old.lon_offset)]]
          /\ block_reader' = [block_reader EXCEPT
               ![t] = After(Fields(t), p20, 20)]
  /\ state' = [state EXCEPT ![t] = "Group"]
  /\ UNCHANGED <<file, phase, globals, pc, claimed, claimed_idx, block,
                 block_idx, dense_index, output, chunks>>

EndBlock(t) ==
  /\ Reading(t, "Block")
  /\ Matches(Fields(t), block_reader[t], 2) = {}
  /\ block_reader' = [block_reader EXCEPT ![t] = Len(Fields(t)) + 1]
  /\ state' = [state EXCEPT ![t] = "End"]
  /\ UNCHANGED <<file, phase, globals, pc, claimed, claimed_idx, block,
                 block_idx, group, group_reader, dense_index, decode, output,
                 chunks>>

MakeRow(t, entry, item) ==
  [frame |-> block[t], field |-> group[t], entry |-> entry, item |-> item,
   decode |-> decode[t]]

(* Rows are written from row_id = Len(output[t]) on.                       *)
BugWrittenFromRowZero(t, rows) == output' = [output EXCEPT ![t] = rows \o @]

Fill(t, rows) == output' = [output EXCEPT ![t] = @ \o rows]

(* ParseState::Group: one entry of the group, or the end of the group.     *)
NextEntry(t, kinds) ==
  /\ Reading(t, "Group")
  /\ group_reader[t] <= Len(Entries(t))
  /\ Entries(t)[group_reader[t]].kind \in kinds
  /\ group_reader' = [group_reader EXCEPT ![t] = @ + 1]
  /\ UNCHANGED <<file, phase, globals, pc, claimed, claimed_idx, block,
                 block_idx, block_reader, group, decode, chunks>>

ScanElement(t) ==
  /\ NextEntry(t, {"node", "way", "relation"})
  /\ Fill(t, <<MakeRow(t, group_reader[t], 1)>>)
  /\ UNCHANGED <<state, dense_index>>

BugDenseIndexKept(t) ==
  /\ NextEntry(t, {"dense"})
  /\ state' = [state EXCEPT ![t] = "DenseNodes"]
  /\ UNCHANGED <<dense_index, output>>

PrepareDenseNodes(t) ==
  /\ NextEntry(t, {"dense"})
  /\ dense_index' = [dense_index EXCEPT ![t] = 0]
  /\ state' = [state EXCEPT ![t] = "DenseNodes"]
  /\ UNCHANGED output

SkipEntry(t) ==
  /\ NextEntry(t, {"changeset"})
  /\ UNCHANGED <<state, dense_index, output>>

EndGroup(t) ==
  /\ Reading(t, "Group")
  /\ group_reader[t] > Len(Entries(t))
  /\ state' = [state EXCEPT ![t] = "Block"]
  /\ UNCHANGED <<file, phase, globals, pc, claimed, claimed_idx, block,
                 block_idx, block_reader, group, group_reader, dense_index,
                 decode, output, chunks>>

(* ParseState::DenseNodes: as many nodes as the chunk still has room for.  *)
BugCapacityIgnored(a, b) == b

Lesser(a, b) == IF a <= b THEN a ELSE b

DenseSize(t) == Entries(t)[group_reader[t] - 1].size

BugDenseNeverDone(t, read) == read > DenseSize(t)

DenseDone(t, read) == read >= DenseSize(t)

ScanDenseNodes(t) ==
  /\ Reading(t, "DenseNodes")
  /\ LET n == Lesser(Capacity - Len(output[t]), DenseSize(t) - dense_index[t])
     IN /\ Fill(t, [i \in 1..n |->
             MakeRow(t, group_reader[t] - 1, dense_index[t] + i)])
        /\ dense_index' = [dense_index EXCEPT ![t] = @ + n]
        /\ state' = [state EXCEPT ![t] =
             IF DenseDone(t, dense_index[t] + n) THEN "Group" ELSE @]
  /\ UNCHANGED <<file, phase, globals, pc, claimed, claimed_idx, block,
                 block_idx, block_reader, group, group_reader, decode, chunks>>

(* ParseState::End: TryRead returns true, Execute asks for another blob.   *)
EndRead(t) ==
  /\ Reading(t, "End")
  /\ Goto(t, "NextBlob")
  /\ UNCHANGED <<file, phase, globals, claimed, claimed_idx, parser, output,
                 chunks>>

-----------------------------------------------------------------------------
(* Execute returns its chunk when it is full or when no blob is left; an   *)
(* empty chunk tells DuckDB that this thread has finished.  DuckDB asks    *)
(* for the batch index of every chunk that has rows (GetBatchIndex).       *)
BugReturnAtBlockEnd(t) ==
  \/ pc[t] \in {"NextBlob", "Drained"}
  \/ pc[t] = "TryRead" /\ Len(output[t]) >= Capacity

ChunkReady(t) ==
  \/ pc[t] = "Drained"
  \/ pc[t] = "TryRead" /\ Len(output[t]) >= Capacity

ReturnChunk(t) ==
  /\ ChunkReady(t)
  /\ IF output[t] = <<>>
     THEN /\ Goto(t, "Finished")
          /\ UNCHANGED <<output, chunks>>
     ELSE /\ chunks' = [chunks EXCEPT ![t] =
               Append(@, [batch |-> block_idx[t], rows |-> output[t]])]
          /\ output' = [output EXCEPT ![t] = <<>>]
          /\ Goto(t, "TryRead")
  /\ UNCHANGED <<file, phase, globals, claimed, claimed_idx, parser>>

(* DuckDB's executor stops the other threads after one has thrown, when it *)
(* gets to it: they may go on for a while.                                 *)
Cancel(t) ==
  /\ pc[t] \notin Stopped
  /\ \E u \in Threads : pc[u] = "Failed"
  /\ Goto(t, "Cancelled")
  /\ UNCHANGED <<file, phase, globals, claimed, claimed_idx, parser, output,
                 chunks>>

ScanStep(t) ==
  \/ GetNextBlob(t) \/ SetBlock(t) \/ FailDecompress(t)
  \/ EnterGroup(t) \/ EndBlock(t)
  \/ ScanElement(t) \/ PrepareDenseNodes(t) \/ SkipEntry(t) \/ EndGroup(t)
  \/ ScanDenseNodes(t) \/ EndRead(t) \/ ReturnChunk(t)

Over == phase = "Failed" \/ \A t \in Threads : pc[t] \in Stopped

Next ==
  \/ InitGlobal
  \/ \E t \in Threads : ScanStep(t) \/ Cancel(t)
  \/ Over /\ UNCHANGED vars

(* Each thread of the pool keeps running its task until it stops; the lock *)
(* is held only within GetNextBlob, so a thread that asks for a blob is    *)
(* always able to get an answer.                                           *)
Fairness == WF_vars(InitGlobal) /\ \A t \in Threads : WF_vars(ScanStep(t))

Spec     == Init /\ [][Next]_vars
FairSpec == Spec /\ Fairness

=============================================================================
