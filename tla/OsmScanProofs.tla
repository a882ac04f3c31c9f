--------------------------- MODULE OsmScanProofs ---------------------------
(***************************************************************************)
(* Proofs about OsmScan for any number of threads, chunk capacity and set  *)
(* of well-formed files.                                                   *)
(***************************************************************************)
EXTENDS OsmScanProperties, TLAPS

(* Where a parser that is inside a group stands. *)
Standing(t) ==
  /\ pc[t] = "Decompress" => claimed[t] # 0
  /\ pc[t] \in {"TryRead", "NextBlob"} => block[t] # 0
  /\ output[t] # <<>> => block[t] # 0
  /\ block[t] # 0 /\ state[t] \in {"Group", "DenseNodes"} =>
       group[t] \in DOMAIN Fields(t)
  /\ block[t] # 0 /\ state[t] = "DenseNodes" =>
       /\ group_reader[t] - 1 \in DOMAIN Entries(t)
       /\ dense_index[t] <= DenseSize(t)

ParserOK == \A t \in Threads : Standing(t)

TypeInv == TypeOK /\ ParserOK

-----------------------------------------------------------------------------
(* Sequences, whatever their elements are made of. *)
LEMMA Elements ==
  ASSUME NEW S, NEW s \in Seq(S)
  PROVE  /\ Len(s) \in Nat /\ DOMAIN s = 1..Len(s)
         /\ \A i \in DOMAIN s : s[i] \in S
  OBVIOUS

LEMMA Appended ==
  ASSUME NEW S, NEW s \in Seq(S), NEW e \in S
  PROVE  /\ Append(s, e) \in Seq(S)
         /\ DOMAIN Append(s, e) = DOMAIN s \cup {Len(s) + 1}
         /\ \A i \in DOMAIN s : i < Len(s) + 1 /\ Append(s, e)[i] = s[i]
         /\ Append(s, e)[Len(s) + 1] = e
  OBVIOUS

LEMMA FrameShape ==
  ASSUME NEW frame \in Frame
  PROVE  /\ frame.start \in Nat
         /\ frame.header \in Nat \ {0}
         /\ frame.length \in Nat
         /\ frame.fields \in Seq(Field)
         /\ FrameEnd(frame) \in Nat
         /\ FrameEnd(frame) > frame.start + Prefix
BY SizesAssumption DEF Frame, FrameEnd

(* What a file of Files looks like. *)
LEMMA FileShape ==
  ASSUME NEW f \in Files
  PROVE  /\ f.size \in Nat \ {0}
         /\ f.frames \in Seq(Frame)
         /\ Len(f.frames) > 0
         /\ f.frames[1].start = 0
         /\ \A i, j \in DOMAIN f.frames :
              i < j => FrameEnd(f.frames[i]) <= f.frames[j].start
         /\ \A i \in DOMAIN f.frames : i + 1 \in DOMAIN f.frames =>
              f.frames[i + 1].start = FrameEnd(f.frames[i])
         /\ f.size > f.frames[Len(f.frames)].start
         /\ f.size <= FrameEnd(f.frames[Len(f.frames)])
<1>1. f \in File
  BY FilesAssumption
<1>2. f.size \in Nat \ {0} /\ f.frames \in Seq(Frame)
  BY <1>1 DEF File
<1>3. DOMAIN f.frames = 1..Len(f.frames) /\ Len(f.frames) \in Nat
  BY <1>2, Elements
<1>4. /\ Len(f.frames) > 0
      /\ f.frames[1].start = 0
      /\ \A i \in 1..Len(f.frames) - 1 :
           f.frames[i + 1].start = FrameEnd(f.frames[i])
      /\ \A i, j \in 1..Len(f.frames) :
           i < j => FrameEnd(f.frames[i]) <= f.frames[j].start
      /\ f.size \in f.frames[Len(f.frames)].start + 1
                      .. FrameEnd(f.frames[Len(f.frames)])
  BY FilesAssumption
<1>5. f.frames[Len(f.frames)] \in Frame
  BY <1>2, <1>3, <1>4, Elements
<1>6. /\ f.frames[Len(f.frames)].start \in Nat
      /\ FrameEnd(f.frames[Len(f.frames)]) \in Nat
  BY <1>5, FrameShape
<1>7. \A i \in DOMAIN f.frames : i + 1 \in DOMAIN f.frames =>
        i \in 1..Len(f.frames) - 1
  BY <1>3
<1>8. \A i, j \in DOMAIN f.frames :
        i < j => FrameEnd(f.frames[i]) <= f.frames[j].start
  BY <1>3, <1>4
<1>9. \A i \in DOMAIN f.frames : i + 1 \in DOMAIN f.frames =>
        f.frames[i + 1].start = FrameEnd(f.frames[i])
  BY <1>4, <1>7
<1>10. /\ f.size > f.frames[Len(f.frames)].start
       /\ f.size <= FrameEnd(f.frames[Len(f.frames)])
  BY <1>4, <1>6
<1> QED
  BY <1>2, <1>4, <1>8, <1>9, <1>10

LEMMA InitType == Init => TypeInv
<1> SUFFICES ASSUME Init PROVE TypeInv
  OBVIOUS
<1>1. \A t \in Threads : Len(output[t]) <= Capacity
  BY SizesAssumption DEF Init
<1>2. decode \in [Threads -> Decode]
  BY SizesAssumption DEF Init, Decode, FreshDecode
<1>3. output \in [Threads -> Seq(Row)] /\ chunks \in [Threads -> Seq(Chunk)]
  BY DEF Init
<1>4. /\ block_reader \in [Threads -> Nat \ {0}]
      /\ group_reader \in [Threads -> Nat \ {0}]
      /\ bytes_read \in Nat /\ blob_index \in Nat
  BY DEF Init
<1>4a. TypeOK
  BY <1>1, <1>2, <1>3, <1>4 DEF Init, TypeOK, Phases, Locations, Stopped, ParseStates
<1>5. ParserOK
  BY DEF Init, ParserOK, Standing
<1> QED
  BY <1>4a, <1>5 DEF TypeInv

LEMMA ReturnBlobType ==
  ASSUME TypeOK, NEW i \in DOMAIN file.frames, ReturnBlob(i)
  PROVE  /\ offset' \in Nat /\ done' \in BOOLEAN
         /\ blob_index' \in Nat /\ bytes_read' \in Nat
BY FileShape, FrameShape DEF ReturnBlob, TypeOK

LEMMA ThrowBlobType ==
  ASSUME TypeOK, ThrowBlob
  PROVE  /\ offset' \in Nat /\ done' \in BOOLEAN
         /\ blob_index' \in Nat /\ bytes_read' \in Nat
<1>1. \A i \in FramesHere : file.frames[i] \in Frame
  BY FileShape DEF FramesHere, TypeOK
<1>1a. \A i \in FramesHere : file.frames[i].header \in Nat
  BY <1>1, FrameShape
<1>1b. offset \in Nat /\ Prefix \in Nat
  BY SizesAssumption DEF TypeOK
<1>2. OffsetsAfterThrow \subseteq Nat
  BY <1>1a, <1>1b DEF OffsetsAfterThrow
<1> QED
  BY <1>2 DEF ThrowBlob, TypeOK

LEMMA FrameNumbers ==
  ASSUME TypeOK
  PROVE  /\ file.frames \in Seq(Frame)
         /\ Len(file.frames) \in Nat
         /\ DOMAIN file.frames = 1..Len(file.frames)
         /\ DOMAIN file.frames \subseteq Nat \ {0}
<1>1. file.frames \in Seq(Frame)
  BY FileShape DEF TypeOK
<1> QED
  BY <1>1

LEMMA FieldsShape ==
  ASSUME TypeOK, NEW t \in Threads, block[t] # 0
  PROVE  /\ block[t] \in DOMAIN file.frames
         /\ Fields(t) \in Seq(Field)
         /\ group[t] \in DOMAIN Fields(t) => Entries(t) \in Seq(Entry)
<1>1. block[t] \in DOMAIN file.frames /\ file.frames[block[t]] \in Frame
  BY FileShape DEF TypeOK
<1>2. Fields(t) \in Seq(Field)
  BY <1>1, FrameShape DEF Fields
<1>3. ASSUME group[t] \in DOMAIN Fields(t) PROVE Entries(t) \in Seq(Entry)
  <2>1. Fields(t)[group[t]] \in Field
    BY <1>2, <1>3
  <2> QED
    BY <2>1 DEF Entries, Field
<1> QED
  BY <1>1, <1>2, <1>3

LEMMA AfterType ==
  ASSUME NEW fields \in Seq(Field), NEW pos \in Nat, NEW tag
  PROVE  After(fields, pos, tag) \in Nat \ {0}
<1>1. Matches(fields, pos, tag) \subseteq Nat
  BY DEF Matches
<1>2. Matches(fields, pos, tag) # {} =>
        (CHOOSE q \in Matches(fields, pos, tag) : TRUE) \in Nat
  BY <1>1
<1> QED
  BY <1>2 DEF After

LEMMA ValueOrType ==
  ASSUME NEW fields \in Seq(Field), NEW pos \in Nat \ {0}, NEW tag,
         NEW old \in Int
  PROVE  ValueOr(fields, pos, tag, old) \in Int
<1>1. Matches(fields, pos, tag) \subseteq DOMAIN fields
  BY DEF Matches
<1>2. CASE Matches(fields, pos, tag) = {}
  BY <1>2 DEF ValueOr
<1>3. CASE Matches(fields, pos, tag) # {}
  <2> DEFINE q == CHOOSE p \in Matches(fields, pos, tag) : TRUE
  <2>1. q \in DOMAIN fields
    BY <1>1, <1>3
  <2>2. fields[q] \in Field
    BY <2>1
  <2>3. ValueOr(fields, pos, tag, old) = fields[q].value
    BY <1>3 DEF ValueOr
  <2> QED
    BY <2>2, <2>3 DEF Field
<1> QED
  BY <1>2, <1>3

LEMMA RowType ==
  ASSUME TypeOK, NEW t \in Threads, NEW entry \in Nat, NEW item \in Nat
  PROVE  MakeRow(t, entry, item) \in Row
<1>1. block[t] \in Nat
  <2>1. block[t] \in {0} \cup DOMAIN file.frames
    BY DEF TypeOK
  <2> QED
    BY <2>1, FrameNumbers
<1>2. group[t] \in Nat /\ decode[t] \in Decode
  BY DEF TypeOK
<1> QED
  BY <1>1, <1>2 DEF MakeRow, Row

-----------------------------------------------------------------------------
(* Each action preserves TypeInv. *)

(* A parser that a step leaves alone. *)
LEMMA StaysPut ==
  ASSUME NEW u \in Threads, Standing(u), UNCHANGED file,
         pc'[u] = pc[u], claimed'[u] = claimed[u], block'[u] = block[u],
         output'[u] = output[u], state'[u] = state[u], group'[u] = group[u],
         group_reader'[u] = group_reader[u], dense_index'[u] = dense_index[u]
  PROVE  Standing(u)'
BY DEF Standing, Fields, Entries, DenseSize

LEMMA InitGlobalType == TypeInv /\ InitGlobal => TypeInv'
<1> SUFFICES ASSUME TypeInv, InitGlobal PROVE TypeInv'
  OBVIOUS
<1> USE DEF TypeInv
<1>1. /\ offset' \in Nat /\ done' \in BOOLEAN
      /\ blob_index' \in Nat /\ bytes_read' \in Nat
      /\ phase' \in Phases
  BY ReturnBlobType, ThrowBlobType DEF InitGlobal, Phases
<1>2. TypeOK'
  BY <1>1 DEF InitGlobal, TypeOK, parser
<1>3. ParserOK'
  BY DEF InitGlobal, ParserOK, Standing, parser, Fields, Entries, DenseSize
<1> QED
  BY <1>2, <1>3

LEMMA GetNextBlobType ==
  ASSUME TypeInv, NEW t \in Threads, GetNextBlob(t)
  PROVE  TypeInv'
<1> USE DEF TypeInv
<1>1. /\ offset' \in Nat /\ done' \in BOOLEAN
      /\ blob_index' \in Nat /\ bytes_read' \in Nat
  BY ReturnBlobType, ThrowBlobType
  DEF GetNextBlob, TakeBlob, ReturnNull, TypeOK
<1>2. /\ pc' \in [Threads -> Locations]
      /\ claimed' \in [Threads -> {0} \cup DOMAIN file.frames]
      /\ claimed_idx' \in [Threads -> Nat]
  <2>1. CASE TakeBlob(t)
    BY <2>1 DEF TakeBlob, Goto, TypeOK, Locations, Stopped
  <2>2. CASE ~TakeBlob(t)
    BY <2>2 DEF GetNextBlob, Goto, TypeOK, Locations, Stopped
  <2> QED
    BY <2>1, <2>2
<1>3. TypeOK'
  BY <1>1, <1>2 DEF GetNextBlob, TypeOK, parser
<1>4. \A u \in Threads : pc'[u] = "Decompress" => claimed'[u] # 0
  <2>1. CASE TakeBlob(t)
    <3>1. PICK i \in DOMAIN file.frames :
            claimed' = [claimed EXCEPT ![t] = i]
      BY <2>1 DEF TakeBlob
    <3>2. i # 0
      BY FrameNumbers
    <3> QED
      BY <2>1, <3>1, <3>2 DEF TakeBlob, Goto, TypeOK, ParserOK, Standing
  <2>2. CASE ~TakeBlob(t)
    BY <2>2 DEF GetNextBlob, Goto, TypeOK, ParserOK, Standing
  <2> QED
    BY <2>1, <2>2
<1>5. \A u \in Threads : pc'[u] \in {"TryRead", "NextBlob"} => block'[u] # 0
  BY DEF GetNextBlob, TakeBlob, Goto, parser, TypeOK, ParserOK, Standing
<1>6. ParserOK'
  BY <1>4, <1>5 DEF GetNextBlob, parser, ParserOK, Standing, Fields, Entries, DenseSize
<1> QED
  BY <1>3, <1>6

LEMMA SetBlockType ==
  ASSUME TypeInv, NEW t \in Threads, SetBlock(t)
  PROVE  TypeInv'
<1> USE DEF TypeInv
<1>1. claimed[t] \in DOMAIN file.frames /\ claimed[t] \in Nat \ {0}
  BY FrameNumbers DEF SetBlock, TypeOK, ParserOK, Standing
<1>2. file.frames[claimed[t]].fields \in Seq(Field)
  BY <1>1, FileShape, FrameShape DEF TypeOK
<1>3. After(file.frames[claimed[t]].fields, 1, 1) \in Nat \ {0}
  BY <1>2, AfterType
<1>4. FreshDecode(claimed[t]) \in Decode
  BY <1>1, SizesAssumption DEF FreshDecode, Decode
<1>5. TypeOK'
  BY <1>1, <1>3, <1>4
  DEF SetBlock, ResetDecode, Goto, globals, TypeOK, Locations, ParseStates
<1>6. ParserOK'
  BY <1>1 DEF SetBlock, Goto, TypeOK, ParserOK, Standing, Fields, Entries, DenseSize
<1> QED
  BY <1>5, <1>6

LEMMA StopType ==
  ASSUME TypeInv, NEW t \in Threads, FailDecompress(t) \/ Cancel(t)
  PROVE  TypeInv'
<1> USE DEF TypeInv
<1>1. pc' \in [Threads -> Locations]
  BY DEF FailDecompress, Cancel, Goto, TypeOK, Locations, Stopped
<1>2. TypeOK'
  BY <1>1 DEF FailDecompress, Cancel, TypeOK, globals, parser
<1>3. ParserOK'
  BY DEF FailDecompress, Cancel, Goto, TypeOK, ParserOK, Standing, parser, Fields,
         Entries, DenseSize
<1> QED
  BY <1>2, <1>3

LEMMA EnterGroupType ==
  ASSUME TypeInv, NEW t \in Threads, EnterGroup(t)
  PROVE  TypeInv'
<1> USE DEF TypeInv
<1>1. block[t] # 0
  BY DEF EnterGroup, Reading, ParserOK, Standing
<1>2. Fields(t) \in Seq(Field)
  BY <1>1, FieldsShape
<1>3. PICK q \in Matches(Fields(t), block_reader[t], 2) :
        LET p17 == q + 1
            p19 == After(Fields(t), p17, 17)
            p20 == After(Fields(t), p19, 19)
            old == decode[t]
        IN /\ group' = [group EXCEPT ![t] = q]
           /\ group_reader' = [group_reader EXCEPT ![t] = 1]
           /\ decode' = [decode EXCEPT ![t] =
               [strings     |-> old.strings,
                granularity |-> ValueOr(Fields(t), p17, 17, old.granularity),
                lat_offset  |-> ValueOr(Fields(t), p19, 19, old.lat_offset),
                lon_offset  |-> ValueOr(Fields(t), p20, 20, old.lon_offset)]]
           /\ block_reader' = [block_reader EXCEPT
               ![t] = After(Fields(t), p20, 20)]
  BY DEF EnterGroup
<1> DEFINE p17 == q + 1
           p19 == After(Fields(t), p17, 17)
           p20 == After(Fields(t), p19, 19)
<1>4. q \in DOMAIN Fields(t) /\ q \in Nat /\ p17 \in Nat \ {0}
  BY <1>2 DEF Matches, TypeOK
<1>5. p19 \in Nat \ {0} /\ p20 \in Nat \ {0}
  BY <1>2, <1>4, AfterType
<1>6. After(Fields(t), p20, 20) \in Nat \ {0}
  BY <1>2, <1>5, AfterType
<1> HIDE DEF p17, p19, p20
<1>7. /\ decode[t] \in Decode
      /\ [strings     |-> decode[t].strings,
          granularity |-> ValueOr(Fields(t), p17, 17, decode[t].granularity),
          lat_offset  |-> ValueOr(Fields(t), p19, 19, decode[t].lat_offset),
          lon_offset  |-> ValueOr(Fields(t), p20, 20, decode[t].lon_offset)]
           \in Decode
  BY <1>2, <1>4, <1>5, ValueOrType DEF Decode, TypeOK
<1>8. /\ group' = [group EXCEPT ![t] = q]
      /\ group_reader' = [group_reader EXCEPT ![t] = 1]
      /\ decode' \in [Threads -> Decode]
      /\ block_reader' \in [Threads -> Nat \ {0}]
  BY <1>3, <1>6, <1>7 DEF p17, p19, p20, TypeOK
<1>8a. /\ group' \in [Threads -> Nat]
       /\ group_reader' \in [Threads -> Nat \ {0}]
       /\ state' \in [Threads -> ParseStates]
  BY <1>4, <1>8 DEF EnterGroup, TypeOK, ParseStates
<1>9. TypeOK'
  BY <1>8, <1>8a DEF EnterGroup, TypeOK, globals
<1>10. /\ UNCHANGED <<file, pc, claimed, block, output, dense_index>>
       /\ state' = [state EXCEPT ![t] = "Group"]
  BY DEF EnterGroup
<1>11. Standing(t)'
  <2>1. group'[t] = q /\ state'[t] = "Group" /\ Fields(t)' = Fields(t)
    BY <1>8, <1>10 DEF TypeOK, Fields
  <2>2. Standing(t)
    BY DEF ParserOK
  <2> QED
    BY <1>4, <1>10, <2>1, <2>2 DEF Standing
<1>12. ASSUME NEW u \in Threads \ {t} PROVE Standing(u)'
  <2>1. /\ group'[u] = group[u] /\ group_reader'[u] = group_reader[u]
        /\ state'[u] = state[u]
    BY <1>8, <1>10, <1>12 DEF TypeOK
  <2> QED
    BY <1>10, <2>1, StaysPut DEF ParserOK
<1>13. ParserOK'
  BY <1>11, <1>12 DEF ParserOK
<1> QED
  BY <1>9, <1>13

LEMMA EndBlockType ==
  ASSUME TypeInv, NEW t \in Threads, EndBlock(t)
  PROVE  TypeInv'
<1> USE DEF TypeInv
<1>1. Len(Fields(t)) + 1 \in Nat \ {0}
  BY FieldsShape DEF EndBlock, Reading, ParserOK, Standing
<1>2. TypeOK'
  BY <1>1 DEF EndBlock, TypeOK, ParseStates, globals
<1>3. ParserOK'
  BY DEF EndBlock, TypeOK, ParserOK, Standing, Fields, Entries, DenseSize
<1> QED
  BY <1>2, <1>3

LEMMA InGroup ==
  ASSUME TypeInv, NEW t \in Threads,
         Reading(t, "Group") \/ Reading(t, "DenseNodes")
  PROVE  /\ block[t] # 0
         /\ group[t] \in DOMAIN Fields(t)
         /\ Entries(t) \in Seq(Entry)
BY FieldsShape DEF TypeInv, ParserOK, Standing, Reading

LEMMA FillType ==
  ASSUME TypeInv, NEW t \in Threads, NEW rows \in Seq(Row), Fill(t, rows),
         Len(output[t]) + Len(rows) <= Capacity
  PROVE  /\ output' \in [Threads -> Seq(Row)]
         /\ \A u \in Threads : Len(output'[u]) <= Capacity
<1>1. output[t] \o rows \in Seq(Row)
  BY DEF TypeInv, TypeOK
<1>2. Len(output[t] \o rows) = Len(output[t]) + Len(rows)
  BY DEF TypeInv, TypeOK
<1> QED
  BY <1>1, <1>2 DEF Fill, TypeInv, TypeOK

LEMMA ScanElementType ==
  ASSUME TypeInv, NEW t \in Threads, ScanElement(t)
  PROVE  TypeInv'
<1> USE DEF TypeInv
<1> DEFINE row == MakeRow(t, group_reader[t], 1)
<1>1. row \in Row
  BY RowType DEF TypeOK
<1>2. <<row>> \in Seq(Row) /\ Len(<<row>>) = 1
  BY <1>1
<1>3. Len(output[t]) + Len(<<row>>) <= Capacity
  BY <1>2, SizesAssumption DEF ScanElement, NextEntry, Reading, TypeOK
<1>4. Fill(t, <<row>>)
  BY DEF ScanElement
<1> HIDE DEF row
<1>5. /\ output' \in [Threads -> Seq(Row)]
      /\ \A u \in Threads : Len(output'[u]) <= Capacity
  BY <1>2, <1>3, <1>4, FillType
<1>5a. group_reader' \in [Threads -> Nat \ {0}]
  BY DEF ScanElement, NextEntry, TypeOK
<1>6. TypeOK'
  BY <1>5, <1>5a DEF ScanElement, NextEntry, TypeOK, globals
<1>7. block[t] # 0
  BY InGroup DEF ScanElement, NextEntry
<1>8. ParserOK'
  BY <1>4, <1>7
  DEF ScanElement, NextEntry, Reading, Fill, TypeOK, ParserOK, Standing, Fields, Entries, DenseSize
<1> QED
  BY <1>6, <1>8

LEMMA PrepareDenseNodesType ==
  ASSUME TypeInv, NEW t \in Threads, PrepareDenseNodes(t)
  PROVE  TypeInv'
<1> USE DEF TypeInv
<1>1a. /\ group_reader' \in [Threads -> Nat \ {0}]
       /\ dense_index' \in [Threads -> Nat]
       /\ state' \in [Threads -> ParseStates]
  BY DEF PrepareDenseNodes, NextEntry, TypeOK, ParseStates
<1>1. TypeOK'
  BY <1>1a DEF PrepareDenseNodes, NextEntry, TypeOK, globals
<1>2. /\ group_reader[t] \in DOMAIN Entries(t)
      /\ Entries(t)[group_reader[t]] \in Entry
  <2>1. Reading(t, "Group")
    BY DEF PrepareDenseNodes, NextEntry
  <2>2. Entries(t) \in Seq(Entry)
    BY <2>1, InGroup
  <2>3. group_reader[t] \in Nat \ {0}
    BY DEF TypeOK
  <2> QED
    BY <2>2, <2>3 DEF PrepareDenseNodes, NextEntry
<1>3. group_reader'[t] - 1 = group_reader[t] /\ dense_index'[t] = 0
  BY DEF PrepareDenseNodes, NextEntry, TypeOK
<1>4. Entries(t)' = Entries(t)
  BY DEF PrepareDenseNodes, NextEntry, Entries, Fields
<1>5. dense_index'[t] <= DenseSize(t)'
  BY <1>2, <1>3, <1>4 DEF DenseSize, Entry
<1>6. ParserOK'
  BY <1>2, <1>3, <1>4, <1>5
  DEF PrepareDenseNodes, NextEntry, Reading, TypeOK, ParserOK, Standing, Fields, Entries,
      DenseSize
<1> QED
  BY <1>1, <1>6

LEMMA SkipEntryType ==
  ASSUME TypeInv, NEW t \in Threads, SkipEntry(t)
  PROVE  TypeInv'
<1> USE DEF TypeInv
<1>1a. group_reader' \in [Threads -> Nat \ {0}]
  BY DEF SkipEntry, NextEntry, TypeOK
<1>1. TypeOK'
  BY <1>1a DEF SkipEntry, NextEntry, TypeOK, globals
<1>2. ParserOK'
  BY DEF SkipEntry, NextEntry, Reading, TypeOK, ParserOK, Standing, Fields, Entries, DenseSize
<1> QED
  BY <1>1, <1>2

LEMMA EndGroupType ==
  ASSUME TypeInv, NEW t \in Threads, EndGroup(t)
  PROVE  TypeInv'
<1> USE DEF TypeInv
<1>1. TypeOK'
  BY DEF EndGroup, TypeOK, ParseStates, globals
<1>2. ParserOK'
  BY DEF EndGroup, TypeOK, ParserOK, Standing, Fields, Entries, DenseSize
<1> QED
  BY <1>1, <1>2

LEMMA ScanDenseNodesType ==
  ASSUME TypeInv, NEW t \in Threads, ScanDenseNodes(t)
  PROVE  TypeInv'
<1> USE DEF TypeInv
<1> DEFINE n    == Lesser(Capacity - Len(output[t]),
                          DenseSize(t) - dense_index[t])
           e    == group_reader[t] - 1
           rows == [i \in 1..n |-> MakeRow(t, e, dense_index[t] + i)]
<1>1. /\ block[t] # 0 /\ Entries(t) \in Seq(Entry) /\ e \in DOMAIN Entries(t)
      /\ dense_index[t] <= DenseSize(t)
  BY InGroup DEF ScanDenseNodes, Reading, ParserOK, Standing
<1>2. Entries(t)[e] \in Entry /\ e \in Nat
  BY <1>1
<1>3. DenseSize(t) \in Nat
  BY <1>2 DEF DenseSize, Entry
<1>4. /\ Len(output[t]) \in Nat /\ Len(output[t]) < Capacity
      /\ dense_index[t] \in Nat
  BY DEF ScanDenseNodes, Reading, TypeOK
<1>5. /\ n \in Nat /\ n <= Capacity - Len(output[t])
      /\ dense_index[t] + n <= DenseSize(t)
  <2>1. Capacity \in Nat
    BY SizesAssumption
  <2>2. CASE Capacity - Len(output[t]) <= DenseSize(t) - dense_index[t]
    BY SMTT(30), <1>1, <1>3, <1>4, <2>1, <2>2 DEF Lesser
  <2>3. CASE ~(Capacity - Len(output[t]) <= DenseSize(t) - dense_index[t])
    BY <1>1, <1>3, <1>4, <2>1, <2>3 DEF Lesser
  <2> QED
    BY <2>2, <2>3
<1>6. Fill(t, rows)
  BY DEF ScanDenseNodes
<1> HIDE DEF n, e
<1>7. \A i \in 1..n : MakeRow(t, e, dense_index[t] + i) \in Row
  BY <1>2, <1>4, RowType
<1>8. rows \in Seq(Row) /\ Len(rows) = n
  BY <1>5, <1>7
<1> HIDE DEF rows
<1>9. /\ output' \in [Threads -> Seq(Row)]
      /\ \A u \in Threads : Len(output'[u]) <= Capacity
  BY <1>4, <1>5, <1>6, <1>8, FillType, SizesAssumption
<1>10. dense_index' = [dense_index EXCEPT ![t] = @ + n]
  BY DEF ScanDenseNodes, n
<1>11. dense_index' \in [Threads -> Nat]
  BY <1>5, <1>10 DEF TypeOK
<1>12. state' \in [Threads -> ParseStates]
  BY DEF ScanDenseNodes, TypeOK, ParseStates
<1>13. TypeOK'
  BY <1>9, <1>11, <1>12 DEF ScanDenseNodes, TypeOK, globals
<1>14. \A u \in Threads : state'[u] = "DenseNodes" => state[u] = "DenseNodes"
  BY DEF ScanDenseNodes, TypeOK
<1>15. \A u \in Threads : state'[u] \in {"Group", "DenseNodes"} =>
                           state[u] \in {"Group", "DenseNodes"}
  BY DEF ScanDenseNodes, Reading, TypeOK
<1>16. \A u \in Threads : /\ Fields(u)' = Fields(u) /\ Entries(u)' = Entries(u)
                          /\ DenseSize(u)' = DenseSize(u)
  BY DEF ScanDenseNodes, Fields, Entries, DenseSize
<1>17. \A u \in Threads : output'[u] # <<>> => block[u] # 0
  BY <1>1, <1>6 DEF Fill, TypeOK, ParserOK, Standing
<1>18. \A u \in Threads :
         state'[u] = "DenseNodes" /\ block[u] # 0 =>
           dense_index'[u] <= DenseSize(u)
  BY <1>5, <1>10, <1>14 DEF TypeOK, ParserOK, Standing
<1>19. ParserOK'
  BY <1>14, <1>15, <1>16, <1>17, <1>18 DEF ScanDenseNodes, ParserOK, Standing
<1> QED
  BY <1>13, <1>19

LEMMA EndReadType ==
  ASSUME TypeInv, NEW t \in Threads, EndRead(t)
  PROVE  TypeInv'
<1> USE DEF TypeInv
<1>1. pc' \in [Threads -> Locations]
  BY DEF EndRead, Goto, TypeOK, Locations
<1>2. TypeOK'
  BY <1>1 DEF EndRead, TypeOK, globals, parser
<1>3. ParserOK'
  BY DEF EndRead, Reading, Goto, TypeOK, ParserOK, Standing, parser, Fields, Entries,
         DenseSize
<1> QED
  BY <1>2, <1>3

LEMMA ReturnChunkType ==
  ASSUME TypeInv, NEW t \in Threads, ReturnChunk(t)
  PROVE  TypeInv'
<1> USE DEF TypeInv
<1>1. CASE output[t] = <<>>
  <2>1. pc' \in [Threads -> Locations]
    BY <1>1 DEF ReturnChunk, Goto, TypeOK, Locations, Stopped
  <2>2. TypeOK'
    BY <1>1, <2>1 DEF ReturnChunk, TypeOK, globals, parser
  <2>3. ParserOK'
    BY <1>1 DEF ReturnChunk, Goto, TypeOK, ParserOK, Standing, parser, Fields, Entries,
                DenseSize
  <2> QED
    BY <2>2, <2>3
<1>2. CASE output[t] # <<>>
  <2> DEFINE chunk == [batch |-> block_idx[t], rows |-> output[t]]
  <2>1. chunk \in Chunk
    BY DEF Chunk, TypeOK
  <2>2. chunks' = [chunks EXCEPT ![t] = Append(@, chunk)]
    BY <1>2 DEF ReturnChunk
  <2> HIDE DEF chunk
  <2>3. chunks' \in [Threads -> Seq(Chunk)]
    BY <2>1, <2>2 DEF TypeOK
  <2>4. /\ pc' = [pc EXCEPT ![t] = "TryRead"]
        /\ output' = [output EXCEPT ![t] = <<>>]
        /\ UNCHANGED <<file, phase, globals, claimed, claimed_idx, parser>>
    BY <1>2 DEF ReturnChunk, Goto
  <2>5. pc' \in [Threads -> Locations]
    BY <2>4 DEF TypeOK, Locations
  <2>6. /\ output' \in [Threads -> Seq(Row)]
        /\ \A u \in Threads : Len(output'[u]) <= Capacity
    <3>1. <<>> \in Seq(Row) /\ Len(<<>>) <= Capacity
      BY SizesAssumption
    <3>2. output' \in [Threads -> Seq(Row)]
      BY <2>4, <3>1 DEF TypeOK
    <3>3. \A u \in Threads : output'[u] = IF u = t THEN <<>> ELSE output[u]
      BY <2>4 DEF TypeOK
    <3> QED
      BY <3>1, <3>2, <3>3 DEF TypeOK
  <2>7. TypeOK'
    BY <2>3, <2>4, <2>5, <2>6 DEF TypeOK, globals, parser
  <2>8. ParserOK'
    BY <1>2, <2>4
    DEF TypeOK, ParserOK, Standing, parser, Fields, Entries, DenseSize
  <2> QED
    BY <2>7, <2>8
<1> QED
  BY <1>1, <1>2

LEMMA StutterType == TypeInv /\ UNCHANGED vars => TypeInv'
BY DEF TypeInv, TypeOK, ParserOK, Standing, vars, globals, parser, Fields, Entries,
       DenseSize

LEMMA NextType == TypeInv /\ [Next]_vars => TypeInv'
BY InitGlobalType, GetNextBlobType, SetBlockType, StopType, EnterGroupType,
   EndBlockType, ScanElementType, PrepareDenseNodesType, SkipEntryType,
   EndGroupType, ScanDenseNodesType, EndReadType, ReturnChunkType, StutterType
DEF Next, ScanStep

(* The scan's state has the types LocalState and GlobalState declare, a    *)
(* chunk never overflows its capacity, and the parser never stands outside *)
(* the block, the group or the dense nodes it is reading.                  *)
THEOREM TypeCorrect == Spec => [](TypeOK /\ ParserOK)
BY InitType, NextType, PTL DEF Spec, TypeInv

-----------------------------------------------------------------------------
(* Which blob indices a thread has had.                                    *)

Owns(t, i) ==
  \/ claimed[t] # 0 /\ i = claimed_idx[t]
  \/ block[t] # 0 /\ i = block_idx[t]
  \/ \E m \in DOMAIN chunks[t] : i = chunks[t][m].batch

ThreadOrder(t) ==
  /\ claimed[t] # 0 /\ block[t] # 0 => block_idx[t] < claimed_idx[t]
  /\ chunks[t] # <<>> => block[t] # 0
  /\ \A m \in DOMAIN chunks[t] : chunks[t][m].batch <= block_idx[t]
  /\ \A m, n \in DOMAIN chunks[t] :
       m < n => chunks[t][m].batch <= chunks[t][n].batch

OwnInv ==
  /\ \A t \in Threads : ThreadOrder(t)
  /\ \A t \in Threads : \A i \in Nat : Owns(t, i) => i < blob_index
  /\ \A t, u \in Threads : t # u =>
       \A i \in Nat : ~(Owns(t, i) /\ Owns(u, i))

held == <<claimed, claimed_idx, block, block_idx, chunks>>

(* The four ways a step can touch what OwnInv speaks of. *)
LEMMA OwnershipSteps ==
  ASSUME TypeInv, [Next]_vars
  PROVE  \/ UNCHANGED held /\ blob_index' >= blob_index
         \/ \E t \in Threads : TakeBlob(t) /\ UNCHANGED <<parser, chunks>>
         \/ \E t \in Threads : SetBlock(t)
         \/ \E t \in Threads : output[t] # <<>> /\ ReturnChunk(t)
<1> USE DEF TypeInv
<1>1. CASE UNCHANGED vars
  BY <1>1 DEF vars, parser, globals, held, TypeOK
<1>2. CASE InitGlobal
  <2>1. UNCHANGED held
    BY <1>2 DEF InitGlobal, parser, held
  <2>2. blob_index' >= blob_index
    BY <1>2 DEF InitGlobal, ReturnBlob, ThrowBlob, TypeOK
  <2> QED
    BY <2>1, <2>2
<1>3. ASSUME NEW t \in Threads, ScanStep(t) \/ Cancel(t)
      PROVE  \/ UNCHANGED held /\ blob_index' >= blob_index
             \/ TakeBlob(t) /\ UNCHANGED <<parser, chunks>>
             \/ SetBlock(t)
             \/ output[t] # <<>> /\ ReturnChunk(t)
  <2>1. CASE GetNextBlob(t)
    BY <2>1 DEF GetNextBlob, ReturnNull, ThrowBlob, parser, held, TypeOK
  <2>2. CASE FailDecompress(t) \/ Cancel(t) \/ EndRead(t)
    BY <2>2
    DEF FailDecompress, Cancel, EndRead, parser, globals, held, TypeOK
  <2>3. CASE EnterGroup(t) \/ EndBlock(t) \/ EndGroup(t) \/ ScanDenseNodes(t)
    BY <2>3
    DEF EnterGroup, EndBlock, EndGroup, ScanDenseNodes, globals, held, TypeOK
  <2>4. CASE ScanElement(t) \/ PrepareDenseNodes(t) \/ SkipEntry(t)
    BY <2>4
    DEF ScanElement, PrepareDenseNodes, SkipEntry, NextEntry, globals, held,
        TypeOK
  <2>5. CASE ReturnChunk(t)
    BY <2>5 DEF ReturnChunk, parser, globals, held, TypeOK
  <2> QED
    BY <1>3, <2>1, <2>2, <2>3, <2>4, <2>5 DEF ScanStep
<1> QED
  BY <1>1, <1>2, <1>3 DEF Next

LEMMA BatchType ==
  ASSUME TypeInv, NEW t \in Threads, NEW m \in DOMAIN chunks[t]
  PROVE  chunks[t][m].batch \in Nat
<1>1. chunks[t] \in Seq(Chunk)
  BY DEF TypeInv, TypeOK
<1>2. chunks[t][m] \in Chunk
  BY <1>1
<1> QED
  BY <1>2 DEF Chunk

LEMMA OwnInit == Init => OwnInv
BY DEF Init, OwnInv, ThreadOrder, Owns

(* OwnInv follows when every thread keeps its order and gains no index but *)
(* a fresh one, which only one thread gains.                               *)
LEMMA OwnTransfer ==
  ASSUME TypeInv, OwnInv, NEW t \in Threads,
         blob_index' \in Nat, blob_index' >= blob_index,
         \A u \in Threads : ThreadOrder(u)',
         \A u \in Threads : \A i \in Nat : Owns(u, i)' =>
           \/ Owns(u, i)
           \/ u = t /\ i = blob_index /\ blob_index' > blob_index
  PROVE  OwnInv'
<1>0. blob_index \in Nat
  BY DEF TypeInv, TypeOK
<1>1. \A u \in Threads : \A i \in Nat : Owns(u, i)' => i < blob_index'
  BY <1>0 DEF OwnInv
<1>2. \A u, v \in Threads : u # v =>
        \A i \in Nat : ~(Owns(u, i)' /\ Owns(v, i)')
  <2> SUFFICES ASSUME NEW u \in Threads, NEW v \in Threads, u # v,
                      NEW i \in Nat, Owns(u, i)', Owns(v, i)'
               PROVE  FALSE
    OBVIOUS
  <2>1. Owns(u, i) \/ (u = t /\ i = blob_index)
    OBVIOUS
  <2>2. Owns(v, i) \/ (v = t /\ i = blob_index)
    OBVIOUS
  <2> QED
    BY <1>0, <2>1, <2>2 DEF OwnInv
<1> QED
  BY <1>1, <1>2 DEF OwnInv

LEMMA OwnNext == TypeInv /\ TypeInv' /\ OwnInv /\ [Next]_vars => OwnInv'
<1> SUFFICES ASSUME TypeInv, TypeInv', OwnInv, [Next]_vars PROVE OwnInv'
  OBVIOUS
<1>1. CASE UNCHANGED held /\ blob_index' >= blob_index
  <2>1. PICK t \in Threads : TRUE
    BY SizesAssumption
  <2>2. \A u \in Threads : ThreadOrder(u)'
    BY <1>1 DEF OwnInv, ThreadOrder, held
  <2>3. \A u \in Threads : \A i \in Nat : Owns(u, i)' => Owns(u, i)
    BY <1>1 DEF Owns, held
  <2>4. blob_index' \in Nat
    BY DEF TypeInv, TypeOK
  <2> QED
    BY <1>1, <2>2, <2>3, <2>4, OwnTransfer
<1>2. ASSUME NEW t \in Threads, TakeBlob(t), UNCHANGED <<parser, chunks>>
      PROVE  OwnInv'
  <2>1. /\ claimed' = [claimed EXCEPT ![t] = claimed'[t]]
        /\ claimed_idx' = [claimed_idx EXCEPT ![t] = blob_index]
        /\ blob_index' = blob_index + 1
    BY <1>2 DEF TakeBlob, ReturnBlob, TypeInv, TypeOK
  <2>2. UNCHANGED <<block, block_idx, chunks>>
    BY <1>2 DEF parser
  <2>3. block[t] # 0 => block_idx[t] < blob_index
    BY DEF OwnInv, Owns, TypeInv, TypeOK
  <2>4. \A u \in Threads : ThreadOrder(u)'
    BY <2>1, <2>2, <2>3 DEF OwnInv, ThreadOrder, TypeInv, TypeOK
  <2>5. \A u \in Threads : \A i \in Nat : Owns(u, i)' =>
          Owns(u, i) \/ (u = t /\ i = blob_index /\ blob_index' > blob_index)
    <3>1. blob_index' > blob_index
      BY <2>1 DEF TypeInv, TypeOK
    <3>2. ASSUME NEW u \in Threads, NEW i \in Nat, u # t, Owns(u, i)'
          PROVE  Owns(u, i)
      BY <2>1, <2>2, <3>2 DEF Owns, TypeInv, TypeOK
    <3>3. ASSUME NEW u \in Threads, NEW i \in Nat, u = t, Owns(u, i)'
          PROVE  Owns(u, i) \/ i = blob_index
      BY <2>1, <2>2, <3>3 DEF Owns, TypeInv, TypeOK
    <3> QED
      BY <3>1, <3>2, <3>3
  <2>6. blob_index' \in Nat /\ blob_index' >= blob_index
    BY <2>1 DEF TypeInv, TypeOK
  <2> QED
    BY <2>4, <2>5, <2>6, OwnTransfer
<1>3. ASSUME NEW t \in Threads, SetBlock(t) PROVE OwnInv'
  <2>1. /\ claimed[t] # 0
        /\ block' = [block EXCEPT ![t] = claimed[t]]
        /\ block_idx' = [block_idx EXCEPT ![t] = claimed_idx[t]]
        /\ claimed' = [claimed EXCEPT ![t] = 0]
        /\ UNCHANGED <<claimed_idx, chunks, blob_index>>
    BY <1>3 DEF SetBlock, globals, TypeInv, ParserOK, Standing
  <2>2. \A u \in Threads : ThreadOrder(u)'
    <3> SUFFICES ASSUME NEW u \in Threads PROVE ThreadOrder(u)'
      OBVIOUS
    <3>1. ThreadOrder(u)
      BY DEF OwnInv
    <3>2. CASE u # t
      BY <2>1, <3>1, <3>2 DEF ThreadOrder, TypeInv, TypeOK
    <3>3. CASE u = t
      <4>1. \A m \in DOMAIN chunks[t] : chunks[t][m].batch \in Nat
        BY BatchType
      <4>2. /\ block_idx'[t] = claimed_idx[t] /\ claimed'[t] = 0
            /\ block'[t] = claimed[t] /\ chunks'[t] = chunks[t]
            /\ block_idx[t] \in Nat /\ claimed_idx[t] \in Nat
        BY <2>1 DEF TypeInv, TypeOK
      <4> QED
        BY <2>1, <3>1, <3>3, <4>1, <4>2 DEF ThreadOrder
    <3> QED
      BY <3>2, <3>3
  <2>3. \A u \in Threads : \A i \in Nat : Owns(u, i)' => Owns(u, i)
    BY <2>1 DEF Owns, TypeInv, TypeOK
  <2>4. blob_index' \in Nat /\ blob_index' >= blob_index
    BY <2>1 DEF TypeInv, TypeOK
  <2> QED
    BY <2>2, <2>3, <2>4, OwnTransfer
<1>4. ASSUME NEW t \in Threads, output[t] # <<>>, ReturnChunk(t)
      PROVE  OwnInv'
  <2> DEFINE chunk == [batch |-> block_idx[t], rows |-> output[t]]
  <2>1. /\ chunks' = [chunks EXCEPT ![t] = Append(@, chunk)]
        /\ UNCHANGED <<claimed, claimed_idx, block, block_idx, blob_index>>
    BY <1>4 DEF ReturnChunk, parser, globals
  <2>2. block[t] # 0
    BY <1>4 DEF TypeInv, ParserOK, Standing
  <2>3. chunk.batch = block_idx[t]
    OBVIOUS
  <2> HIDE DEF chunk
  <2>4. /\ chunks[t] \in Seq(Chunk)
        /\ DOMAIN chunks'[t] = DOMAIN chunks[t] \cup {Len(chunks[t]) + 1}
        /\ \A m \in DOMAIN chunks[t] :
             m < Len(chunks[t]) + 1 /\ chunks'[t][m] = chunks[t][m]
        /\ chunks'[t][Len(chunks[t]) + 1] = chunk
    <3>1. chunks[t] \in Seq(Chunk) /\ chunks'[t] = Append(chunks[t], chunk)
      BY <2>1 DEF TypeInv, TypeOK
    <3>2. block_idx[t] \in Nat /\ output[t] \in Seq(Row)
      BY DEF TypeInv, TypeOK
    <3>3. chunk \in Chunk
      BY <3>2 DEF chunk, Chunk
    <3> QED
      BY <3>1, <3>3, Appended
  <2>5. \A u \in Threads : ThreadOrder(u)'
    <3> SUFFICES ASSUME NEW u \in Threads PROVE ThreadOrder(u)'
      OBVIOUS
    <3>1. ThreadOrder(u)
      BY DEF OwnInv
    <3>2. CASE u # t
      BY <2>1, <3>1, <3>2 DEF ThreadOrder, TypeInv, TypeOK
    <3>3. CASE u = t
      <4>1. block_idx[t] \in Nat
        BY DEF TypeInv, TypeOK
      <4>2. \A m \in DOMAIN chunks'[t] : chunks'[t][m].batch <= block_idx'[t]
        BY <2>1, <2>3, <2>4, <3>1, <3>3, <4>1 DEF ThreadOrder
      <4>3. \A m, n \in DOMAIN chunks'[t] :
              m < n => chunks'[t][m].batch <= chunks'[t][n].batch
        BY <2>3, <2>4, <3>1, <3>3, <4>1 DEF ThreadOrder
      <4> QED
        BY <2>1, <2>2, <3>1, <3>3, <4>2, <4>3 DEF ThreadOrder
    <3> QED
      BY <3>2, <3>3
  <2>6. \A u \in Threads : \A i \in Nat : Owns(u, i)' => Owns(u, i)
    <3> SUFFICES ASSUME NEW u \in Threads, NEW i \in Nat, Owns(u, i)'
                 PROVE  Owns(u, i)
      OBVIOUS
    <3>1. CASE u # t
      BY <2>1, <3>1 DEF Owns, TypeInv, TypeOK
    <3>2. CASE u = t
      BY <2>1, <2>2, <2>3, <2>4, <3>2 DEF Owns
    <3> QED
      BY <3>1, <3>2
  <2>7. blob_index' \in Nat /\ blob_index' >= blob_index
    BY <2>1 DEF TypeInv, TypeOK
  <2> QED
    BY <2>5, <2>6, <2>7, OwnTransfer
<1> QED
  BY <1>1, <1>2, <1>3, <1>4, OwnershipSteps

(* Whatever the number of threads, no batch index is reported by two of    *)
(* them and each reports its own in order (GetBatchIndex).                 *)
THEOREM BatchesOwned == Spec => []BatchesAreOwned
<1>1. OwnInv /\ TypeInv => BatchesAreOwned
  <2> SUFFICES ASSUME OwnInv, TypeInv PROVE BatchesAreOwned
    OBVIOUS
  <2>1. ASSUME NEW t \in Threads, NEW m \in DOMAIN chunks[t]
        PROVE  chunks[t][m].batch \in Nat /\ Owns(t, chunks[t][m].batch)
    BY BatchType DEF Owns
  <2> QED
    BY <2>1 DEF OwnInv, ThreadOrder, BatchesAreOwned
<1> QED
  BY <1>1, InitType, NextType, OwnInit, OwnNext, PTL DEF Spec

=============================================================================
